---------------------- MODULE CoordinatedDocument_proofs ----------------------
(***************************************************************************)
(* The safety of the coordinated document for every group, roster and      *)
(* bound.  The invariant has four layers, each inductive relative to the   *)
(* ones before it: the role histories (HistoryInv), what they explain      *)
(* (AuthorityInv), what the journal would rebuild (ReplayInv), and what    *)
(* was let out (PublicationInv).                                           *)
(***************************************************************************)
EXTENDS CoordinatedDocument, FiniteSetTheorems, TLAPS

-----------------------------------------------------------------------------
(* Greatest elements, by well-foundedness of the natural numbers. *)

LEMMA LeastNatural ==
  ASSUME NEW S \in SUBSET Nat, S # {}
  PROVE  \E x \in S : \A y \in S : x <= y
<1>1. \E x \in S : \A y \in S : ~(<<y, x>> \in OpToRel(<, Nat))
  BY WFMin, NatLessThanWellFounded, Zenon
<1>2. \E x \in S : \A y \in S : ~(y < x)
  BY <1>1, Zenon DEF OpToRel
<1> QED
  BY <1>2

LEMMA GreatestBelow ==
  ASSUME NEW n \in Nat, NEW S \in SUBSET (1 .. n), S # {}
  PROVE  \E x \in S : \A y \in S : y <= x
<1> DEFINE D == {d \in Nat : n - d \in S}
<1>1. PICK s \in S : TRUE
  OBVIOUS
<1>2. n - s \in D
  BY <1>1
<1>3. D \in SUBSET Nat /\ D # {}
  BY <1>2
<1> HIDE DEF D
<1>4. PICK d \in D : \A e \in D : d <= e
  BY <1>3, LeastNatural
<1>5. n - d \in S /\ d \in Nat
  BY <1>4 DEF D
<1>6. ASSUME NEW y \in S PROVE y <= n - d
  <2>1. n - y \in D
    BY DEF D
  <2>2. d <= n - y
    BY <1>4, <2>1
  <2> QED
    BY <1>5, <2>2
<1> QED
  BY <1>5, <1>6

-----------------------------------------------------------------------------
(* Role histories.  A history is determined by any of its records: going    *)
(* back from it the parents leave no choice, and the genesis has none.      *)

LEMMA SignedTyped ==
  ASSUME signed \in Seq(RoleRecord)
  PROVE  /\ DOMAIN signed = 1 .. Len(signed) /\ Len(signed) \in Nat
         /\ \A k \in DOMAIN signed : /\ k \in Nat \ {0}
                                     /\ signed[k] \in RoleRecord
                                     /\ signed[k].parent \in Nat
                                     /\ signed[k].ctx \in Nat
                                     /\ signed[k].writers \in SUBSET Member
<1>1. DOMAIN signed = 1 .. Len(signed) /\ Len(signed) \in Nat
  OBVIOUS
<1>2. \A k \in DOMAIN signed : k \in Nat \ {0} /\ signed[k] \in RoleRecord
  BY <1>1
<1> QED
  BY <1>1, <1>2 DEF RoleRecord

(* History, record by record. *)

LEMMA HistorySteps ==
  ASSUME NEW h \in Seq(Nat), History(signed, h)
  PROVE  /\ DOMAIN h = 1 .. Len(h) /\ Len(h) \in Nat \ {0} /\ h[1] = 1
         /\ \A k \in 1 .. Len(h) :
              /\ h[k] \in DOMAIN signed
              /\ k > 1 => signed[h[k]].parent = h[k - 1]
              /\ \A j \in 1 .. (k - 1) : signed[h[j]].ctx < signed[h[k]].ctx
<1>1. DOMAIN h = 1 .. Len(h) /\ Len(h) \in Nat
  OBVIOUS
<1>2. h # <<>> /\ Len(h) # 0
  BY DEF History
<1> QED
  BY <1>1, <1>2 DEF History

LEMMA HistoryMade ==
  ASSUME NEW h \in Seq(Nat), Len(h) # 0, h[1] = 1,
         \A k \in 1 .. Len(h) :
              /\ h[k] \in DOMAIN signed
              /\ k > 1 => signed[h[k]].parent = h[k - 1]
              /\ \A j \in 1 .. (k - 1) : signed[h[j]].ctx < signed[h[k]].ctx
  PROVE  History(signed, h)
<1>1. DOMAIN h = 1 .. Len(h) /\ Len(h) \in Nat
  OBVIOUS
<1>2. h # <<>>
  OBVIOUS
<1> QED
  BY <1>1, <1>2 DEF History

LEMMA HistoriesAgree ==
  ASSUME signed \in Seq(RoleRecord),
         signed # <<>>, signed[1].parent = 0,
         NEW h \in Seq(Nat), History(signed, h), NEW g \in Seq(Nat), History(signed, g)
  PROVE  \A k \in DOMAIN h : \A j \in DOMAIN g : h[k] = g[j] =>
           k = j /\ \A i \in 1 .. k : h[i] = g[i]
<1> DEFINE Bad(k) == \E j \in 1 .. Len(g) :
                        h[k] = g[j] /\ (k # j \/ \E i \in 1 .. k : h[i] # g[i])
           S == {k \in 1 .. Len(h) : Bad(k)}
<1>1. S \in SUBSET Nat
  OBVIOUS
<1>2. ASSUME S # {} PROVE FALSE
  <2> HIDE DEF Bad, S
  <2>1. PICK k \in S : \A i \in S : k <= i
    BY <1>1, <1>2, LeastNatural
  <2>2. k \in 1 .. Len(h) /\ Bad(k)
    BY DEF S
  <2>3. PICK j \in 1 .. Len(g) :
          h[k] = g[j] /\ (k # j \/ \E i \in 1 .. k : h[i] # g[i])
    BY <2>2 DEF Bad
  <2>4. k \in Nat \ {0} /\ j \in Nat \ {0}
    BY <2>2, <2>3
  <2>5. k - 1 \in 1 .. Len(h) => ~Bad(k - 1)
    <3>1. ~(k <= k - 1)
      BY <2>4
    <3> QED
      BY <2>1, <3>1 DEF S
  <2>6. h[1] = 1 /\ g[1] = 1
    BY HistorySteps
  <2>7. /\ h[k] \in DOMAIN signed /\ g[j] \in DOMAIN signed
        /\ k > 1 => signed[h[k]].parent = h[k - 1]
        /\ j > 1 => signed[g[j]].parent = g[j - 1]
    BY <2>2, HistorySteps
  <2>8. CASE k = 1 \/ j = 1
    <3>1. \A i \in Nat \ {0} : ~(i > 1) => i = 1
      OBVIOUS
    <3>2. k > 1 => k - 1 \in 1 .. Len(h)
      BY <2>2
    <3>3. j > 1 => j - 1 \in 1 .. Len(g)
      OBVIOUS
    <3>4. k > 1 => h[k - 1] \in DOMAIN signed
      BY <3>2, HistorySteps
    <3>5. j > 1 => g[j - 1] \in DOMAIN signed
      BY <3>3, HistorySteps
    <3>6. k = 1 /\ j = 1
      <4>1. h[k] = 1 /\ g[j] = 1
        BY <2>3, <2>6, <2>8
      <4>2. 0 \notin DOMAIN signed
        BY SignedTyped
      <4>3. ~(k > 1) /\ ~(j > 1)
        BY <2>7, <3>4, <3>5, <4>1, <4>2
      <4> QED
        BY <2>4, <3>1, <4>3
    <3>7. \A i \in 1 .. k : h[i] = g[i]
      BY <2>6, <3>6
    <3> QED
      BY <2>3, <3>6, <3>7
  <2>9. CASE k # 1 /\ j # 1
    <3>1. /\ j > 1 /\ k > 1 /\ k - 1 \in 1 .. Len(h) /\ j - 1 \in 1 .. Len(g)
          /\ \A i \in 1 .. k : i = k \/ i \in 1 .. (k - 1)
      BY <2>2, <2>4, <2>9
    <3>2. h[k - 1] = g[j - 1]
      BY <2>3, <2>7, <3>1
    <3>3. k - 1 = j - 1 /\ \A i \in 1 .. (k - 1) : h[i] = g[i]
      BY <2>5, <3>1, <3>2 DEF Bad
    <3>4. k = j
      BY <2>4, <3>3
    <3> QED
      BY <2>3, <3>1, <3>3, <3>4
  <2> QED
    BY <2>8, <2>9
<1>3. \A k \in 1 .. Len(h) : ~Bad(k)
  BY <1>2
<1>4. DOMAIN h = 1 .. Len(h) /\ DOMAIN g = 1 .. Len(g)
  OBVIOUS
<1> QED
  BY <1>3, <1>4

(* A record that continues a history makes a history of it. *)

LEMMA HistoryExtends ==
  ASSUME signed \in Seq(RoleRecord),
         NEW h \in Seq(Nat), History(signed, h), NEW i \in DOMAIN signed,
         signed[i].parent = h[Len(h)], signed[i].ctx > signed[h[Len(h)]].ctx
  PROVE  Append(h, i) \in Seq(Nat) /\ History(signed, Append(h, i))
<1> DEFINE g == Append(h, i)
           n == Len(h)
<1>1. n \in Nat \ {0} /\ i \in Nat
  BY HistorySteps, SignedTyped
<1>2. /\ g \in Seq(Nat) /\ Len(g) = n + 1 /\ g[n + 1] = i
      /\ \A k \in 1 .. n : g[k] = h[k]
  BY <1>1
<1>3. \A k \in 1 .. n :
        /\ h[k] \in DOMAIN signed /\ signed[h[k]].ctx \in Nat
        /\ k > 1 => signed[h[k]].parent = h[k - 1]
        /\ \A j \in 1 .. (k - 1) : signed[h[j]].ctx < signed[h[k]].ctx
  BY HistorySteps, SignedTyped
<1>4. h[1] = 1 /\ signed[i].ctx \in Nat
  BY HistorySteps, SignedTyped
<1> HIDE DEF g, n
<1>5. signed[i].parent = h[n] /\ signed[i].ctx > signed[h[n]].ctx
  BY DEF n
<1>6. \A j \in 1 .. n : signed[h[j]].ctx < signed[i].ctx
  <2>1. \A j \in 1 .. n : j = n \/ j \in 1 .. (n - 1)
    BY <1>1
  <2>2. n \in 1 .. n
    BY <1>1
  <2> QED
    <3>1. signed[h[n]].ctx < signed[i].ctx /\ signed[h[n]].ctx \in Nat
      BY <1>3, <1>4, <1>5, <2>2
    <3>2. \A j \in 1 .. (n - 1) :
            /\ signed[h[j]].ctx < signed[h[n]].ctx
            /\ j \in 1 .. n /\ signed[h[j]].ctx \in Nat
      BY <1>1, <1>3, <2>2
    <3>3. ASSUME NEW j \in 1 .. n PROVE signed[h[j]].ctx < signed[i].ctx
      <4>1. CASE j = n
        BY <3>1, <4>1
      <4>2. CASE j \in 1 .. (n - 1)
        <5> DEFINE x == signed[h[j]].ctx
                   y == signed[h[n]].ctx
                   z == signed[i].ctx
        <5>1. x < y /\ y < z /\ x \in Nat /\ y \in Nat /\ z \in Nat
          BY <1>4, <3>1, <3>2, <4>2
        <5> HIDE DEF x, y, z
        <5>2. x < z
          BY <5>1
        <5> QED
          BY <5>2 DEF x, z
      <4> QED
        BY <2>1, <4>1, <4>2
    <3> QED
      BY <3>3
<1>7. ASSUME NEW k \in 1 .. (n + 1)
      PROVE  /\ g[k] \in DOMAIN signed
             /\ k > 1 => signed[g[k]].parent = g[k - 1]
             /\ \A j \in 1 .. (k - 1) : signed[g[j]].ctx < signed[g[k]].ctx
  <2>1. CASE k \in 1 .. n
    <3>1. k > 1 => k - 1 \in 1 .. n
      BY <1>1, <2>1
    <3>2. \A j \in 1 .. (k - 1) : j \in 1 .. n
      BY <1>1, <2>1
    <3> QED
      BY <1>2, <1>3, <2>1, <3>1, <3>2
  <2>2. CASE k = n + 1
    <3>1. n \in 1 .. n /\ k - 1 = n
      BY <1>1, <2>2
    <3> QED
      BY <1>2, <1>5, <1>6, <2>2, <3>1
  <2> QED
    BY <1>1, <2>1, <2>2
<1>8. g[1] = 1 /\ Len(g) # 0
  BY <1>1, <1>2, <1>4
<1>9. History(signed, g)
  BY <1>2, <1>7, <1>8, HistoryMade
<1> QED
  BY <1>2, <1>9 DEF g

(* Beginnings of a history are histories. *)

LEMMA HistoryBegins ==
  ASSUME NEW h \in Seq(Nat), History(signed, h), NEW r \in Seq(Nat), NEW n,
         Begins(r, h, n)
  PROVE  History(signed, r)
<1>1. n \in 1 .. Len(h) /\ Len(r) = n /\ n \in Nat \ {0}
  BY DEF Begins
<1>2. \A k \in 1 .. n : r[k] = h[k] /\ k \in 1 .. Len(h)
  BY <1>1 DEF Begins
<1>3. \A k \in 1 .. n : (k > 1 => k - 1 \in 1 .. n) /\ \A j \in 1 .. (k - 1) : j \in 1 .. n
  BY <1>1
<1>4. 1 \in 1 .. n
  BY <1>1
<1>5. \A k \in 1 .. n :
        /\ r[k] \in DOMAIN signed
        /\ k > 1 => signed[r[k]].parent = r[k - 1]
        /\ \A j \in 1 .. (k - 1) : signed[r[j]].ctx < signed[r[k]].ctx
  BY <1>2, <1>3, HistorySteps
<1>6. r[1] = 1
  BY <1>2, <1>4, HistorySteps
<1> QED
  BY <1>1, <1>5, <1>6, HistoryMade

-----------------------------------------------------------------------------
(* Replay, entry by entry. *)

(* Receipts start over at entry s. *)
StartsOver(w, s) == s = 1 \/ w[s].ckpt \/ w[s].ctx # w[s - 1].ctx

IsStart(w, k, s) ==
  /\ StartsOver(w, s)
  /\ \A j \in (s + 1) .. k : ~w[j].ckpt /\ w[j].ctx = w[j - 1].ctx

LEMMA StartExists ==
  ASSUME NEW w, NEW k \in Nat \ {0}
  PROVE  ReplayStart(w, k) \in 1 .. k /\ IsStart(w, k, ReplayStart(w, k))
<1> DEFINE S == {s \in 1 .. k : StartsOver(w, s)}
<1>1. 1 \in S
  BY DEF StartsOver
<1> HIDE DEF S
<1>2. S \in SUBSET (1 .. k) /\ S # {}
  BY <1>1 DEF S
<1>3. PICK x \in S : \A y \in S : y <= x
  BY <1>2, GreatestBelow
<1>4. x \in 1 .. k /\ StartsOver(w, x)
  BY DEF S
<1>5. ASSUME NEW j \in (x + 1) .. k PROVE ~w[j].ckpt /\ w[j].ctx = w[j - 1].ctx
  <2>1. j \in 1 .. k /\ ~(j <= x)
    BY <1>4
  <2>2. j \notin S
    BY <1>3, <2>1
  <2> QED
    BY <2>1, <2>2 DEF S, StartsOver
<1>6. \E s \in 1 .. k : IsStart(w, k, s)
  BY <1>4, <1>5 DEF IsStart
<1>7. ReplayStart(w, k) = CHOOSE s \in 1 .. k : IsStart(w, k, s)
  BY DEF ReplayStart, IsStart, StartsOver
<1> QED
  BY <1>6, <1>7

LEMMA StartUnique ==
  ASSUME NEW w, NEW k \in Nat \ {0}, NEW s \in 1 .. k, IsStart(w, k, s)
  PROVE  ReplayStart(w, k) = s
<1> DEFINE r == ReplayStart(w, k)
<1>1. r \in 1 .. k /\ IsStart(w, k, r)
  BY StartExists
<1> HIDE DEF r
<1>2. ASSUME NEW x \in 1 .. k, NEW y \in 1 .. k, IsStart(w, k, x), IsStart(w, k, y), x < y
      PROVE  FALSE
  <2>1. y \in (x + 1) .. k /\ y # 1
    BY <1>2
  <2> QED
    BY <1>2, <2>1 DEF IsStart, StartsOver
<1>3. ~(r < s) /\ ~(s < r)
  BY <1>1, <1>2
<1>4. r = s
  BY <1>1, <1>3
<1> QED
  BY <1>4 DEF r

(* The entries that say something about author a since the start. *)
Telling(w, k, a) == {j \in ReplayStart(w, k) .. k : a \in DOMAIN w[j].receipts}

LEMMA TellingLast ==
  ASSUME NEW w, NEW k \in Nat \ {0}, NEW a \in Member
  PROVE  /\ Telling(w, k, a) \in SUBSET (1 .. k)
         /\ Telling(w, k, a) = {} => ReplayedReceipts(w, k)[a] = NoReceipt
         /\ Telling(w, k, a) # {} =>
              \E j \in Telling(w, k, a) :
                /\ \A i \in Telling(w, k, a) : i <= j
                /\ ReplayedReceipts(w, k)[a] = w[j].receipts[a]
<1> DEFINE T == Telling(w, k, a)
<1>1. T \in SUBSET (1 .. k)
  BY StartExists DEF Telling
<1>2. ReplayedReceipts(w, k)[a] =
        IF T = {} THEN NoReceipt
        ELSE w[CHOOSE j \in T : \A i \in T : i <= j].receipts[a]
  BY DEF ReplayedReceipts, Telling
<1> HIDE DEF T
<1>3. T # {} => \E j \in T : \A i \in T : i <= j
  BY <1>1, GreatestBelow
<1>4. T # {} => LET j == CHOOSE j \in T : \A i \in T : i <= j
                IN  j \in T /\ \A i \in T : i <= j
  BY <1>3
<1>5. T = {} => ReplayedReceipts(w, k)[a] = NoReceipt
  BY <1>2
<1>6. T # {} => \E j \in T :
                /\ \A i \in T : i <= j
                /\ ReplayedReceipts(w, k)[a] = w[j].receipts[a]
  BY <1>2, <1>4
<1> QED
  BY <1>1, <1>5, <1>6 DEF T

LEMMA TellingIs ==
  ASSUME NEW w, NEW k \in Nat \ {0}, NEW a \in Member,
         NEW j \in Telling(w, k, a), \A i \in Telling(w, k, a) : i <= j
  PROVE  ReplayedReceipts(w, k)[a] = w[j].receipts[a]
<1>1. PICK x \in Telling(w, k, a) :
        /\ \A i \in Telling(w, k, a) : i <= x
        /\ ReplayedReceipts(w, k)[a] = w[x].receipts[a]
  BY TellingLast
<1>2. Telling(w, k, a) \in SUBSET (1 .. k)
  BY TellingLast
<1>3. x \in Nat /\ j \in Nat /\ x <= j /\ j <= x
  BY <1>1, <1>2
<1>4. x = j
  BY <1>3
<1> QED
  BY <1>1, <1>4

LEMMA ReplayedDomain ==
  ASSUME NEW w, NEW k \in Nat
  PROVE  /\ DOMAIN ReplayedReceipts(w, k) = Member
         /\ ReplayedReceipts(w, k) = [a \in Member |-> ReplayedReceipts(w, k)[a]]
<1>1. CASE k = 0
  <2>1. ReplayedReceipts(w, k) = [a \in Member |-> NoReceipt]
    BY <1>1 DEF ReplayedReceipts, NoReceipts
  <2> QED
    BY <2>1
<1>2. CASE k # 0
  <2> DEFINE R(a) == LET from == {j \in ReplayStart(w, k) .. k : a \in DOMAIN w[j].receipts}
                     IN  IF from = {} THEN NoReceipt
                         ELSE w[CHOOSE j \in from : \A i \in from : i <= j].receipts[a]
  <2>1. ReplayedReceipts(w, k) = [a \in Member |-> R(a)]
    BY <1>2 DEF ReplayedReceipts
  <2> HIDE DEF R
  <2> QED
    BY <2>1
<1> QED
  BY <1>1, <1>2

(* One entry more. *)
LEMMA StartNext ==
  ASSUME NEW w, NEW k \in Nat
  PROVE  /\ StartsOver(w, k + 1) => ReplayStart(w, k + 1) = k + 1
         /\ ~StartsOver(w, k + 1) => /\ k # 0
                                     /\ ReplayStart(w, k + 1) = ReplayStart(w, k)
<1>1. CASE StartsOver(w, k + 1)
  <2>1. IsStart(w, k + 1, k + 1) /\ k + 1 \in 1 .. (k + 1)
    BY <1>1 DEF IsStart
  <2>2. k + 1 \in Nat \ {0}
    OBVIOUS
  <2> QED
    BY <1>1, <2>1, <2>2, StartUnique
<1>2. CASE ~StartsOver(w, k + 1)
  <2>1. k # 0
    BY <1>2 DEF StartsOver
  <2> DEFINE s == ReplayStart(w, k)
  <2>2. s \in 1 .. k /\ IsStart(w, k, s)
    BY <2>1, StartExists
  <2> HIDE DEF s
  <2>3. \A j \in (s + 1) .. (k + 1) : j = k + 1 \/ j \in (s + 1) .. k
    BY <2>2
  <2>4. ~w[k + 1].ckpt /\ w[k + 1].ctx = w[(k + 1) - 1].ctx
    BY <1>2 DEF StartsOver
  <2>5. IsStart(w, k + 1, s)
    BY <2>2, <2>3, <2>4 DEF IsStart
  <2>6. k + 1 \in Nat \ {0} /\ s \in 1 .. (k + 1)
    BY <2>2
  <2>7. ReplayStart(w, k + 1) = s
    BY <2>5, <2>6, StartUnique
  <2> QED
    BY <1>2, <2>1, <2>7 DEF s
<1> QED
  BY <1>1, <1>2

LEMMA ReplayNext ==
  ASSUME NEW w, NEW k \in Nat, NEW a \in Member
  PROVE  ReplayedReceipts(w, k + 1)[a] =
           IF a \in DOMAIN w[k + 1].receipts THEN w[k + 1].receipts[a]
           ELSE IF StartsOver(w, k + 1) THEN NoReceipt
           ELSE ReplayedReceipts(w, k)[a]
<1> DEFINE T == Telling(w, k + 1, a)
<1>0. k + 1 \in Nat \ {0}
  OBVIOUS
<1>1. T \in SUBSET (1 .. (k + 1))
  BY <1>0, TellingLast
<1>2. ReplayStart(w, k + 1) \in 1 .. (k + 1)
  BY <1>0, StartExists
<1>3. CASE a \in DOMAIN w[k + 1].receipts
  <2>1. k + 1 \in T
    BY <1>2, <1>3 DEF Telling
  <2>2. \A i \in T : i <= k + 1
    BY <1>1
  <2>3. ReplayedReceipts(w, k + 1)[a] = w[k + 1].receipts[a]
    BY <1>0, <2>1, <2>2, TellingIs
  <2> QED
    BY <1>3, <2>3
<1>4. CASE a \notin DOMAIN w[k + 1].receipts /\ StartsOver(w, k + 1)
  <2>1. ReplayStart(w, k + 1) = k + 1
    BY <1>4, StartNext
  <2>2. T = {}
    BY <1>4, <2>1 DEF Telling
  <2>3. ReplayedReceipts(w, k + 1)[a] = NoReceipt
    BY <1>0, <2>2, TellingLast
  <2> QED
    BY <1>4, <2>3
<1>5. CASE a \notin DOMAIN w[k + 1].receipts /\ ~StartsOver(w, k + 1)
  <2>1. k # 0 /\ ReplayStart(w, k + 1) = ReplayStart(w, k)
    BY <1>5, StartNext
  <2>2. ReplayStart(w, k) \in 1 .. k
    BY <2>1, StartExists
  <2>3. \A j \in ReplayStart(w, k) .. (k + 1) : j = k + 1 \/ j \in ReplayStart(w, k) .. k
    BY <2>2
  <2>4. \A j \in ReplayStart(w, k) .. k : j \in ReplayStart(w, k) .. (k + 1)
    BY <2>2
  <2>5. T = Telling(w, k, a)
    BY <1>5, <2>1, <2>3, <2>4 DEF Telling
  <2> HIDE DEF T
  <2>6. CASE T = {}
    BY <1>0, <1>5, <2>1, <2>5, <2>6, TellingLast DEF T
  <2>7. CASE T # {}
    <3>1. PICK j \in T : /\ \A i \in T : i <= j
                         /\ ReplayedReceipts(w, k)[a] = w[j].receipts[a]
      BY <2>1, <2>5, <2>7, TellingLast
    <3>2. ReplayedReceipts(w, k + 1)[a] = w[j].receipts[a]
      BY <1>0, <3>1, TellingIs DEF T
    <3> QED
      BY <1>5, <3>1, <3>2
  <2> QED
    BY <2>6, <2>7
<1> QED
  BY <1>3, <1>4, <1>5

(* What the first k entries rebuild depends on them only. *)
LEMMA ReplaySame ==
  ASSUME NEW w, NEW v, NEW k \in Nat, \A i \in 1 .. k : v[i] = w[i]
  PROVE  /\ k # 0 => ReplayStart(v, k) = ReplayStart(w, k)
         /\ ReplayedReceipts(v, k) = ReplayedReceipts(w, k)
<1>1. k # 0 => ReplayStart(v, k) = ReplayStart(w, k)
  <2> SUFFICES ASSUME k # 0 PROVE ReplayStart(v, k) = ReplayStart(w, k)
    OBVIOUS
  <2> DEFINE s == ReplayStart(w, k)
  <2>1. s \in 1 .. k /\ IsStart(w, k, s)
    BY StartExists
  <2> HIDE DEF s
  <2>2. v[s] = w[s] /\ (s # 1 => v[s - 1] = w[s - 1])
    BY <2>1
  <2>3. \A j \in (s + 1) .. k : v[j] = w[j] /\ v[j - 1] = w[j - 1]
    BY <2>1
  <2>4. IsStart(v, k, s)
    BY <2>1, <2>2, <2>3 DEF IsStart, StartsOver
  <2>5. ReplayStart(v, k) = s
    BY <2>1, <2>4, StartUnique
  <2> QED
    BY <2>5 DEF s
<1>2. ASSUME NEW a \in Member
      PROVE  ReplayedReceipts(v, k)[a] = ReplayedReceipts(w, k)[a]
  <2>1. CASE k = 0
    BY <2>1 DEF ReplayedReceipts
  <2>2. CASE k # 0
    <3>1. Telling(v, k, a) = Telling(w, k, a)
      <4>1. ReplayStart(w, k) \in 1 .. k
        BY <2>2, StartExists
      <4>2. \A j \in ReplayStart(w, k) .. k : v[j] = w[j]
        BY <4>1
      <4> QED
        BY <1>1, <2>2, <4>2 DEF Telling
    <3>2. CASE Telling(w, k, a) = {}
      BY <2>2, <3>1, <3>2, TellingLast
    <3>3. CASE Telling(w, k, a) # {}
      <4>1. PICK j \in Telling(w, k, a) :
              /\ \A i \in Telling(w, k, a) : i <= j
              /\ ReplayedReceipts(w, k)[a] = w[j].receipts[a]
        BY <2>2, <3>3, TellingLast
      <4>2. j \in 1 .. k
        BY <2>2, TellingLast
      <4>3. ReplayedReceipts(v, k)[a] = v[j].receipts[a]
        BY <2>2, <3>1, <4>1, TellingIs
      <4> QED
        BY <4>1, <4>2, <4>3
    <3> QED
      BY <3>2, <3>3
  <2> QED
    BY <2>1, <2>2
<1>3. ReplayedReceipts(v, k) = ReplayedReceipts(w, k)
  BY <1>2, ReplayedDomain
<1> QED
  BY <1>1, <1>3

-----------------------------------------------------------------------------
(* The journal after an entry is accepted. *)

LEMMA AcceptedEntries ==
  ASSUME NEW w \in Seq(Entry), NEW e \in Entry
  PROVE  /\ Accepted(w, e) \in Seq(Entry)
         /\ Accepted(w, e) # <<>>
         /\ Len(Accepted(w, e)) = (IF e.ckpt THEN 1 ELSE Len(w) + 1)
         /\ DOMAIN Accepted(w, e) = 1 .. Len(Accepted(w, e))
         /\ Accepted(w, e)[Len(Accepted(w, e))] = e
         /\ \A k \in 1 .. (Len(Accepted(w, e)) - 1) :
              ~e.ckpt /\ k \in DOMAIN w /\ Accepted(w, e)[k] = w[k]
         /\ DOMAIN w = 1 .. Len(w) /\ Len(w) \in Nat
         /\ Len(Accepted(w, e)) \in Nat \ {0}
<1> DEFINE v == Accepted(w, e)
<1>0. DOMAIN w = 1 .. Len(w) /\ Len(w) \in Nat
  OBVIOUS
<1>1. CASE e.ckpt
  <2>1. v = <<e>>
    BY <1>1 DEF Accepted
  <2> HIDE DEF v
  <2>2. v \in Seq(Entry) /\ v # <<>> /\ Len(v) = 1 /\ DOMAIN v = 1 .. 1 /\ v[1] = e
    BY <2>1
  <2>3. 1 .. (1 - 1) = {}
    OBVIOUS
  <2> QED
    BY <1>0, <1>1, <2>2, <2>3 DEF v
<1>2. CASE ~e.ckpt
  <2>1. v = Append(w, e)
    BY <1>2 DEF Accepted
  <2> HIDE DEF v
  <2>2. /\ v \in Seq(Entry) /\ v # <<>> /\ Len(v) = Len(w) + 1
        /\ DOMAIN v = 1 .. (Len(w) + 1) /\ v[Len(w) + 1] = e
        /\ \A k \in 1 .. Len(w) : v[k] = w[k]
    BY <2>1
  <2>3. (Len(w) + 1) - 1 = Len(w)
    BY <1>0
  <2> QED
    BY <1>0, <1>2, <2>2, <2>3 DEF v
<1> QED
  BY <1>1, <1>2

LEMMA AcceptedContent ==
  ASSUME NEW w \in Seq(Entry), NEW e \in Entry
  PROVE  /\ e.ckpt => ReplayedContent(Accepted(w, e)) = e.content
         /\ ~e.ckpt => ReplayedContent(Accepted(w, e)) = ReplayedContent(w) \cup e.content
         /\ e.content \subseteq ReplayedContent(Accepted(w, e))
<1> DEFINE v == Accepted(w, e)
           n == Len(v)
<1>1. /\ DOMAIN v = 1 .. n /\ n \in Nat \ {0} /\ v[n] = e
      /\ \A k \in 1 .. (n - 1) : ~e.ckpt /\ k \in DOMAIN w /\ v[k] = w[k]
      /\ n = (IF e.ckpt THEN 1 ELSE Len(w) + 1)
      /\ DOMAIN w = 1 .. Len(w) /\ Len(w) \in Nat
  BY AcceptedEntries
<1> HIDE DEF v, n
<1>2. /\ n \in DOMAIN v
      /\ \A k \in DOMAIN v : k = n \/ k \in 1 .. (n - 1)
      /\ e.ckpt => 1 .. (n - 1) = {}
      /\ ~e.ckpt => 1 .. (n - 1) = DOMAIN w /\ \A k \in DOMAIN w : k \in DOMAIN v
  BY <1>1
<1>3. \A x : x \in ReplayedContent(v) <=> \E k \in DOMAIN v : x \in v[k].content
  BY DEF ReplayedContent
<1>4. \A x : x \in ReplayedContent(w) <=> \E k \in DOMAIN w : x \in w[k].content
  BY DEF ReplayedContent
<1>5. e.ckpt => \A x : x \in ReplayedContent(v) <=> x \in e.content
  BY <1>1, <1>2, <1>3
<1>6. ~e.ckpt => \A x : x \in ReplayedContent(v) <=> x \in ReplayedContent(w) \/ x \in e.content
  BY <1>1, <1>2, <1>3, <1>4
<1>7. e.ckpt => ReplayedContent(v) = e.content
  BY <1>5
<1>8. ~e.ckpt => ReplayedContent(v) = ReplayedContent(w) \cup e.content
  BY <1>6
<1> QED
  BY <1>7, <1>8 DEF v

(* Whether the receipts start over at the accepted entry e. *)
Renews(w, e) == e.ckpt \/ w = <<>> \/ e.ctx # LastCtx(w)

LEMMA AcceptedReceipts ==
  ASSUME NEW w \in Seq(Entry), NEW e \in Entry, NEW a \in Member
  PROVE  ReplayedReceipts(Accepted(w, e), Len(Accepted(w, e)))[a] =
           IF a \in DOMAIN e.receipts THEN e.receipts[a]
           ELSE IF Renews(w, e) THEN NoReceipt
           ELSE ReplayedReceipts(w, Len(w))[a]
<1> DEFINE v == Accepted(w, e)
           n == Len(v)
           k == n - 1
<1>1. /\ n \in Nat \ {0} /\ v[n] = e /\ DOMAIN v = 1 .. n
      /\ \A i \in 1 .. k : ~e.ckpt /\ i \in DOMAIN w /\ v[i] = w[i]
      /\ n = (IF e.ckpt THEN 1 ELSE Len(w) + 1)
      /\ Len(w) \in Nat /\ DOMAIN w = 1 .. Len(w)
  BY AcceptedEntries
<1>2. w = <<>> <=> Len(w) = 0
  OBVIOUS
<1> HIDE DEF v
<1>3. k \in Nat /\ n = k + 1
  BY <1>1
<1>4. ~e.ckpt => k = Len(w) /\ \A i \in 1 .. Len(w) : v[i] = w[i]
  BY <1>1
<1>5. e.ckpt => n = 1
  BY <1>1
<1>6. StartsOver(v, n) <=> Renews(w, e)
  <2>1. CASE e.ckpt
    BY <1>1, <2>1 DEF StartsOver, Renews
  <2>2. CASE ~e.ckpt /\ k = 0
    BY <1>1, <1>2, <1>3, <1>4, <2>2 DEF StartsOver, Renews
  <2>3. CASE ~e.ckpt /\ k # 0
    <3>1. Len(w) \in 1 .. Len(w) /\ n # 1 /\ w # <<>>
      BY <1>1, <1>2, <1>3, <1>4, <2>3
    <3>2. v[n - 1] = w[Len(w)]
      BY <1>4, <2>3, <3>1
    <3>3. LastCtx(w) = v[n - 1].ctx
      BY <3>1, <3>2 DEF LastCtx
    <3> QED
      BY <1>1, <2>3, <3>1, <3>3 DEF StartsOver, Renews
  <2> QED
    BY <2>1, <2>2, <2>3
<1>7. ~e.ckpt => ReplayedReceipts(v, k) = ReplayedReceipts(w, Len(w))
  BY <1>1, <1>4, ReplaySame
<1>8. ReplayedReceipts(v, k + 1)[a] =
           IF a \in DOMAIN v[k + 1].receipts THEN v[k + 1].receipts[a]
           ELSE IF StartsOver(v, k + 1) THEN NoReceipt
           ELSE ReplayedReceipts(v, k)[a]
  BY <1>3, ReplayNext
<1>9. ReplayedReceipts(v, n)[a] =
           IF a \in DOMAIN e.receipts THEN e.receipts[a]
           ELSE IF Renews(w, e) THEN NoReceipt
           ELSE ReplayedReceipts(v, k)[a]
  BY <1>1, <1>3, <1>6, <1>8
<1>10. ~Renews(w, e) => ~e.ckpt
  BY DEF Renews
<1>11. ReplayedReceipts(v, n)[a] =
           IF a \in DOMAIN e.receipts THEN e.receipts[a]
           ELSE IF Renews(w, e) THEN NoReceipt
           ELSE ReplayedReceipts(w, Len(w))[a]
  BY <1>7, <1>9, <1>10
<1> QED
  BY <1>11 DEF v

LEMMA AcceptedValid ==
  ASSUME NEW w \in Seq(Entry), NEW e \in Entry, ReplayValid(w),
         ~e.ckpt => \A a \in DOMAIN e.receipts :
           e.receipts[a].seq =
             1 + (IF Renews(w, e) THEN 0 ELSE ReplayedReceipts(w, Len(w))[a].seq)
  PROVE  ReplayValid(Accepted(w, e))
<1> DEFINE v == Accepted(w, e)
           n == Len(v)
           k == n - 1
<1>1. /\ n \in Nat \ {0} /\ v[n] = e /\ DOMAIN v = 1 .. n
      /\ \A i \in 1 .. k : ~e.ckpt /\ i \in DOMAIN w /\ v[i] = w[i]
      /\ n = (IF e.ckpt THEN 1 ELSE Len(w) + 1)
      /\ Len(w) \in Nat /\ DOMAIN w = 1 .. Len(w)
  BY AcceptedEntries
<1>2. w = <<>> <=> Len(w) = 0
  OBVIOUS
<1> HIDE DEF v
<1>3. k \in Nat /\ n = k + 1 /\ \A i \in 1 .. n : i = n \/ i \in 1 .. k
  BY <1>1
<1>4. ~e.ckpt => k = Len(w) /\ \A i \in 1 .. Len(w) : v[i] = w[i]
  BY <1>1
<1> SUFFICES ASSUME NEW i \in 1 .. n, ~v[i].ckpt, NEW a \in DOMAIN v[i].receipts
             PROVE  v[i].receipts[a].seq =
                      1 + (IF i = ReplayStart(v, i) THEN 0
                           ELSE ReplayedReceipts(v, i - 1)[a].seq)
  BY <1>1 DEF ReplayValid, v
<1>5. CASE i \in 1 .. k
  <2>1. v[i] = w[i] /\ i \in DOMAIN w /\ i \in Nat \ {0} /\ i - 1 \in Nat
    BY <1>1, <1>5
  <2>2. (\A j \in 1 .. i : v[j] = w[j]) /\ (\A j \in 1 .. (i - 1) : v[j] = w[j])
    BY <1>1, <1>3, <1>5
  <2>3. ReplayStart(v, i) = ReplayStart(w, i)
    BY <2>1, <2>2, ReplaySame
  <2>4. ReplayedReceipts(v, i - 1) = ReplayedReceipts(w, i - 1)
    BY <2>1, <2>2, ReplaySame
  <2> QED
    BY <2>1, <2>3, <2>4 DEF ReplayValid
<1>6. CASE i = n
  <2>1. ~e.ckpt /\ a \in DOMAIN e.receipts /\ v[i] = e
    BY <1>1, <1>6
  <2>2. k = Len(w) /\ ReplayedReceipts(v, k) = ReplayedReceipts(w, Len(w))
    BY <1>1, <1>4, <2>1, ReplaySame
  <2>3. StartsOver(v, n) <=> Renews(w, e)
    <3>1. CASE k = 0
      BY <1>1, <1>2, <1>3, <1>4, <2>1, <3>1 DEF StartsOver, Renews
    <3>2. CASE k # 0
      <4>1. Len(w) \in 1 .. Len(w) /\ n # 1 /\ w # <<>>
        BY <1>1, <1>2, <1>3, <2>2, <3>2
      <4>2. v[n - 1] = w[Len(w)]
        BY <1>4, <2>1, <4>1
      <4>3. LastCtx(w) = v[n - 1].ctx
        BY <4>1, <4>2 DEF LastCtx
      <4> QED
        BY <1>1, <2>1, <4>1, <4>3 DEF StartsOver, Renews
    <3> QED
      BY <3>1, <3>2
  <2>4. StartsOver(v, k + 1) <=> k + 1 = ReplayStart(v, k + 1)
    <3>1. StartsOver(v, k + 1) => ReplayStart(v, k + 1) = k + 1
      BY <1>3, StartNext
    <3>2. ~StartsOver(v, k + 1) => ReplayStart(v, k + 1) \in 1 .. k
      <4> SUFFICES ASSUME ~StartsOver(v, k + 1) PROVE ReplayStart(v, k + 1) \in 1 .. k
        OBVIOUS
      <4>1. k # 0 /\ ReplayStart(v, k + 1) = ReplayStart(v, k)
        BY <1>3, StartNext
      <4> QED
        BY <1>3, <4>1, StartExists
    <3> DEFINE x == ReplayStart(v, k + 1)
               B == StartsOver(v, k + 1)
    <3> HIDE DEF x, B, n, v
    <3>3. B => x = k + 1
      BY <3>1 DEF x, B
    <3>4. ~B => x # k + 1
      BY <1>3, <3>2 DEF x, B
    <3>5. B <=> k + 1 = x
      BY <3>3, <3>4
    <3> QED
      BY <3>5 DEF x, B
  <2>5. i = ReplayStart(v, i) <=> Renews(w, e)
    BY <1>3, <1>6, <2>3, <2>4
  <2> QED
    BY <1>6, <2>1, <2>2, <2>5
<1> QED
  BY <1>3, <1>5, <1>6

(* The newest records of a journal. *)
LEMMA StoredIs ==
  ASSUME NEW w \in Seq(Entry)
  PROVE  \/ /\ StoredRecords(w) = <<>>
            /\ \A k \in DOMAIN w : w[k].records = <<>>
         \/ \E k \in DOMAIN w :
              /\ w[k].records # <<>> /\ StoredRecords(w) = w[k].records
              /\ \A j \in DOMAIN w : w[j].records # <<>> => j <= k
<1> DEFINE full == {k \in DOMAIN w : w[k].records # <<>>}
<1>1. StoredRecords(w) = IF full = {} THEN <<>>
                         ELSE w[CHOOSE k \in full : \A j \in full : j <= k].records
  BY DEF StoredRecords
<1>2. full \in SUBSET (1 .. Len(w)) /\ Len(w) \in Nat
  OBVIOUS
<1>3. CASE full = {}
  BY <1>1, <1>3
<1>4. CASE full # {}
  <2> DEFINE k == CHOOSE k \in full : \A j \in full : j <= k
  <2> HIDE DEF full
  <2>1. \E x \in full : \A j \in full : j <= x
    BY <1>2, <1>4, GreatestBelow
  <2>2. k \in full /\ \A j \in full : j <= k
    BY <2>1
  <2> HIDE DEF k
  <2>3. StoredRecords(w) = w[k].records
    BY <1>1, <1>4 DEF k
  <2> QED
    BY <2>2, <2>3 DEF full
<1> QED
  BY <1>3, <1>4

LEMMA StoredAccepted ==
  ASSUME NEW w \in Seq(Entry), NEW e \in Entry, e.ckpt => e.records # <<>>
  PROVE  StoredRecords(Accepted(w, e)) =
           IF e.records # <<>> THEN e.records ELSE StoredRecords(w)
<1> DEFINE v == Accepted(w, e)
           n == Len(v)
<1>1. /\ n \in Nat \ {0} /\ v[n] = e /\ DOMAIN v = 1 .. n /\ v \in Seq(Entry)
      /\ \A i \in 1 .. (n - 1) : ~e.ckpt /\ i \in DOMAIN w /\ v[i] = w[i]
      /\ n = (IF e.ckpt THEN 1 ELSE Len(w) + 1)
      /\ Len(w) \in Nat /\ DOMAIN w = 1 .. Len(w)
  BY AcceptedEntries
<1> HIDE DEF v
<1>2. n \in DOMAIN v /\ \A i \in DOMAIN v : i = n \/ i \in 1 .. (n - 1)
  BY <1>1
<1>3. CASE e.records # <<>>
  <2>1. PICK k \in DOMAIN v : /\ v[k].records # <<>> /\ StoredRecords(v) = v[k].records
                              /\ \A j \in DOMAIN v : v[j].records # <<>> => j <= k
    BY <1>1, <1>2, <1>3, StoredIs
  <2>2. n <= k /\ k <= n /\ k \in Nat /\ n \in Nat
    BY <1>1, <1>2, <1>3, <2>1
  <2>3. k = n
    BY <2>2
  <2> QED
    BY <1>1, <1>3, <2>1, <2>3 DEF v
<1>4. CASE e.records = <<>>
  <2>1. ~e.ckpt /\ n - 1 = Len(w)
    BY <1>1, <1>4
  <2>2. \A k \in DOMAIN w : k \in DOMAIN v /\ v[k] = w[k]
    BY <1>1, <2>1
  <2>3. {k \in DOMAIN v : v[k].records # <<>>} = {k \in DOMAIN w : w[k].records # <<>>}
    BY <1>1, <1>2, <1>4, <2>1, <2>2
  <2> DEFINE full == {k \in DOMAIN w : w[k].records # <<>>}
             k == CHOOSE k \in full : \A j \in full : j <= k
             F(S, u) == IF S = {} THEN <<>>
                        ELSE u[CHOOSE x \in S : \A j \in S : j <= x].records
  <2>9. StoredRecords(v) = F({x \in DOMAIN v : v[x].records # <<>>}, v)
    BY DEF StoredRecords
  <2>4. StoredRecords(v) = IF full = {} THEN <<>> ELSE v[k].records
    <3>1. StoredRecords(v) = F(full, v)
      <4> HIDE DEF F
      <4> QED
        BY <2>3, <2>9
    <3> QED
      BY <3>1
  <2>5. StoredRecords(w) = IF full = {} THEN <<>> ELSE w[k].records
    BY DEF StoredRecords
  <2>6. full # {} => k \in full
    <3>1. full \in SUBSET (1 .. Len(w))
      BY <1>1
    <3> HIDE DEF full
    <3>2. full # {} => \E x \in full : \A j \in full : j <= x
      BY <1>1, <3>1, GreatestBelow
    <3> QED
      BY <3>2
  <2>7. full # {} => v[k] = w[k]
    BY <2>2, <2>6
  <2> HIDE DEF full, k
  <2>8. StoredRecords(v) = StoredRecords(w)
    BY <2>4, <2>5, <2>7
  <2> QED
    BY <1>4, <2>8 DEF v
<1> QED
  BY <1>3, <1>4

-----------------------------------------------------------------------------
(* Types *)

LEMMA FieldsTyped ==
  ASSUME NEW x \in Fields
  PROVE  /\ x.mode \in {"off", "open", "closing", "failed"}
         /\ x.doc \in SUBSET Frame
         /\ x.receipts \in [Member -> Receipt]
         /\ x.rctx \in Nat /\ x.persisted \in Nat /\ x.op \in Operation
         /\ \A o \in Operation : [x EXCEPT !.op = o] \in Fields
         /\ \A md \in {"off", "open", "closing", "failed"} : [x EXCEPT !.mode = md] \in Fields
BY DEF Fields

LEMMA OperationTyped ==
  ASSUME NEW o \in Operation
  PROVE  /\ o.stage \in {"idle", "role", "prepared", "committing"}
         /\ o = Idle <=> o.stage = "idle"
         /\ o.stage \in {"prepared", "committing"} =>
              /\ o.entry \in Entry /\ o.revision \in Nat /\ o.local \in BOOLEAN
              /\ o.local => o.frame \in Frame
         /\ o.stage = "prepared" =>
              /\ o.frame \in Frame /\ o.ctx \in Nat
              /\ LET c == [o EXCEPT !.stage = "committing"] IN
                   /\ c \in Operation /\ c.stage = "committing" /\ c.local = o.local
                   /\ c.frame = o.frame /\ c.entry = o.entry /\ c.revision = o.revision
<1>1. CASE o = Idle
  BY <1>1 DEF Idle
<1>2. CASE o = [stage |-> "role"]
  BY <1>2 DEF Idle
<1>3. CASE o \in [stage : {"prepared", "committing"}, local : BOOLEAN, frame : Frame,
                  ctx : Nat, revision : Nat, entry : Entry]
  <2>1. /\ o.stage \in {"prepared", "committing"} /\ o.local \in BOOLEAN
        /\ o.frame \in Frame /\ o.ctx \in Nat /\ o.revision \in Nat /\ o.entry \in Entry
    BY <1>3
  <2>2. o # Idle
    BY <2>1 DEF Idle
  <2>3. [o EXCEPT !.stage = "committing"] \in
          [stage : {"prepared", "committing"}, local : BOOLEAN, frame : Frame,
           ctx : Nat, revision : Nat, entry : Entry]
    BY <1>3
  <2> DEFINE c == [o EXCEPT !.stage = "committing"]
  <2>4. c \in Operation
    BY <2>3 DEF Operation
  <2>5. /\ c.stage = "committing" /\ c.local = o.local
        /\ c.frame = o.frame /\ c.entry = o.entry /\ c.revision = o.revision
    BY <1>3
  <2> HIDE DEF c
  <2> QED
    BY <2>1, <2>2, <2>4, <2>5 DEF c
<1>4. CASE o \in [stage : {"committing"}, local : {FALSE}, revision : Nat, entry : Entry]
  <2>1. /\ o.stage = "committing" /\ o.local = FALSE
        /\ o.revision \in Nat /\ o.entry \in Entry
    BY <1>4
  <2>2. o # Idle
    BY <2>1 DEF Idle
  <2> QED
    BY <2>1, <2>2
<1> QED
  BY <1>1, <1>2, <1>3, <1>4 DEF Operation

LEMMA OperationsMade ==
  /\ Idle \in Operation /\ [stage |-> "role"] \in Operation
  /\ \A l \in BOOLEAN : \A f \in Frame : \A c \in Nat : \A r \in Nat : \A e \in Entry :
       [stage |-> "prepared", local |-> l, frame |-> f, ctx |-> c,
        revision |-> r, entry |-> e] \in Operation
  /\ \A r \in Nat : \A e \in Entry :
       [stage |-> "committing", local |-> FALSE, revision |-> r, entry |-> e] \in Operation
BY DEF Operation

LEMMA OffTyped == Off \in Fields
<1>1. NoReceipts \in [Member -> Receipt]
  BY DEF NoReceipts, NoReceipt, Receipt
<1> QED
  BY <1>1, OperationsMade DEF Off, Fields

LEMMA MemberTyped ==
  ASSUME TypeOK, NEW m \in Member
  PROVE  /\ mem[m] \in Fields /\ mem[m].op \in Operation
         /\ mem[m].mode \in {"off", "open", "closing", "failed"}
         /\ mem[m].doc \in SUBSET Frame
         /\ mem[m].receipts \in [Member -> Receipt]
         /\ mem[m].rctx \in Nat /\ mem[m].persisted \in Nat
         /\ epoch[m] \in Nat \ {0} /\ log[m] \in Seq(Nat) /\ wal[m] \in Seq(Entry)
         /\ outbox[m] \in Seq(Frame) /\ made[m] \in Nat /\ acked[m] \in SUBSET Frame
<1>1. mem[m] \in Fields
  BY DEF TypeOK
<1>2. /\ epoch[m] \in Nat \ {0} /\ log[m] \in Seq(Nat) /\ wal[m] \in Seq(Entry)
      /\ outbox[m] \in Seq(Frame) /\ made[m] \in Nat /\ acked[m] \in SUBSET Frame
  BY DEF TypeOK
<1> QED
  BY <1>1, <1>2, FieldsTyped

LEMMA FrameTyped ==
  ASSUME NEW f \in Frame
  PROVE  /\ f.author \in Member /\ f.ctx \in Nat /\ f.head \in Nat /\ f.seq \in Nat
         /\ f.parent \in Nat /\ f.n \in Nat /\ f.deps \in SUBSET (Member \X Nat)
         /\ [seq |-> f.seq, n |-> f.n] \in Receipt
         /\ FrameId(f) \in Member \X Nat
BY DEF Frame, Receipt, FrameId

LEMMA EntryTyped ==
  ASSUME NEW e \in Entry
  PROVE  /\ e.ckpt \in BOOLEAN /\ e.ctx \in Nat /\ e.content \in SUBSET Frame
         /\ e.head \in Nat /\ e.records \in Seq(Nat)
         /\ DOMAIN e.receipts \subseteq Member
         /\ \A a \in DOMAIN e.receipts : e.receipts[a] \in Receipt
<1>1. /\ e.ckpt \in BOOLEAN /\ e.ctx \in Nat /\ e.content \in SUBSET Frame
      /\ e.head \in Nat /\ e.records \in Seq(Nat) /\ e.receipts \in PartialReceipts
  BY DEF Entry
<1>2. PICK S \in SUBSET Member : e.receipts \in [S -> Receipt]
  BY <1>1 DEF PartialReceipts
<1> QED
  BY <1>1, <1>2

LEMMA ReceiptsTyped ==
  ASSUME TypeOK, NEW m \in Member
  PROVE  /\ ReceiptsFor(m) \in [Member -> Receipt]
         /\ NoReceipts \in [Member -> Receipt] /\ NoReceipt \in Receipt
         /\ \A f \in Frame : Accept(ReceiptsFor(m), f) \in [Member -> Receipt]
<1>1. NoReceipts \in [Member -> Receipt] /\ NoReceipt \in Receipt
  BY DEF NoReceipts, NoReceipt, Receipt
<1>2. ReceiptsFor(m) \in [Member -> Receipt]
  BY <1>1, MemberTyped DEF ReceiptsFor
<1>3. \A f \in Frame : Accept(ReceiptsFor(m), f) \in [Member -> Receipt]
  BY <1>2, FrameTyped DEF Accept
<1> QED
  BY <1>1, <1>2, <1>3

LEMMA RestrictTyped ==
  ASSUME NEW rs \in [Member -> Receipt], NEW S \in SUBSET Member
  PROVE  Restrict(rs, S) \in PartialReceipts /\ DOMAIN Restrict(rs, S) = S
         /\ \A a \in S : Restrict(rs, S)[a] = rs[a]
<1>1. Restrict(rs, S) \in [S -> Receipt]
  BY DEF Restrict
<1> QED
  BY <1>1 DEF Restrict, PartialReceipts

LEMMA ContentEntryTyped ==
  ASSUME TypeOK, NEW m \in Member, log[m] # <<>>, NEW f \in Frame
  PROVE  /\ ContentEntry(m, f) \in Entry
         /\ HeadOf(m) \in Nat /\ Len(log[m]) \in DOMAIN log[m] /\ Len(log[m]) \in Nat \ {0}
<1>1. HeadOf(m) \in Nat /\ Len(log[m]) \in DOMAIN log[m] /\ Len(log[m]) \in Nat \ {0}
  <2>1. log[m] \in Seq(Nat) /\ log[m] # <<>>
    BY MemberTyped
  <2>2. Len(log[m]) \in 1 .. Len(log[m])
    BY <2>1
  <2> QED
    BY <2>1, <2>2 DEF HeadOf
<1> DEFINE ckpt == Len(wal[m]) >= MaxWal
           rs == Accept(ReceiptsFor(m), f)
<1>2. rs \in [Member -> Receipt]
  BY ReceiptsTyped
<1> HIDE DEF rs
<1>3. Restrict(rs, Known(rs)) \in PartialReceipts
  BY <1>2, RestrictTyped DEF Known
<1>4. Restrict(rs, {f.author}) \in PartialReceipts
  BY <1>2, RestrictTyped, FrameTyped
<1>5. EntryReceipts(ReceiptsFor(m), f, ckpt) \in PartialReceipts
  BY <1>3, <1>4 DEF EntryReceipts, rs
<1>6. EntryContent(m, f, ckpt) \in SUBSET Frame
  BY MemberTyped DEF EntryContent
<1>7. EntryRecords(m, ckpt) \in Seq(Nat)
  BY MemberTyped DEF EntryRecords
<1>8. ckpt \in BOOLEAN
  OBVIOUS
<1>9. epoch[m] \in Nat
  BY MemberTyped
<1> HIDE DEF ckpt
<1>10. [ckpt |-> ckpt, ctx |-> epoch[m], content |-> EntryContent(m, f, ckpt),
        receipts |-> EntryReceipts(ReceiptsFor(m), f, ckpt),
        head |-> HeadOf(m), records |-> EntryRecords(m, ckpt)] \in Entry
  BY <1>1, <1>5, <1>6, <1>7, <1>8, <1>9 DEF Entry
<1>11. ContentEntry(m, f) \in Entry
  BY <1>10 DEF ContentEntry, ckpt
<1> QED
  BY <1>1, <1>11

LEMMA RoleEntryTyped ==
  ASSUME TypeOK, NEW m \in Member, log[m] # <<>>
  PROVE  RoleEntry(m) \in Entry
<1>1. HeadOf(m) \in Nat
  <2>1. log[m] \in Seq(Nat) /\ log[m] # <<>>
    BY MemberTyped
  <2>2. Len(log[m]) \in 1 .. Len(log[m])
    BY <2>1
  <2> QED
    BY <2>1, <2>2 DEF HeadOf
<1>2. <<>> \in PartialReceipts
  <2>1. <<>> \in [{} -> Receipt]
    OBVIOUS
  <2> QED
    BY <2>1 DEF PartialReceipts
<1>3. epoch[m] \in Nat /\ mem[m].doc \in SUBSET Frame /\ log[m] \in Seq(Nat)
  BY MemberTyped
<1> QED
  BY <1>1, <1>2, <1>3 DEF RoleEntry, Entry

LEMMA ReplayedTyped ==
  ASSUME NEW w \in Seq(Entry)
  PROVE  /\ ReplayedContent(w) \in SUBSET Frame
         /\ LastCtx(w) \in Nat
         /\ ReplayedReceipts(w, Len(w)) \in [Member -> Receipt]
         /\ StoredRecords(w) \in Seq(Nat)
<1>1. Len(w) \in Nat /\ DOMAIN w = 1 .. Len(w) /\ \A k \in 1 .. Len(w) : w[k] \in Entry
  OBVIOUS
<1>2. ReplayedContent(w) \in SUBSET Frame
  BY <1>1, EntryTyped DEF ReplayedContent
<1>3. LastCtx(w) \in Nat
  <2>1. w # <<>> => Len(w) \in 1 .. Len(w)
    OBVIOUS
  <2> QED
    BY <1>1, <2>1, EntryTyped DEF LastCtx
<1>4. ASSUME NEW a \in Member
      PROVE  ReplayedReceipts(w, Len(w))[a] \in Receipt
  <2>0. NoReceipt \in Receipt
    BY DEF NoReceipt, Receipt
  <2>1. CASE Len(w) = 0
    BY <2>0, <2>1 DEF ReplayedReceipts, NoReceipts
  <2>2. CASE Len(w) # 0 /\ Telling(w, Len(w), a) = {}
    BY <1>1, <2>0, <2>2, TellingLast
  <2>3. CASE Len(w) # 0 /\ Telling(w, Len(w), a) # {}
    <3>1. PICK j \in Telling(w, Len(w), a) :
            ReplayedReceipts(w, Len(w))[a] = w[j].receipts[a]
      BY <1>1, <2>3, TellingLast
    <3>2. j \in 1 .. Len(w)
      BY <1>1, <2>3, TellingLast
    <3>3. a \in DOMAIN w[j].receipts
      BY DEF Telling
    <3> QED
      BY <1>1, <3>1, <3>2, <3>3, EntryTyped
  <2> QED
    BY <2>1, <2>2, <2>3
<1>5. ReplayedReceipts(w, Len(w)) \in [Member -> Receipt]
  <2> DEFINE R == ReplayedReceipts(w, Len(w))
  <2>1. R = [a \in Member |-> R[a]]
    BY <1>1, ReplayedDomain
  <2>2. \A a \in Member : R[a] \in Receipt
    BY <1>4
  <2> HIDE DEF R
  <2>3. R \in [Member -> Receipt]
    BY <2>1, <2>2
  <2> QED
    BY <2>3 DEF R
<1>6. StoredRecords(w) \in Seq(Nat)
  <2>1. <<>> \in Seq(Nat)
    OBVIOUS
  <2> QED
    BY <1>1, <2>1, StoredIs, EntryTyped
<1> QED
  BY <1>2, <1>3, <1>5, <1>6

LEMMA RecoveredTyped ==
  ASSUME TypeOK, NEW m \in Member
  PROVE  Recovered(m) \in Fields
<1> DEFINE R == ReplayedReceipts(wal[m], Len(wal[m]))
           C == ReplayedContent(wal[m])
           L == LastCtx(wal[m])
<1>1. R \in [Member -> Receipt] /\ C \in SUBSET Frame /\ L \in Nat
  BY ReplayedTyped, MemberTyped
<1>2. Recovered(m) = [Off EXCEPT !.mode = "open", !.doc = C, !.receipts = R, !.rctx = L]
  BY DEF Recovered, LastCtx
<1> HIDE DEF R, C, L
<1>3. [Off EXCEPT !.mode = "open", !.doc = C, !.receipts = R, !.rctx = L] \in Fields
  BY <1>1, OffTyped DEF Fields
<1> QED
  BY <1>2, <1>3

-----------------------------------------------------------------------------
(* What the actions do to the fields of a member. *)

Others(m) == \A q \in Member \ {m} : mem'[q] = mem[q]

LEMMA MemSet ==
  ASSUME TypeOK, NEW m \in Member, NEW x \in Fields, mem' = [mem EXCEPT ![m] = x]
  PROVE  mem' \in [Member -> Fields] /\ Others(m) /\ mem'[m] = x
BY DEF TypeOK, Others

(* apply() ends: the document goes away if it was closed meanwhile. *)
LEMMA SettledEffect ==
  ASSUME TypeOK, NEW m \in Member, NEW x \in Fields, Settled(m, x)
  PROVE  /\ mem' \in [Member -> Fields] /\ Others(m)
         /\ x.mode = "closing" => mem'[m] = Off
         /\ x.mode # "closing" =>
              /\ mem'[m].mode = x.mode /\ mem'[m].doc = x.doc
              /\ mem'[m].receipts = x.receipts /\ mem'[m].rctx = x.rctx
              /\ mem'[m].persisted = x.persisted /\ mem'[m].op = Idle
<1> DEFINE y == IF x.mode = "closing" THEN Off ELSE [x EXCEPT !.op = Idle]
<1>1. y \in Fields
  BY OffTyped, FieldsTyped, OperationsMade
<1>2. mem' = [mem EXCEPT ![m] = y]
  BY DEF Settled
<1> HIDE DEF y
<1>3. mem' \in [Member -> Fields] /\ Others(m) /\ mem'[m] = y
  BY <1>1, <1>2, MemSet
<1>4. x.mode = "closing" => y = Off
  BY DEF y
<1>5. x.mode # "closing" =>
              /\ y.mode = x.mode /\ y.doc = x.doc
              /\ y.receipts = x.receipts /\ y.rctx = x.rctx
              /\ y.persisted = x.persisted /\ y.op = Idle
  BY DEF y, Fields
<1> QED
  BY <1>3, <1>4, <1>5

LEMMA OffFields ==
  /\ Off.mode = "off" /\ Off.doc = {} /\ Off.receipts = NoReceipts /\ Off.rctx = 0
  /\ Off.persisted = 0 /\ Off.op = Idle /\ Idle.stage = "idle"
BY DEF Off, Idle

(* An operation takes its place in the queue. *)
LEMMA OpEffect ==
  ASSUME TypeOK, NEW m \in Member, NEW o \in Operation,
         mem' = [mem EXCEPT ![m].op = o]
  PROVE  /\ mem' \in [Member -> Fields] /\ Others(m)
         /\ mem'[m].mode = mem[m].mode /\ mem'[m].doc = mem[m].doc
         /\ mem'[m].receipts = mem[m].receipts /\ mem'[m].rctx = mem[m].rctx
         /\ mem'[m].persisted = mem[m].persisted /\ mem'[m].op = o
<1> DEFINE x == [mem[m] EXCEPT !.op = o]
<1>1. mem[m] \in Fields
  BY MemberTyped
<1>2. x \in Fields
  BY <1>1, FieldsTyped
<1>3. mem' = [mem EXCEPT ![m] = x]
  BY DEF TypeOK
<1>4. /\ x.mode = mem[m].mode /\ x.doc = mem[m].doc
      /\ x.receipts = mem[m].receipts /\ x.rctx = mem[m].rctx
      /\ x.persisted = mem[m].persisted /\ x.op = o
  BY <1>1 DEF Fields
<1> HIDE DEF x
<1> QED
  BY <1>2, <1>3, <1>4, MemSet

PreparedOp(m, f, local) ==
  [stage |-> "prepared", local |-> local, frame |-> f, ctx |-> epoch[m],
   revision |-> Len(log[m]), entry |-> ContentEntry(m, f)]

LEMMA PrepareEffect ==
  ASSUME TypeOK, NEW m \in Member, NEW f \in Frame, NEW local \in BOOLEAN,
         log[m] # <<>>, Prepare(m, f, local)
  PROVE  /\ PreparedOp(m, f, local) \in Operation
         /\ mem' \in [Member -> Fields] /\ Others(m)
         /\ mem'[m].mode = mem[m].mode /\ mem'[m].doc = mem[m].doc
         /\ mem'[m].receipts = mem[m].receipts /\ mem'[m].rctx = mem[m].rctx
         /\ mem'[m].persisted = mem[m].persisted
         /\ mem'[m].op = PreparedOp(m, f, local)
<1> DEFINE o == PreparedOp(m, f, local)
<1>1. ContentEntry(m, f) \in Entry /\ Len(log[m]) \in Nat /\ epoch[m] \in Nat
  BY ContentEntryTyped, MemberTyped
<1>2. o \in Operation
  BY <1>1, OperationsMade DEF PreparedOp
<1>3. mem' = [mem EXCEPT ![m].op = o]
  BY DEF Prepare, PreparedOp
<1> HIDE DEF o
<1>4. /\ mem' \in [Member -> Fields] /\ Others(m)
      /\ mem'[m].mode = mem[m].mode /\ mem'[m].doc = mem[m].doc
      /\ mem'[m].receipts = mem[m].receipts /\ mem'[m].rctx = mem[m].rctx
      /\ mem'[m].persisted = mem[m].persisted /\ mem'[m].op = o
  BY <1>2, <1>3, OpEffect
<1> QED
  BY <1>2, <1>4 DEF o

(* The frame that change() signs. *)
OwnFrame(m) ==
  [author |-> m, ctx |-> epoch[m], head |-> HeadOf(m),
   seq |-> ReceiptsFor(m)[m].seq + 1, parent |-> ReceiptsFor(m)[m].n,
   n |-> made[m] + 1, deps |-> Ids(mem[m].doc)]

LEMMA OwnFrameTyped ==
  ASSUME TypeOK, NEW m \in Member, log[m] # <<>>
  PROVE  OwnFrame(m) \in Frame
<1>1. ReceiptsFor(m)[m] \in Receipt /\ HeadOf(m) \in Nat
  BY ReceiptsTyped, RoleEntryTyped, EntryTyped DEF RoleEntry
<1>2. ReceiptsFor(m)[m].seq + 1 \in Nat /\ ReceiptsFor(m)[m].n \in Nat
  BY <1>1 DEF Receipt
<1>3. epoch[m] \in Nat /\ made[m] + 1 \in Nat
  BY MemberTyped
<1>4. Ids(mem[m].doc) \in SUBSET (Member \X Nat)
  BY MemberTyped, FrameTyped DEF Ids
<1> QED
  BY <1>1, <1>2, <1>3, <1>4 DEF OwnFrame, Frame

(* Both actions that prepare an operation. *)
LEMMA BeginEffect ==
  ASSUME TypeOK, NEW m \in Member,
         BeginChange(m) \/ \E f \in net : BeginReceive(m, f)
  PROVE  \E f \in Frame : \E local \in BOOLEAN :
           /\ Ready(m) /\ Captures(m) /\ log[m] # <<>>
           /\ f.ctx = epoch[m] /\ f.head = HeadOf(m) /\ f.author \in Role(m).writers
           /\ Admits(ReceiptsFor(m)[f.author], f)
           /\ f.deps \subseteq Ids(mem[m].doc)
           /\ local => f.author = m
           /\ Prepare(m, f, local)
           /\ UNCHANGED <<epoch, signed, log, wal, outbox, net, made, acked, faults>>
<1>1. CASE BeginChange(m)
  <2> DEFINE f == OwnFrame(m)
  <2>1. log[m] # <<>> /\ Captures(m) /\ Ready(m) /\ m \in Role(m).writers
    BY <1>1 DEF BeginChange, Captures
  <2>2. f \in Frame
    BY <2>1, OwnFrameTyped
  <2>3. /\ f.author = m /\ f.ctx = epoch[m] /\ f.head = HeadOf(m)
        /\ f.seq = ReceiptsFor(m)[m].seq + 1 /\ f.parent = ReceiptsFor(m)[m].n
        /\ f.deps = Ids(mem[m].doc)
    BY DEF OwnFrame
  <2>4. /\ Prepare(m, f, TRUE)
        /\ UNCHANGED <<epoch, signed, log, wal, outbox, net, made, acked, faults>>
    BY <1>1 DEF BeginChange, OwnFrame
  <2> HIDE DEF f
  <2>5. Admits(ReceiptsFor(m)[f.author], f)
    BY <2>3 DEF Admits
  <2>6. TRUE \in BOOLEAN
    OBVIOUS
  <2> QED
    BY <2>1, <2>2, <2>3, <2>4, <2>5, <2>6
<1>2. CASE \E f \in net : BeginReceive(m, f)
  <2>1. PICK f \in net : BeginReceive(m, f)
    BY <1>2
  <2>2. f \in Frame /\ FALSE \in BOOLEAN
    BY DEF TypeOK
  <2>3. log[m] # <<>>
    BY <2>1 DEF BeginReceive, Captures
  <2> QED
    BY <2>1, <2>2, <2>3 DEF BeginReceive, Complete
<1> QED
  BY <1>1, <1>2

(* The operation's change becomes visible and goes to the journal. *)
LEMMA FinalizeEffect ==
  ASSUME TypeOK, NEW m \in Member, Finalize(m)
  PROVE  LET op == mem[m].op
             new == mem'[m].op IN
         /\ op.stage = "prepared" /\ mem[m].mode = "open"
         /\ op.frame \in Frame /\ op.entry \in Entry /\ op.local \in BOOLEAN
         /\ op.ctx = epoch[m] /\ op.revision = Len(log[m])
         /\ mem' \in [Member -> Fields] /\ Others(m)
         /\ mem'[m].mode = "open" /\ mem'[m].doc = mem[m].doc \cup {op.frame}
         /\ mem'[m].receipts = Accept(ReceiptsFor(m), op.frame)
         /\ mem'[m].rctx = epoch[m] /\ mem'[m].persisted = mem[m].persisted
         /\ new.stage = "committing" /\ new.local = op.local /\ new.frame = op.frame
         /\ new.entry = op.entry /\ new.revision = op.revision
         /\ made' \in [Member -> Nat]
         /\ UNCHANGED <<epoch, signed, log, wal, outbox, net, acked, faults>>
<1> DEFINE op == mem[m].op
           new == [op EXCEPT !.stage = "committing"]
           x == [mem[m] EXCEPT !.doc = @ \cup {op.frame},
                               !.receipts = Accept(ReceiptsFor(m), op.frame),
                               !.rctx = op.ctx, !.op = new]
<1>1. /\ op.stage = "prepared" /\ StillAuthorized(m)
      /\ UNCHANGED <<epoch, signed, log, wal, outbox, net, acked, faults>>
      /\ made' = IF op.local THEN [made EXCEPT ![m] = @ + 1] ELSE made
      /\ mem' = [mem EXCEPT ![m].doc = @ \cup {op.frame},
                             ![m].receipts = Accept(ReceiptsFor(m), op.frame),
                             ![m].rctx = op.ctx,
                             ![m].op.stage = "committing"]
  BY DEF Finalize
<1>2. mem[m] \in Fields /\ op \in Operation
  BY MemberTyped
<1>3. /\ op.frame \in Frame /\ op.ctx \in Nat /\ op.entry \in Entry
      /\ op.local \in BOOLEAN /\ new \in Operation
  BY <1>1, <1>2, OperationTyped
<1>4. op.ctx = epoch[m] /\ op.revision = Len(log[m]) /\ mem[m].mode = "open"
  BY <1>1 DEF StillAuthorized
<1>5. mem' = [mem EXCEPT ![m] = x]
  BY <1>1, <1>2 DEF TypeOK, Fields
<1>6. Accept(ReceiptsFor(m), op.frame) \in [Member -> Receipt]
  BY <1>3, ReceiptsTyped
<1>7. x \in Fields
  BY <1>2, <1>3, <1>6 DEF Fields
<1>8. /\ x.mode = mem[m].mode /\ x.doc = mem[m].doc \cup {op.frame}
      /\ x.receipts = Accept(ReceiptsFor(m), op.frame)
      /\ x.rctx = op.ctx /\ x.persisted = mem[m].persisted /\ x.op = new
  BY <1>2 DEF Fields
<1>9. /\ new.stage = "committing" /\ new.local = op.local /\ new.frame = op.frame
      /\ new.entry = op.entry /\ new.revision = op.revision
  BY <1>1, <1>2, OperationTyped
<1>10. made' \in [Member -> Nat]
  BY <1>1 DEF TypeOK
<1> HIDE DEF x
<1>11. mem' \in [Member -> Fields] /\ Others(m) /\ mem'[m] = x
  BY <1>5, <1>7, MemSet
<1> HIDE DEF new
<1> QED
  BY <1>1, <1>3, <1>4, <1>8, <1>9, <1>10, <1>11

LEMMA CancelEffect ==
  ASSUME TypeOK, NEW m \in Member, Cancel(m)
  PROVE  /\ mem' \in [Member -> Fields] /\ Others(m)
         /\ \/ mem'[m] = Off
            \/ /\ mem'[m].mode \in {mem[m].mode, "failed"} /\ mem'[m].mode # "closing"
               /\ mem'[m].doc = mem[m].doc
               /\ mem'[m].receipts = mem[m].receipts /\ mem'[m].rctx = mem[m].rctx
               /\ mem'[m].persisted = mem[m].persisted /\ mem'[m].op = Idle
         /\ faults' \in Nat /\ mem[m].op.stage = "prepared"
         /\ UNCHANGED <<epoch, signed, log, wal, outbox, net, made, acked>>
<1> DEFINE x == [mem[m] EXCEPT !.mode = "failed"]
<1>1. mem[m] \in Fields /\ x \in Fields
  BY MemberTyped, FieldsTyped
<1>2. /\ x.mode = "failed" /\ x.doc = mem[m].doc /\ x.receipts = mem[m].receipts
      /\ x.rctx = mem[m].rctx /\ x.persisted = mem[m].persisted
  BY <1>1 DEF Fields
<1>3. /\ UNCHANGED <<epoch, signed, log, wal, outbox, net, made, acked>>
      /\ mem[m].op.stage = "prepared" /\ faults' \in Nat
  BY DEF Cancel, Fault, TypeOK
<1>4. Settled(m, mem[m]) \/ Settled(m, x)
  BY DEF Cancel
<1> HIDE DEF x
<1>5. CASE Settled(m, mem[m])
  BY <1>1, <1>3, <1>5, SettledEffect
<1>6. CASE Settled(m, x)
  BY <1>1, <1>2, <1>3, <1>6, SettledEffect
<1> QED
  BY <1>4, <1>5, <1>6

(* The journal has the operation's entry, or has not; a document that works *)
(* on has it.                                                               *)
LEMMA JournalEffect ==
  ASSUME TypeOK, NEW m \in Member, JournalCommit(m)
  PROVE  LET op == mem[m].op IN
         /\ op.stage = "committing" /\ op.entry \in Entry
         /\ mem' \in [Member -> Fields] /\ Others(m)
         /\ \/ mem'[m].mode \in {"off", "failed"}
               /\ mem'[m].doc \in {{}, mem[m].doc}
            \/ /\ mem[m].mode # "closing"
               /\ mem'[m].mode = mem[m].mode /\ mem'[m].doc = mem[m].doc
               /\ mem'[m].receipts = mem[m].receipts /\ mem'[m].rctx = mem[m].rctx
               /\ mem'[m].persisted = op.revision
               /\ Store(m)
         /\ mem'[m].op = Idle
         /\ \/ Store(m) /\ (acked' = acked \/ acked' = [acked EXCEPT ![m] = @ \cup op.entry.content])
            \/ UNCHANGED <<wal, outbox, acked>>
         /\ faults' \in Nat
         /\ UNCHANGED <<epoch, signed, log, net, made>>
<1> DEFINE x == [mem[m] EXCEPT !.mode = "failed"]
           y == [mem[m] EXCEPT !.persisted = mem[m].op.revision]
<1>1. mem[m] \in Fields /\ mem[m].op \in Operation /\ mem[m].op.stage = "committing"
  BY MemberTyped DEF JournalCommit
<1>2. mem[m].op.entry \in Entry /\ mem[m].op.revision \in Nat
  BY <1>1, OperationTyped
<1>3. x \in Fields /\ y \in Fields
  BY <1>1, <1>2 DEF Fields
<1>4. /\ x.mode = "failed" /\ x.doc = mem[m].doc
      /\ y.mode = mem[m].mode /\ y.doc = mem[m].doc /\ y.receipts = mem[m].receipts
      /\ y.rctx = mem[m].rctx /\ y.persisted = mem[m].op.revision
  BY <1>1 DEF Fields
<1>5. /\ \/ /\ Store(m) /\ Settled(m, y) /\ UNCHANGED faults
            /\ acked' = [acked EXCEPT ![m] = @ \cup mem[m].op.entry.content]
         \/ Store(m) /\ Settled(m, x) /\ Fault /\ UNCHANGED acked
         \/ Settled(m, x) /\ Fault /\ UNCHANGED <<wal, outbox, acked>>
      /\ UNCHANGED <<epoch, signed, log, net, made>>
  BY DEF JournalCommit
<1>6. faults \in Nat
  BY DEF TypeOK
<1> HIDE DEF x, y
<1>7. CASE /\ Store(m) /\ Settled(m, y) /\ UNCHANGED faults
           /\ acked' = [acked EXCEPT ![m] = @ \cup mem[m].op.entry.content]
  <2>1. CASE y.mode = "closing"
    <3>1. mem' \in [Member -> Fields] /\ Others(m) /\ mem'[m] = Off
      BY <1>3, <1>7, <2>1, SettledEffect
    <3> QED
      BY <1>1, <1>2, <1>5, <1>6, <1>7, <3>1, OffFields
  <2>2. CASE y.mode # "closing"
    <3>1. /\ mem' \in [Member -> Fields] /\ Others(m)
          /\ mem'[m].mode = y.mode /\ mem'[m].doc = y.doc
          /\ mem'[m].receipts = y.receipts /\ mem'[m].rctx = y.rctx
          /\ mem'[m].persisted = y.persisted /\ mem'[m].op = Idle
      BY <1>3, <1>7, <2>2, SettledEffect
    <3>2. /\ mem[m].mode # "closing" /\ mem'[m].mode = mem[m].mode
          /\ mem'[m].doc = mem[m].doc /\ mem'[m].receipts = mem[m].receipts
          /\ mem'[m].rctx = mem[m].rctx /\ mem'[m].persisted = mem[m].op.revision
      BY <1>4, <2>2, <3>1
    <3>3. faults' \in Nat
      BY <1>6, <1>7
    <3> QED
      BY <1>1, <1>2, <1>5, <1>7, <3>1, <3>2, <3>3
  <2> QED
    BY <2>1, <2>2
<1>8. CASE Settled(m, x) /\ Fault /\ ((Store(m) /\ UNCHANGED acked) \/ UNCHANGED <<wal, outbox, acked>>)
  <2>1. /\ mem' \in [Member -> Fields] /\ Others(m)
        /\ mem'[m].mode = "failed" /\ mem'[m].doc = mem[m].doc /\ mem'[m].op = Idle
    BY <1>3, <1>4, <1>8, SettledEffect
  <2>2. faults' \in Nat
    BY <1>6, <1>8 DEF Fault
  <2> QED
    BY <1>1, <1>2, <1>5, <1>8, <2>1, <2>2
<1> QED
  BY <1>5, <1>7, <1>8

LEMMA RoleCheckpointEffect ==
  ASSUME TypeOK, NEW m \in Member, RoleCheckpoint(m)
  PROVE  /\ mem[m].op.stage = "role"
         /\ mem' \in [Member -> Fields] /\ Others(m)
         /\ \/ /\ Captures(m) /\ log[m] # <<>> /\ RoleEntry(m) \in Entry
               /\ mem'[m].mode = mem[m].mode /\ mem'[m].doc = mem[m].doc
               /\ mem'[m].receipts = NoReceipts /\ mem'[m].rctx = epoch[m]
               /\ mem'[m].persisted = mem[m].persisted
               /\ mem'[m].op.stage = "committing" /\ mem'[m].op.local = FALSE
               /\ mem'[m].op.revision = Len(log[m]) /\ mem'[m].op.entry = RoleEntry(m)
            \/ /\ mem'[m].mode = "failed" /\ mem'[m].doc = mem[m].doc
               /\ mem'[m].op = Idle
         /\ faults' \in Nat
         /\ UNCHANGED <<epoch, signed, log, wal, outbox, net, made, acked>>
<1> DEFINE x == [mem[m] EXCEPT !.mode = "failed"]
           o == [stage |-> "committing", local |-> FALSE,
                 revision |-> Len(log[m]), entry |-> RoleEntry(m)]
           y == [mem[m] EXCEPT !.receipts = NoReceipts, !.rctx = epoch[m], !.op = o]
<1>1. mem[m] \in Fields /\ x \in Fields
  BY MemberTyped, FieldsTyped
<1>2. x.mode = "failed" /\ x.doc = mem[m].doc
  BY <1>1 DEF Fields
<1>3. /\ mem[m].op.stage = "role" /\ faults' \in Nat
      /\ UNCHANGED <<epoch, signed, log, wal, outbox, net, made, acked>>
  BY DEF RoleCheckpoint, Fault, TypeOK
<1>4. \/ /\ Captures(m)
         /\ mem' = [mem EXCEPT ![m].receipts = NoReceipts, ![m].rctx = epoch[m], ![m].op = o]
      \/ Settled(m, x)
  BY DEF RoleCheckpoint
<1>5. CASE /\ Captures(m)
           /\ mem' = [mem EXCEPT ![m].receipts = NoReceipts, ![m].rctx = epoch[m], ![m].op = o]
  <2>1. log[m] # <<>>
    BY <1>5 DEF Captures
  <2>2. RoleEntry(m) \in Entry /\ Len(log[m]) \in Nat /\ epoch[m] \in Nat
    BY <2>1, RoleEntryTyped, MemberTyped
  <2>3. o \in Operation
    BY <2>2, OperationsMade
  <2>4. /\ o.stage = "committing" /\ o.local = FALSE
        /\ o.revision = Len(log[m]) /\ o.entry = RoleEntry(m)
    OBVIOUS
  <2> HIDE DEF o
  <2>5. mem' = [mem EXCEPT ![m] = y]
    BY <1>1, <1>5 DEF TypeOK, Fields
  <2>6. NoReceipts \in [Member -> Receipt]
    BY ReceiptsTyped
  <2>7. y \in Fields
    BY <1>1, <2>2, <2>3, <2>6 DEF Fields
  <2>8. /\ y.mode = mem[m].mode /\ y.doc = mem[m].doc /\ y.receipts = NoReceipts
        /\ y.rctx = epoch[m] /\ y.persisted = mem[m].persisted /\ y.op = o
    BY <1>1 DEF Fields
  <2> HIDE DEF x, y
  <2>9. mem' \in [Member -> Fields] /\ Others(m) /\ mem'[m] = y
    BY <2>5, <2>7, MemSet
  <2> QED
    BY <1>3, <1>5, <2>1, <2>2, <2>4, <2>8, <2>9
<1>6. CASE Settled(m, x)
  <2> HIDE DEF x
  <2>1. x.mode # "closing"
    BY <1>2
  <2>2. /\ mem' \in [Member -> Fields] /\ Others(m)
        /\ mem'[m].mode = x.mode /\ mem'[m].doc = x.doc /\ mem'[m].op = Idle
    BY <1>1, <1>6, <2>1, SettledEffect
  <2> QED
    BY <1>2, <1>3, <2>2
<1> QED
  BY <1>4, <1>5, <1>6

LEMMA InstallEffect ==
  ASSUME TypeOK, NEW m \in Member, NEW i \in DOMAIN signed, Install(m, i)
  PROVE  /\ log[m] # <<>> /\ signed[i].parent = HeadOf(m)
         /\ signed[i].ctx > Role(m).ctx /\ signed[i].ctx = epoch[m]
         /\ log' = [log EXCEPT ![m] = Append(log[m], i)]
         /\ log'[m] = Append(log[m], i) /\ \A q \in Member \ {m} : log'[q] = log[q]
         /\ log' \in [Member -> Seq(Nat)]
<1>1. /\ log[m] # <<>> /\ signed[i].parent = HeadOf(m)
      /\ signed[i].ctx > Role(m).ctx /\ signed[i].ctx = epoch[m]
      /\ log' = [log EXCEPT ![m] = Append(log[m], i)]
  BY DEF Install, ValidNext
<1>2. log \in [Member -> Seq(Nat)] /\ i \in Nat
  BY SignedTyped DEF TypeOK
<1>3. Append(log[m], i) \in Seq(Nat)
  BY <1>2
<1> QED
  BY <1>1, <1>2, <1>3

LEMMA BeginRoleEffect ==
  ASSUME TypeOK, NEW m \in Member, NEW i \in DOMAIN signed, BeginRole(m, i)
  PROVE  /\ Ready(m) /\ Install(m, i)
         /\ mem' \in [Member -> Fields] /\ Others(m)
         /\ mem'[m].mode = mem[m].mode /\ mem'[m].doc = mem[m].doc
         /\ mem'[m].receipts = mem[m].receipts /\ mem'[m].rctx = mem[m].rctx
         /\ mem'[m].persisted = mem[m].persisted /\ mem'[m].op = [stage |-> "role"]
         /\ UNCHANGED <<epoch, signed, wal, outbox, net, made, acked, faults>>
<1> DEFINE o == [stage |-> "role"]
<1>1. o \in Operation
  BY OperationsMade
<1>2. /\ Ready(m) /\ Install(m, i) /\ mem' = [mem EXCEPT ![m].op = o]
      /\ UNCHANGED <<epoch, signed, wal, outbox, net, made, acked, faults>>
  BY DEF BeginRole
<1> HIDE DEF o
<1>3. /\ mem' \in [Member -> Fields] /\ Others(m)
      /\ mem'[m].mode = mem[m].mode /\ mem'[m].doc = mem[m].doc
      /\ mem'[m].receipts = mem[m].receipts /\ mem'[m].rctx = mem[m].rctx
      /\ mem'[m].persisted = mem[m].persisted /\ mem'[m].op = o
  BY <1>1, <1>2, OpEffect
<1> QED
  BY <1>2, <1>3 DEF o

LEMMA CloseEffect ==
  ASSUME TypeOK, NEW m \in Member, Close(m)
  PROVE  /\ mem[m].mode \in {"open", "failed"}
         /\ mem' \in [Member -> Fields] /\ Others(m)
         /\ \/ mem'[m] = Off
            \/ /\ mem[m].op # Idle /\ mem'[m].mode = "closing"
               /\ mem'[m].doc = mem[m].doc
               /\ mem'[m].receipts = mem[m].receipts /\ mem'[m].rctx = mem[m].rctx
               /\ mem'[m].persisted = mem[m].persisted /\ mem'[m].op = mem[m].op
         /\ UNCHANGED <<epoch, signed, log, wal, outbox, net, made, acked, faults>>
<1> DEFINE x == [mem[m] EXCEPT !.mode = "closing"]
<1>1. mem[m] \in Fields /\ x \in Fields
  BY MemberTyped, FieldsTyped
<1>2. /\ x.mode = "closing" /\ x.doc = mem[m].doc /\ x.receipts = mem[m].receipts
      /\ x.rctx = mem[m].rctx /\ x.persisted = mem[m].persisted /\ x.op = mem[m].op
  BY <1>1 DEF Fields
<1>3. /\ mem[m].mode \in {"open", "failed"}
      /\ UNCHANGED <<epoch, signed, log, wal, outbox, net, made, acked, faults>>
      /\ mem' = [mem EXCEPT ![m] = IF mem[m].op = Idle THEN Off ELSE x]
  BY DEF Close
<1> HIDE DEF x
<1>4. CASE mem[m].op = Idle
  BY <1>3, <1>4, OffTyped, MemSet
<1>5. CASE mem[m].op # Idle
  BY <1>1, <1>2, <1>3, <1>5, MemSet
<1> QED
  BY <1>4, <1>5

LEMMA CrashEffect ==
  ASSUME TypeOK, NEW m \in Member, Crash(m)
  PROVE  /\ log[m] # <<>>
         /\ mem' \in [Member -> Fields] /\ Others(m) /\ mem'[m] = Off
         /\ log' \in [Member -> Seq(Nat)] /\ log'[m] = <<>>
         /\ \A q \in Member \ {m} : log'[q] = log[q]
         /\ faults' \in Nat
         /\ UNCHANGED <<epoch, signed, wal, outbox, net, made, acked>>
<1>1. /\ mem' = [mem EXCEPT ![m] = Off] /\ log' = [log EXCEPT ![m] = <<>>]
      /\ log[m] # <<>> /\ faults' \in Nat
      /\ UNCHANGED <<epoch, signed, wal, outbox, net, made, acked>>
  BY DEF Crash, Fault, TypeOK
<1>2. log \in [Member -> Seq(Nat)] /\ <<>> \in Seq(Nat)
  BY DEF TypeOK
<1>3. mem' \in [Member -> Fields] /\ Others(m) /\ mem'[m] = Off
  BY <1>1, OffTyped, MemSet
<1> QED
  BY <1>1, <1>2, <1>3

LEMMA ProvisionEffect ==
  ASSUME TypeOK, NEW m \in Member, Provision(m)
  PROVE  /\ log[m] = <<>>
         /\ log' \in [Member -> Seq(Nat)]
         /\ \/ log'[m] = StoredRecords(wal[m])
            \/ log'[m] = <<1>>
            \/ \E q \in Member : log'[m] = log[q]
         /\ log'[m] # <<>>
         /\ \A q \in Member \ {m} : log'[q] = log[q]
         /\ UNCHANGED <<epoch, signed, mem, wal, outbox, net, made, acked, faults>>
<1>0. log \in [Member -> Seq(Nat)]
  BY DEF TypeOK
<1>1. /\ log[m] = <<>>
      /\ UNCHANGED <<epoch, signed, mem, wal, outbox, net, made, acked, faults>>
      /\ \E r \in ({StoredRecords(wal[m]), <<1>>} \cup Range(log)) \ {<<>>} :
           log' = [log EXCEPT ![m] = r]
  BY DEF Provision
<1>2. PICK r \in ({StoredRecords(wal[m]), <<1>>} \cup Range(log)) \ {<<>>} :
        log' = [log EXCEPT ![m] = r]
  BY <1>1
<1>3. r # <<>> /\ (r = StoredRecords(wal[m]) \/ r = <<1>> \/ r \in Range(log))
  BY <1>2
<1>4. r \in Range(log) => \E q \in Member : r = log[q]
  BY <1>0 DEF Range
<1>5. r \in Seq(Nat)
  <2>1. StoredRecords(wal[m]) \in Seq(Nat)
    BY MemberTyped, ReplayedTyped
  <2>2. <<1>> \in Seq(Nat)
    OBVIOUS
  <2> QED
    BY <1>0, <1>3, <1>4, <2>1, <2>2
<1>6. log'[m] = r /\ log' \in [Member -> Seq(Nat)] /\ \A q \in Member \ {m} : log'[q] = log[q]
  BY <1>0, <1>2, <1>5
<1> QED
  BY <1>1, <1>3, <1>4, <1>6

LEMMA OpenEffect ==
  ASSUME TypeOK, NEW m \in Member, Open(m)
  PROVE  /\ mem[m].mode = "off" /\ log[m] # <<>>
         /\ mem' \in [Member -> Fields] /\ Others(m)
         /\ \/ /\ ExtendsHeads(m) /\ mem'[m].mode = "open"
               /\ mem'[m].doc = ReplayedContent(wal[m])
               /\ mem'[m].receipts = ReplayedReceipts(wal[m], Len(wal[m]))
               /\ mem'[m].rctx = LastCtx(wal[m]) /\ mem'[m].persisted = 0
            \/ mem'[m].mode = "failed" /\ mem'[m].doc = {}
         /\ mem'[m].op = Idle
         /\ UNCHANGED <<epoch, signed, log, wal, outbox, net, made, acked, faults>>
<1> DEFINE x == [Off EXCEPT !.mode = "failed"]
           r == Recovered(m)
<1>1. x \in Fields /\ r \in Fields
  BY OffTyped, RecoveredTyped DEF Fields
<1>2. x.mode = "failed" /\ x.doc = {} /\ x.op = Idle
  BY DEF Off
<1>3. /\ r.mode = "open" /\ r.doc = ReplayedContent(wal[m])
      /\ r.receipts = ReplayedReceipts(wal[m], Len(wal[m]))
      /\ r.rctx = LastCtx(wal[m]) /\ r.persisted = 0 /\ r.op = Idle
  BY DEF Recovered, Off, LastCtx
<1>4. /\ mem[m].mode = "off" /\ log[m] # <<>>
      /\ UNCHANGED <<epoch, signed, log, wal, outbox, net, made, acked, faults>>
      /\ \/ ExtendsHeads(m) /\ mem' = [mem EXCEPT ![m] = r]
         \/ mem' = [mem EXCEPT ![m] = x]
  BY DEF Open
<1> HIDE DEF x, r
<1>5. CASE ExtendsHeads(m) /\ mem' = [mem EXCEPT ![m] = r]
  <2>1. mem' \in [Member -> Fields] /\ Others(m) /\ mem'[m] = r
    BY <1>1, <1>5, MemSet
  <2> QED
    BY <1>3, <1>4, <1>5, <2>1
<1>6. CASE mem' = [mem EXCEPT ![m] = x]
  <2>1. mem' \in [Member -> Fields] /\ Others(m) /\ mem'[m] = x
    BY <1>1, <1>6, MemSet
  <2> QED
    BY <1>2, <1>4, <2>1
<1> QED
  BY <1>4, <1>5, <1>6

(* Signing only adds a record. *)
Grows == /\ DOMAIN signed \subseteq DOMAIN signed'
         /\ \A k \in DOMAIN signed : signed'[k] = signed[k]

LEMMA SignEffect ==
  ASSUME TypeOK, NEW w \in SUBSET Member, Controller \in Member, Sign(w)
  PROVE  /\ signed' \in Seq(RoleRecord) /\ Grows /\ signed' # <<>>
         /\ UNCHANGED <<epoch, log, mem, wal, outbox, net, made, acked, faults>>
<1> DEFINE r == [parent |-> HeadOf(Controller), ctx |-> epoch[Controller], writers |-> w]
<1>1. /\ signed' = Append(signed, r) /\ log[Controller] # <<>>
      /\ UNCHANGED <<epoch, log, mem, wal, outbox, net, made, acked, faults>>
  BY DEF Sign
<1>2. HeadOf(Controller) \in Nat /\ epoch[Controller] \in Nat
  BY <1>1, RoleEntryTyped, EntryTyped, MemberTyped DEF RoleEntry
<1>3. r \in RoleRecord
  BY <1>2 DEF RoleRecord
<1> HIDE DEF r
<1>4. signed \in Seq(RoleRecord)
  BY DEF TypeOK
<1>5. signed' \in Seq(RoleRecord) /\ signed' # <<>>
  BY <1>1, <1>3, <1>4
<1>6. Grows
  BY <1>1, <1>3, <1>4 DEF Grows
<1> QED
  BY <1>1, <1>5, <1>6

LEMMA PublishEffect ==
  ASSUME TypeOK, NEW m \in Member, Publish(m)
  PROVE  /\ Ready(m)
         /\ \E f \in Range(outbox[m]) : net' = net \cup {f} /\ f \in Frame
         /\ outbox' \in [Member -> Seq(Frame)]
         /\ \A q \in Member : Range(outbox'[q]) \subseteq Range(outbox[q])
         /\ faults' \in Nat
         /\ UNCHANGED <<epoch, signed, log, mem, wal, made, acked>>
<1>1. /\ Ready(m) /\ outbox[m] # <<>> /\ net' = net \cup {Head(outbox[m])}
      /\ outbox' = [outbox EXCEPT ![m] = Tail(outbox[m])] \/ outbox' = outbox
      /\ faults' \in Nat
      /\ UNCHANGED <<epoch, signed, log, mem, wal, made, acked>>
  BY DEF Publish, Fault, TypeOK
<1>2. outbox \in [Member -> Seq(Frame)] /\ outbox[m] \in Seq(Frame)
  BY DEF TypeOK
<1>3. Head(outbox[m]) = outbox[m][1] /\ 1 \in DOMAIN outbox[m]
  BY <1>1, <1>2
<1>4. Head(outbox[m]) \in Range(outbox[m]) /\ Head(outbox[m]) \in Frame
  BY <1>2, <1>3 DEF Range
<1>5. Tail(outbox[m]) \in Seq(Frame)
  BY <1>1, <1>2
<1>6. Range(Tail(outbox[m])) \subseteq Range(outbox[m])
  <2> DEFINE s == outbox[m]
             t == Tail(s)
  <2>1. s \in Seq(Frame) /\ s # <<>>
    BY <1>1, <1>2
  <2> HIDE DEF s
  <2>2. \A k \in DOMAIN t : t[k] = s[k + 1] /\ k + 1 \in DOMAIN s
    BY <2>1
  <2> HIDE DEF t
  <2>3. Range(t) \subseteq Range(s)
    BY <2>2 DEF Range
  <2> QED
    BY <2>3 DEF t, s
<1>7. /\ outbox' \in [Member -> Seq(Frame)]
      /\ \A q \in Member : Range(outbox'[q]) \subseteq Range(outbox[q])
  <2>1. CASE outbox' = [outbox EXCEPT ![m] = Tail(outbox[m])]
    <3>1. \A q \in Member : outbox'[q] = IF q = m THEN Tail(outbox[m]) ELSE outbox[q]
      BY <1>2, <2>1
    <3>2. \A q \in Member : Range(outbox'[q]) \subseteq Range(outbox[q])
      BY <1>6, <3>1
    <3> QED
      BY <1>2, <1>5, <2>1, <3>2
  <2>2. CASE outbox' = outbox
    BY <1>2, <2>2
  <2> QED
    BY <1>1, <2>1, <2>2
<1> QED
  BY <1>1, <1>4, <1>7

LEMMA StoreEffect ==
  ASSUME TypeOK, NEW m \in Member, mem[m].op.stage = "committing", Store(m)
  PROVE  LET op == mem[m].op IN
         /\ op.entry \in Entry
         /\ wal' \in [Member -> Seq(Entry)] /\ wal'[m] = Accepted(wal[m], op.entry)
         /\ \A q \in Member \ {m} : wal'[q] = wal[q] /\ outbox'[q] = outbox[q]
         /\ outbox' \in [Member -> Seq(Frame)]
         /\ \A f \in Range(outbox'[m]) : f \in Range(outbox[m]) \/ (op.local /\ f = op.frame)
<1> DEFINE op == mem[m].op
<1>1. op.entry \in Entry /\ (op.local => op.frame \in Frame)
  BY MemberTyped, OperationTyped
<1>2. /\ wal' = [wal EXCEPT ![m] = Accepted(wal[m], op.entry)]
      /\ outbox' = IF op.local THEN [outbox EXCEPT ![m] = Append(outbox[m], op.frame)]
                   ELSE outbox
  BY DEF Store
<1> HIDE DEF op
<1>3. wal \in [Member -> Seq(Entry)] /\ outbox \in [Member -> Seq(Frame)]
  BY DEF TypeOK
<1>4. Accepted(wal[m], op.entry) \in Seq(Entry)
  BY <1>1, <1>3, AcceptedEntries
<1>5. /\ wal' \in [Member -> Seq(Entry)] /\ wal'[m] = Accepted(wal[m], op.entry)
      /\ \A q \in Member \ {m} : wal'[q] = wal[q]
  BY <1>2, <1>3, <1>4
<1>6. CASE op.local
  <2> DEFINE s == outbox[m]
             t == Append(s, op.frame)
  <2>1. s \in Seq(Frame) /\ op.frame \in Frame
    BY <1>1, <1>3, <1>6
  <2> HIDE DEF s
  <2>2. t \in Seq(Frame) /\ \A k \in DOMAIN t : t[k] = op.frame \/ (k \in DOMAIN s /\ t[k] = s[k])
    BY <2>1
  <2> HIDE DEF t
  <2>3. \A f \in Range(t) : f \in Range(s) \/ f = op.frame
    BY <2>2 DEF Range
  <2>4. /\ outbox' \in [Member -> Seq(Frame)] /\ outbox'[m] = t
        /\ \A q \in Member \ {m} : outbox'[q] = outbox[q]
    BY <1>2, <1>3, <1>6, <2>2 DEF t, s
  <2>5. \A f \in Range(outbox'[m]) : f \in Range(outbox[m]) \/ f = op.frame
    BY <2>3, <2>4 DEF s
  <2> QED
    BY <1>1, <1>5, <1>6, <2>4, <2>5 DEF op
<1>7. CASE ~op.local
  <2>1. outbox' = outbox
    BY <1>2, <1>7
  <2>2. /\ outbox' \in [Member -> Seq(Frame)]
        /\ \A q \in Member : outbox'[q] = outbox[q]
    BY <1>3, <2>1
  <2> QED
    BY <1>1, <1>5, <2>2 DEF op
<1> QED
  BY <1>6, <1>7

-----------------------------------------------------------------------------
(* Type correctness *)

LEMMA TypeInit ==
  ASSUME ConstantsAssumption, Init
  PROVE  TypeOK
<1>1. Rosters \subseteq SUBSET Member
  BY DEF ConstantsAssumption
<1>2. signed \in Seq(RoleRecord)
  <2>1. PICK w \in Rosters : signed = <<[parent |-> 0, ctx |-> 1, writers |-> w]>>
    BY DEF Init
  <2>2. [parent |-> 0, ctx |-> 1, writers |-> w] \in RoleRecord
    BY <1>1 DEF RoleRecord
  <2> QED
    BY <2>1, <2>2
<1>3. [Off EXCEPT !.mode = "open"] \in Fields
  BY OffTyped, FieldsTyped
<1>4. <<1>> \in Seq(Nat) /\ <<>> \in Seq(Entry) /\ <<>> \in Seq(Frame)
  OBVIOUS
<1> QED
  BY <1>2, <1>3, <1>4 DEF Init, TypeOK

LEMMA TypeStep ==
  ASSUME ConstantsAssumption, TypeOK, [Next]_vars
  PROVE  TypeOK'
<1> USE DEF TypeOK
<1>1. CASE \E w \in Rosters : Sign(w)
  <2>1. PICK w \in Rosters : Sign(w)
    BY <1>1
  <2>2. w \in SUBSET Member /\ Controller \in Member
    BY DEF ConstantsAssumption
  <2> QED
    BY <2>1, <2>2, SignEffect
<1>2. ASSUME NEW m \in Member, BeginChange(m) \/ \E f \in net : BeginReceive(m, f)
      PROVE  TypeOK'
  <2>1. PICK f \in Frame : \E local \in BOOLEAN :
          /\ log[m] # <<>> /\ Prepare(m, f, local)
          /\ UNCHANGED <<epoch, signed, log, wal, outbox, net, made, acked, faults>>
    BY <1>2, BeginEffect
  <2>2. PICK local \in BOOLEAN :
          /\ log[m] # <<>> /\ Prepare(m, f, local)
          /\ UNCHANGED <<epoch, signed, log, wal, outbox, net, made, acked, faults>>
    BY <2>1
  <2>3. mem' \in [Member -> Fields]
    <3> HIDE DEF TypeOK
    <3>1. log[m] # <<>> /\ Prepare(m, f, local)
      BY <2>2
    <3> QED
      BY <3>1, PrepareEffect
  <2> QED
    BY <2>2, <2>3
<1>3. ASSUME NEW m \in Member, Finalize(m) PROVE TypeOK'
  BY <1>3, FinalizeEffect
<1>4. ASSUME NEW m \in Member, Cancel(m) PROVE TypeOK'
  BY <1>4, CancelEffect
<1>5. ASSUME NEW m \in Member, JournalCommit(m) PROVE TypeOK'
  <2> DEFINE op == mem[m].op
  <2>1. /\ op.stage = "committing" /\ op.entry \in Entry /\ mem' \in [Member -> Fields]
        /\ \/ Store(m) /\ (acked' = acked \/ acked' = [acked EXCEPT ![m] = @ \cup op.entry.content])
           \/ UNCHANGED <<wal, outbox, acked>>
        /\ faults' \in Nat /\ UNCHANGED <<epoch, signed, log, net, made>>
    BY <1>5, JournalEffect
  <2>2. op.entry.content \in SUBSET Frame
    BY <2>1, EntryTyped
  <2>3. wal' \in [Member -> Seq(Entry)] /\ outbox' \in [Member -> Seq(Frame)]
    <3>1. CASE Store(m)
      BY <2>1, <3>1, StoreEffect
    <3>2. CASE UNCHANGED <<wal, outbox, acked>>
      BY <3>2
    <3> QED
      BY <2>1, <3>1, <3>2
  <2> HIDE DEF op
  <2>4. acked' \in [Member -> SUBSET Frame]
    <3>1. acked' = acked \/ acked' = [acked EXCEPT ![m] = acked[m] \cup op.entry.content]
      BY <2>1
    <3>2. acked[m] \cup op.entry.content \in SUBSET Frame
      BY <2>2
    <3> QED
      BY <3>1, <3>2
  <2> QED
    BY <2>1, <2>3, <2>4
<1>6. ASSUME NEW m \in Member, NEW i \in DOMAIN signed, ApplyUpdate(m, i) PROVE TypeOK'
  BY <1>6, InstallEffect DEF ApplyUpdate
<1>7. ASSUME NEW m \in Member, NEW i \in DOMAIN signed, BeginRole(m, i) PROVE TypeOK'
  BY <1>7, BeginRoleEffect, InstallEffect
<1>8. ASSUME NEW m \in Member, RoleCheckpoint(m) PROVE TypeOK'
  BY <1>8, RoleCheckpointEffect
<1>9. ASSUME NEW m \in Member, AdvanceEpoch(m) PROVE TypeOK'
  <2>1. /\ epoch' = [epoch EXCEPT ![m] = @ + 1]
        /\ UNCHANGED <<signed, log, mem, wal, outbox, net, made, acked, faults>>
    BY <1>9 DEF AdvanceEpoch
  <2>2. epoch' \in [Member -> Nat \ {0}]
    <3>0. epoch[m] \in Nat
      OBVIOUS
    <3>1. epoch[m] + 1 \in Nat \ {0}
      BY <3>0
    <3> QED
      BY <2>1, <3>1
  <2> QED
    BY <2>1, <2>2
<1>10. ASSUME NEW m \in Member, Publish(m) PROVE TypeOK'
  BY <1>10, PublishEffect
<1>11. ASSUME NEW m \in Member, Crash(m) PROVE TypeOK'
  BY <1>11, CrashEffect
<1>12. ASSUME NEW m \in Member, Close(m) PROVE TypeOK'
  BY <1>12, CloseEffect
<1>13. ASSUME NEW m \in Member, Provision(m) PROVE TypeOK'
  BY <1>13, ProvisionEffect
<1>14. ASSUME NEW m \in Member, Open(m) PROVE TypeOK'
  BY <1>14, OpenEffect
<1>15. CASE UNCHANGED vars
  BY <1>15 DEF vars
<1> HIDE DEF TypeOK
<1> QED
  BY <1>1, <1>2, <1>3, <1>4, <1>5, <1>6, <1>7, <1>8, <1>9, <1>10, <1>11, <1>12,
     <1>13, <1>14, <1>15 DEF Next

-----------------------------------------------------------------------------
(* The first layer: role histories *)

LEMMA HistoryGrows ==
  ASSUME NEW sg, NEW st, DOMAIN sg \subseteq DOMAIN st,
         \A k \in DOMAIN sg : st[k] = sg[k],
         NEW h \in Seq(Nat), History(sg, h)
  PROVE  History(st, h)
<1>1. \A k \in DOMAIN h : h[k] \in DOMAIN sg /\ \A j \in 1 .. (k - 1) : j \in DOMAIN h
  BY DEF History
<1>2. \A k \in DOMAIN h : h[k] \in DOMAIN st /\ st[h[k]] = sg[h[k]]
  BY <1>1
<1> QED
  BY <1>1, <1>2 DEF History

LEMMA ChainedGrows ==
  ASSUME NEW sg, NEW st, DOMAIN sg \subseteq DOMAIN st,
         \A k \in DOMAIN sg : st[k] = sg[k],
         NEW h \in Seq(Nat), NEW w \in Seq(Entry), NEW x, Chained(sg, h, w, x)
  PROVE  Chained(st, h, w, x)
<1>1. \A k \in DOMAIN w : w[k] \in Entry
  OBVIOUS
<1>2. \A k \in DOMAIN w : w[k].records \in Seq(Nat)
  BY <1>1, EntryTyped
<1>3. h # <<>> => History(st, h)
  BY HistoryGrows DEF Chained
<1>4. \A k \in DOMAIN w : w[k].records # <<>> => History(st, w[k].records)
  BY <1>2, HistoryGrows DEF Chained
<1> QED
  BY <1>3, <1>4 DEF Chained

LEMMA GenesisAlone ==
  ASSUME signed \in Seq(RoleRecord), signed # <<>>
  PROVE  History(signed, <<1>>)
<1>1. 1 \in DOMAIN signed
  BY SignedTyped
<1>2. <<1>> \in Seq(Nat) /\ Len(<<1>>) = 1 /\ <<1>>[1] = 1
  OBVIOUS
<1>3. \A k \in 1 .. Len(<<1>>) : k = 1
  BY <1>2
<1>4. \A j \in 1 .. (1 - 1) : FALSE
  OBVIOUS
<1> QED
  BY <1>1, <1>2, <1>3, <1>4, HistoryMade

LEMMA StoredHistory ==
  ASSUME NEW sg, NEW w \in Seq(Entry), StoredRecords(w) # <<>>,
         \A k \in DOMAIN w : w[k].records # <<>> => History(sg, w[k].records)
  PROVE  History(sg, StoredRecords(w))
BY StoredIs

LEMMA HistoryInit ==
  ASSUME ConstantsAssumption, Init
  PROVE  HistoryInv
<1>1. TypeOK
  BY TypeInit
<1>2. PICK w \in Rosters : signed = <<[parent |-> 0, ctx |-> 1, writers |-> w]>>
  BY DEF Init
<1>3. signed # <<>> /\ signed[1].parent = 0
  BY <1>2
<1>4. History(signed, <<1>>)
  BY <1>1, <1>3, GenesisAlone DEF TypeOK
<1>5. \A m \in Member : log[m] = <<1>> /\ wal[m] = <<>> /\ mem[m] = [Off EXCEPT !.mode = "open"]
  BY DEF Init
<1>6. [Off EXCEPT !.mode = "open"].mode = "open" /\ [Off EXCEPT !.mode = "open"].op = Idle
  BY DEF Off
<1>7. Idle.stage = "idle"
  BY DEF Idle
<1>8. <<1>> # <<>> /\ DOMAIN <<>> = {}
  OBVIOUS
<1>9. \A m \in Member : Chained(signed, log[m], wal[m], mem[m])
  BY <1>4, <1>5, <1>6, <1>7, <1>8 DEF Chained, Working, Writing
<1> QED
  BY <1>3, <1>9 DEF HistoryInv

(* A member that an action leaves alone. *)
LEMMA ChainedKept ==
  ASSUME TypeOK, HistoryInv, Grows, NEW q \in Member,
         log'[q] = log[q], wal'[q] = wal[q], mem'[q] = mem[q]
  PROVE  Chained(signed', log'[q], wal'[q], mem'[q])
<1>1. log[q] \in Seq(Nat) /\ wal[q] \in Seq(Entry) /\ Chained(signed, log[q], wal[q], mem[q])
  BY MemberTyped DEF HistoryInv
<1>2. Chained(signed', log[q], wal[q], mem[q])
  BY <1>1, ChainedGrows DEF Grows
<1> QED
  BY <1>2

LEMMA SameSigned == ASSUME UNCHANGED signed PROVE Grows
BY DEF Grows

(* The entry of an operation carries the newest history, or the journal has it. *)
LEMMA EntryRecordsIs ==
  ASSUME TypeOK, NEW m \in Member, log[m] # <<>>, NEW ckpt \in BOOLEAN
  PROVE  /\ Len(log[m]) \in DOMAIN log[m]
         /\ Begins(log[m], log[m], Len(log[m]))
         /\ \/ Begins(EntryRecords(m, ckpt), log[m], Len(log[m]))
            \/ /\ EntryRecords(m, ckpt) = <<>> /\ ~ckpt
               /\ mem[m].persisted = Len(log[m])
<1>1. log[m] \in Seq(Nat) /\ log[m] # <<>>
  BY MemberTyped
<1>2. Len(log[m]) \in DOMAIN log[m]
  BY <1>1
<1>3. Begins(log[m], log[m], Len(log[m]))
  BY <1>1, <1>2 DEF Begins
<1> QED
  BY <1>2, <1>3 DEF EntryRecords

LEMMA ContentEntryIs ==
  ASSUME NEW m \in Member, NEW f
  PROVE  \E ckpt \in BOOLEAN :
           /\ ContentEntry(m, f).ckpt = ckpt
           /\ ContentEntry(m, f).ctx = epoch[m]
           /\ ContentEntry(m, f).content = EntryContent(m, f, ckpt)
           /\ ContentEntry(m, f).receipts = EntryReceipts(ReceiptsFor(m), f, ckpt)
           /\ ContentEntry(m, f).head = HeadOf(m)
           /\ ContentEntry(m, f).records = EntryRecords(m, ckpt)
<1> DEFINE ckpt == Len(wal[m]) >= MaxWal
<1>1. ckpt \in BOOLEAN
  OBVIOUS
<1>2. ContentEntry(m, f) =
        [ckpt |-> ckpt, ctx |-> epoch[m], content |-> EntryContent(m, f, ckpt),
         receipts |-> EntryReceipts(ReceiptsFor(m), f, ckpt),
         head |-> HeadOf(m), records |-> EntryRecords(m, ckpt)]
  BY DEF ContentEntry
<1> HIDE DEF ckpt
<1> QED
  BY <1>1, <1>2

LEMMA RoleEntryIs ==
  ASSUME NEW m \in Member
  PROVE  /\ RoleEntry(m).ckpt = TRUE /\ RoleEntry(m).ctx = epoch[m]
         /\ RoleEntry(m).content = mem[m].doc /\ RoleEntry(m).receipts = <<>>
         /\ RoleEntry(m).head = HeadOf(m) /\ RoleEntry(m).records = log[m]
BY DEF RoleEntry

(* An accepted entry joins the entries of the journal or replaces them. *)
LEMMA AcceptedEither ==
  ASSUME NEW w \in Seq(Entry), NEW e \in Entry
  PROVE  \A k \in DOMAIN Accepted(w, e) :
           Accepted(w, e)[k] = e \/ (k \in DOMAIN w /\ Accepted(w, e)[k] = w[k])
<1> DEFINE v == Accepted(w, e)
<1>1. /\ DOMAIN v = 1 .. Len(v) /\ v[Len(v)] = e
      /\ \A k \in 1 .. (Len(v) - 1) : ~e.ckpt /\ k \in DOMAIN w /\ v[k] = w[k]
      /\ Len(v) \in Nat \ {0}
  BY AcceptedEntries
<1> HIDE DEF v
<1>2. \A k \in DOMAIN v : k = Len(v) \/ k \in 1 .. (Len(v) - 1)
  BY <1>1
<1>3. \A k \in DOMAIN v : v[k] = e \/ (k \in DOMAIN w /\ v[k] = w[k])
  BY <1>1, <1>2
<1> QED
  BY <1>3 DEF v

(* Appending a record keeps the ones before it. *)
LEMMA AppendKeeps ==
  ASSUME NEW h \in Seq(Nat), NEW i \in Nat
  PROVE  /\ Append(h, i) # <<>>
         /\ \A k \in DOMAIN h : k \in DOMAIN Append(h, i) /\ Append(h, i)[k] = h[k]
  OBVIOUS

LEMMA HistoryStep ==
  ASSUME ConstantsAssumption, TypeOK, TypeOK', HistoryInv, [Next]_vars
  PROVE  HistoryInv'
<1>0. /\ signed \in Seq(RoleRecord) /\ signed # <<>> /\ signed[1].parent = 0
      /\ \A m \in Member : Chained(signed, log[m], wal[m], mem[m])
  BY DEF TypeOK, HistoryInv
<1>00. 1 \in DOMAIN signed
  BY <1>0, SignedTyped
<1>1. ASSUME Grows, signed' # <<>>,
             \A q \in Member : Chained(signed', log'[q], wal'[q], mem'[q])
      PROVE  HistoryInv'
  BY <1>0, <1>00, <1>1 DEF HistoryInv, Grows
<1> DEFINE Good(q) == Chained(signed', log'[q], wal'[q], mem'[q])
           Same(q) == log'[q] = log[q] /\ wal'[q] = wal[q] /\ mem'[q] = mem[q]
<1>2. ASSUME UNCHANGED signed, NEW m \in Member, Good(m), \A q \in Member \ {m} : Same(q)
      PROVE  HistoryInv'
  <2>1. Grows
    BY <1>2, SameSigned
  <2>2. \A q \in Member \ {m} : Good(q)
    BY <1>2, <2>1, ChainedKept
  <2>3. \A q \in Member : Good(q)
    BY <1>2, <2>2
  <2> QED
    BY <1>0, <1>1, <1>2, <2>1, <2>3
<1>3. ASSUME UNCHANGED <<signed, log, wal, mem>>
      PROVE  HistoryInv'
  BY <1>3 DEF HistoryInv
<1>4. CASE \E w \in Rosters : Sign(w)
  <2>1. PICK w \in Rosters : Sign(w)
    BY <1>4
  <2>2. w \in SUBSET Member /\ Controller \in Member
    BY DEF ConstantsAssumption
  <2>3. Grows /\ signed' # <<>> /\ UNCHANGED <<log, wal, mem>>
    BY <2>1, <2>2, SignEffect
  <2>4. \A q \in Member : Good(q)
    BY <2>3, ChainedKept
  <2> QED
    BY <1>1, <2>3, <2>4
<1>5. ASSUME NEW m \in Member, BeginChange(m) \/ \E f \in net : BeginReceive(m, f)
      PROVE  HistoryInv'
  <2>1. PICK f \in Frame, local \in BOOLEAN :
          /\ Ready(m) /\ log[m] # <<>> /\ Prepare(m, f, local)
          /\ UNCHANGED <<epoch, signed, log, wal, outbox, net, made, acked, faults>>
    BY <1>5, BeginEffect
  <2>2. /\ Others(m) /\ mem'[m].mode = mem[m].mode /\ mem'[m].persisted = mem[m].persisted
        /\ mem'[m].op = PreparedOp(m, f, local)
    BY <2>1, PrepareEffect
  <2>3. mem[m].mode = "open"
    BY <2>1 DEF Ready
  <2>4. /\ mem'[m].op.stage = "prepared" /\ mem'[m].op.revision = Len(log[m])
        /\ mem'[m].op.entry = ContentEntry(m, f)
    BY <2>2 DEF PreparedOp
  <2>5. PICK ckpt \in BOOLEAN : /\ ContentEntry(m, f).ckpt = ckpt
                                /\ ContentEntry(m, f).records = EntryRecords(m, ckpt)
    BY ContentEntryIs
  <2>6. /\ Len(log[m]) \in DOMAIN log[m]
        /\ \/ Begins(EntryRecords(m, ckpt), log[m], Len(log[m]))
           \/ /\ EntryRecords(m, ckpt) = <<>> /\ ~ckpt
              /\ mem[m].persisted = Len(log[m])
    BY <2>1, EntryRecordsIs
  <2>7. Good(m)
    BY <1>0, <2>1, <2>2, <2>3, <2>4, <2>5, <2>6 DEF Chained, Working, Writing
  <2> QED
    BY <1>2, <2>1, <2>2, <2>7 DEF Others
<1>6. ASSUME NEW m \in Member, Finalize(m) PROVE HistoryInv'
  <2>1. /\ mem[m].op.stage = "prepared" /\ mem[m].mode = "open" /\ mem'[m].mode = "open"
        /\ mem'[m].op.stage = "committing" /\ mem'[m].op.entry = mem[m].op.entry
        /\ mem'[m].op.revision = mem[m].op.revision /\ Others(m)
        /\ mem'[m].persisted = mem[m].persisted /\ UNCHANGED <<signed, log, wal>>
    BY <1>6, FinalizeEffect
  <2>2. Good(m)
    BY <1>0, <2>1 DEF Chained, Working, Writing
  <2> QED
    BY <1>2, <2>1, <2>2 DEF Others
<1>7. ASSUME NEW m \in Member, mem'[m].op = Idle, log'[m] = log[m], wal'[m] = wal[m],
             log[m] = <<>> => mem'[m].mode = "off"
      PROVE  UNCHANGED signed => Good(m)
  <2>1. mem'[m].op.stage = "idle"
    BY <1>7 DEF Idle
  <2> QED
    BY <1>0, <1>7, <2>1 DEF Chained, Working, Writing
<1>8. \A m \in Member : mem[m].op.stage # "idle" => Working(mem[m]) /\ log[m] # <<>>
  <2>1. Idle.stage = "idle"
    BY DEF Idle
  <2> QED
    BY <1>0, <2>1 DEF Chained, Working
<1>9. ASSUME NEW m \in Member, Cancel(m) PROVE HistoryInv'
  <2>1. /\ mem'[m].op = Idle /\ Others(m) /\ UNCHANGED <<signed, log, wal>>
        /\ mem[m].op.stage = "prepared"
    BY <1>9, CancelEffect, OffFields
  <2>2. Good(m)
    BY <1>7, <1>8, <2>1
  <2> QED
    BY <1>2, <2>1, <2>2 DEF Others
<1>10. ASSUME NEW m \in Member, JournalCommit(m) PROVE HistoryInv'
  <2> DEFINE e == mem[m].op.entry
             v == Accepted(wal[m], e)
  <2>1. /\ mem'[m].op = Idle /\ Others(m) /\ UNCHANGED <<signed, log>>
        /\ mem[m].op.stage = "committing" /\ e \in Entry
        /\ Store(m) \/ wal' = wal
    BY <1>10, JournalEffect
  <2>2. CASE wal' = wal
    <3>1. Good(m)
      BY <1>7, <1>8, <2>1, <2>2
    <3> QED
      BY <1>2, <2>1, <2>2, <3>1 DEF Others
  <2>3. CASE Store(m)
    <3>1. wal'[m] = v /\ \A q \in Member \ {m} : wal'[q] = wal[q]
      BY <2>1, <2>3, StoreEffect
    <3>2. wal[m] \in Seq(Entry) /\ log[m] \in Seq(Nat)
      BY MemberTyped
    <3>3. log[m] # <<>> /\ Writing(mem[m])
      BY <1>8, <2>1 DEF Writing
    <3>4. e.records # <<>> => History(signed, e.records)
      <4>1. \/ Begins(e.records, log[m], mem[m].op.revision)
            \/ e.records = <<>>
        BY <1>0, <3>3 DEF Chained
      <4>2. History(signed, log[m]) /\ e.records \in Seq(Nat)
        BY <1>0, <2>1, <3>3, EntryTyped DEF Chained
      <4> HIDE DEF e
      <4> QED
        BY <3>2, <4>1, <4>2, HistoryBegins
    <3>5. \A k \in DOMAIN v : v[k] = e \/ (k \in DOMAIN wal[m] /\ v[k] = wal[m][k])
      BY <2>1, <3>2, AcceptedEither
    <3> HIDE DEF v, e
    <3>6. \A k \in DOMAIN v : v[k].records # <<>> => History(signed, v[k].records)
      BY <1>0, <3>4, <3>5 DEF Chained
    <3>7. mem'[m].op.stage = "idle"
      BY <2>1 DEF Idle
    <3>8. Good(m)
      BY <1>0, <2>1, <3>1, <3>3, <3>6, <3>7 DEF Chained, Working, Writing
    <3> QED
      BY <1>2, <2>1, <3>1, <3>8 DEF Others
  <2> QED
    BY <2>1, <2>2, <2>3
<1>11. ASSUME NEW m \in Member, NEW i \in DOMAIN signed, Install(m, i)
       PROVE  /\ log'[m] # <<>> /\ History(signed, log'[m])
              /\ \A q \in Member \ {m} : log'[q] = log[q]
              /\ \A n \in DOMAIN log[m] : /\ n \in DOMAIN log'[m]
                                          /\ \A r : Begins(r, log[m], n) => Begins(r, log'[m], n)
  <2>1. /\ log[m] # <<>> /\ signed[i].parent = log[m][Len(log[m])]
        /\ signed[i].ctx > signed[log[m][Len(log[m])]].ctx
        /\ log'[m] = Append(log[m], i) /\ \A q \in Member \ {m} : log'[q] = log[q]
    BY <1>11, InstallEffect DEF HeadOf, Role
  <2>2. log[m] \in Seq(Nat) /\ History(signed, log[m]) /\ i \in Nat
    BY <1>0, <2>1, MemberTyped, SignedTyped DEF Chained
  <2>3. Append(log[m], i) \in Seq(Nat) /\ History(signed, Append(log[m], i))
    BY <1>0, <2>1, <2>2, HistoryExtends
  <2>4. /\ \A k \in DOMAIN log[m] : k \in DOMAIN log'[m] /\ log'[m][k] = log[m][k]
        /\ log'[m] # <<>>
    BY <2>1, <2>2, AppendKeeps
  <2>5. \A n \in DOMAIN log[m] : \A k \in 1 .. n : k \in DOMAIN log[m]
    BY <2>2
  <2>6. \A n \in DOMAIN log[m] : \A r : Begins(r, log[m], n) => Begins(r, log'[m], n)
    BY <2>4, <2>5 DEF Begins
  <2> QED
    BY <2>1, <2>3, <2>4, <2>6
<1>12. ASSUME NEW m \in Member, NEW i \in DOMAIN signed, ApplyUpdate(m, i) PROVE HistoryInv'
  <2>1. Install(m, i) /\ UNCHANGED <<signed, mem, wal>>
    BY <1>12 DEF ApplyUpdate
  <2>2. Good(m)
    BY <1>0, <1>11, <2>1 DEF Chained, Working, Writing
  <2> QED
    BY <1>2, <1>11, <2>1, <2>2
<1>13. ASSUME NEW m \in Member, NEW i \in DOMAIN signed, BeginRole(m, i) PROVE HistoryInv'
  <2>1. /\ Install(m, i) /\ UNCHANGED <<signed, wal>> /\ Others(m) /\ Ready(m)
        /\ mem'[m].mode = mem[m].mode /\ mem'[m].op = [stage |-> "role"]
    BY <1>13, BeginRoleEffect
  <2>2. mem'[m].op.stage = "role" /\ mem[m].mode = "open"
    BY <2>1 DEF Ready
  <2>3. Good(m)
    BY <1>0, <1>11, <2>1, <2>2 DEF Chained, Working, Writing
  <2> QED
    BY <1>2, <1>11, <2>1, <2>3 DEF Others
<1>14. ASSUME NEW m \in Member, RoleCheckpoint(m) PROVE HistoryInv'
  <2>1. /\ mem[m].op.stage = "role" /\ Others(m) /\ UNCHANGED <<signed, log, wal>>
        /\ \/ /\ log[m] # <<>> /\ mem'[m].mode = mem[m].mode
              /\ mem'[m].op.stage = "committing"
              /\ mem'[m].op.revision = Len(log[m]) /\ mem'[m].op.entry = RoleEntry(m)
           \/ mem'[m].op = Idle
    BY <1>14, RoleCheckpointEffect
  <2>2. Working(mem[m]) /\ log[m] # <<>>
    BY <1>8, <2>1
  <2>3. CASE mem'[m].op = Idle
    <3>1. Good(m)
      BY <1>7, <2>1, <2>2, <2>3
    <3> QED
      BY <1>2, <2>1, <3>1 DEF Others
  <2>4. CASE /\ mem'[m].mode = mem[m].mode /\ mem'[m].op.stage = "committing"
             /\ mem'[m].op.revision = Len(log[m]) /\ mem'[m].op.entry = RoleEntry(m)
    <3>1. Len(log[m]) \in DOMAIN log[m] /\ Begins(log[m], log[m], Len(log[m]))
      BY <2>2, EntryRecordsIs
    <3>2. RoleEntry(m).records = log[m]
      BY RoleEntryIs
    <3>3. Good(m)
      BY <1>0, <2>1, <2>2, <2>4, <3>1, <3>2 DEF Chained, Working, Writing
    <3> QED
      BY <1>2, <2>1, <3>3 DEF Others
  <2> QED
    BY <2>1, <2>3, <2>4
<1>15. ASSUME NEW m \in Member, AdvanceEpoch(m) PROVE HistoryInv'
  BY <1>3, <1>15 DEF AdvanceEpoch
<1>16. ASSUME NEW m \in Member, Publish(m) PROVE HistoryInv'
  BY <1>3, <1>16, PublishEffect
<1>17. ASSUME NEW m \in Member, Crash(m) PROVE HistoryInv'
  <2>1. /\ Others(m) /\ mem'[m] = Off /\ log'[m] = <<>> /\ UNCHANGED <<signed, wal>>
        /\ \A q \in Member \ {m} : log'[q] = log[q]
    BY <1>17, CrashEffect
  <2>2. Good(m)
    BY <1>0, <2>1, OffFields DEF Chained, Working, Writing
  <2> QED
    BY <1>2, <2>1, <2>2 DEF Others
<1>18. ASSUME NEW m \in Member, Close(m) PROVE HistoryInv'
  <2>1. /\ mem[m].mode \in {"open", "failed"} /\ Others(m) /\ UNCHANGED <<signed, log, wal>>
        /\ \/ mem'[m] = Off
           \/ /\ mem[m].op # Idle /\ mem'[m].mode = "closing"
              /\ mem'[m].persisted = mem[m].persisted /\ mem'[m].op = mem[m].op
    BY <1>18, CloseEffect
  <2>2. Good(m)
    <3>1. CASE mem'[m] = Off
      BY <1>7, <2>1, <3>1, OffFields
    <3>2. CASE /\ mem[m].op # Idle /\ mem'[m].mode = "closing"
               /\ mem'[m].persisted = mem[m].persisted /\ mem'[m].op = mem[m].op
      BY <1>0, <2>1, <3>2 DEF Chained, Working, Writing
    <3> QED
      BY <2>1, <3>1, <3>2
  <2> QED
    BY <1>2, <2>1, <2>2 DEF Others
<1>19. ASSUME NEW m \in Member, Provision(m) PROVE HistoryInv'
  <2>1. /\ log[m] = <<>> /\ log'[m] # <<>>
        /\ log'[m] = StoredRecords(wal[m]) \/ log'[m] = <<1>> \/ \E q \in Member : log'[m] = log[q]
        /\ \A q \in Member \ {m} : log'[q] = log[q]
        /\ UNCHANGED <<signed, mem, wal>>
    BY <1>19, ProvisionEffect
  <2>2. History(signed, <<1>>)
    BY <1>0, GenesisAlone
  <2>3. StoredRecords(wal[m]) # <<>> => History(signed, StoredRecords(wal[m]))
    BY <1>0, MemberTyped, StoredHistory DEF Chained
  <2>4. History(signed, log'[m])
    BY <1>0, <2>1, <2>2, <2>3 DEF Chained
  <2>5. mem[m].op = Idle /\ Idle.stage = "idle"
    BY <1>0, <2>1, OffFields DEF Chained, Working
  <2>6. Good(m)
    BY <1>0, <2>1, <2>4, <2>5 DEF Chained, Working, Writing
  <2> QED
    BY <1>2, <2>1, <2>6
<1>20. ASSUME NEW m \in Member, Open(m) PROVE HistoryInv'
  <2>1. /\ log[m] # <<>> /\ Others(m) /\ mem'[m].op = Idle /\ UNCHANGED <<signed, log, wal>>
    BY <1>20, OpenEffect
  <2>2. Good(m)
    BY <1>7, <2>1
  <2> QED
    BY <1>2, <2>1, <2>2 DEF Others
<1>21. CASE UNCHANGED vars
  BY <1>3, <1>21 DEF vars
<1> HIDE DEF Good, Same
<1> QED
  BY <1>4, <1>5, <1>6, <1>9, <1>10, <1>12, <1>13, <1>14, <1>15, <1>16, <1>17,
     <1>18, <1>19, <1>20, <1>21 DEF Next


-----------------------------------------------------------------------------
(* The second layer: everything shown is attributed and explained. *)

(* More records of a history explain as much. *)
LEMMA ExplainsMore ==
  ASSUME NEW h, NEW g, NEW e, NEW n \in Nat, NEW l \in Nat, n <= l,
         \A k \in 1 .. n : g[k] = h[k], Explains(h, n, e)
  PROVE  Explains(g, l, e)
<1>1. PICK p \in 1 .. n : /\ h[p] = e.head
                          /\ \A f \in e.content : \E j \in 1 .. p : h[j] = f.head
  BY DEF Explains
<1>2. p \in 1 .. l /\ g[p] = e.head
  BY <1>1
<1>3. \A j \in 1 .. p : j \in 1 .. n
  OBVIOUS
<1>4. \A f \in e.content : \E j \in 1 .. p : g[j] = f.head
  BY <1>1, <1>3
<1> QED
  BY <1>2, <1>4 DEF Explains

(* The records that begin a history explain what they explain in it. *)
LEMMA ExplainsBegun ==
  ASSUME NEW h, NEW r, NEW n \in Nat, NEW e, Begins(r, h, n), Explains(h, n, e)
  PROVE  Explains(r, Len(r), e)
<1>1. Len(r) = n /\ \A k \in 1 .. n : r[k] = h[k]
  BY DEF Begins
<1> QED
  BY <1>1, ExplainsMore

(* An entry explained by one history is explained by every other history    *)
(* that has its head.                                                       *)
LEMMA ExplainsAgree ==
  ASSUME signed \in Seq(RoleRecord), signed # <<>>, signed[1].parent = 0,
         NEW h \in Seq(Nat), History(signed, h), NEW g \in Seq(Nat), History(signed, g),
         NEW e, Explains(g, Len(g), e), e.head \in Range(h)
  PROVE  Explains(h, Len(h), e)
<1>1. DOMAIN h = 1 .. Len(h) /\ Len(h) \in Nat /\ DOMAIN g = 1 .. Len(g) /\ Len(g) \in Nat
  OBVIOUS
<1>2. PICK p \in 1 .. Len(g) :
        /\ g[p] = e.head
        /\ \A f \in e.content : \E j \in 1 .. p : g[j] = f.head
  BY DEF Explains
<1>3. PICK k \in 1 .. Len(h) : h[k] = e.head
  BY <1>1 DEF Range
<1>4. k = p /\ \A i \in 1 .. k : h[i] = g[i]
  <2>1. k \in DOMAIN h /\ p \in DOMAIN g /\ h[k] = g[p]
    BY <1>1, <1>2, <1>3
  <2>2. \A a \in DOMAIN h : \A b \in DOMAIN g : h[a] = g[b] =>
          a = b /\ \A i \in 1 .. a : h[i] = g[i]
    BY HistoriesAgree
  <2> QED
    BY <2>1, <2>2
<1>5. \A f \in e.content : \E j \in 1 .. k : h[j] = f.head
  BY <1>2, <1>4
<1> QED
  BY <1>3, <1>5 DEF Explains

(* What an entry says is explained names records of the history. *)
LEMMA ExplainedHeads ==
  ASSUME NEW h \in Seq(Nat), NEW n \in Nat, n <= Len(h), NEW e, Explains(h, n, e)
  PROVE  \A f \in e.content : f.head \in Range(h)
<1>1. DOMAIN h = 1 .. Len(h) /\ Len(h) \in Nat
  OBVIOUS
<1>2. PICK p \in 1 .. n : \A f \in e.content : \E j \in 1 .. p : h[j] = f.head
  BY DEF Explains
<1>3. \A j \in 1 .. p : j \in DOMAIN h
  BY <1>1
<1> QED
  BY <1>2, <1>3 DEF Range

(* An entry whose frames name records of a history, prepared at its head. *)
LEMMA ExplainsHead ==
  ASSUME NEW h \in Seq(Nat), h # <<>>, NEW e, e.head = h[Len(h)],
         \A f \in e.content : f.head \in Range(h)
  PROVE  Explains(h, Len(h), e)
<1>1. DOMAIN h = 1 .. Len(h) /\ Len(h) \in Nat \ {0}
  OBVIOUS
<1>2. \A f \in e.content : \E j \in 1 .. Len(h) : h[j] = f.head
  BY <1>1 DEF Range
<1>3. Len(h) \in 1 .. Len(h)
  BY <1>1
<1> QED
  BY <1>2, <1>3 DEF Explains

LEMMA AttributedGrows ==
  ASSUME NEW sg, NEW st, DOMAIN sg \subseteq DOMAIN st,
         \A k \in DOMAIN sg : st[k] = sg[k], NEW f, Attributed(sg, f)
  PROVE  Attributed(st, f)
BY DEF Attributed

LEMMA ExplainedGrows ==
  ASSUME NEW sg, NEW st, DOMAIN sg \subseteq DOMAIN st,
         \A k \in DOMAIN sg : st[k] = sg[k],
         NEW h \in Seq(Nat), NEW w, NEW x, Explained(sg, h, w, x),
         x.op.stage = "role" => History(sg, h)
  PROVE  Explained(st, h, w, x)
<1>1. \A f : Attributed(sg, f) => Attributed(st, f)
  BY AttributedGrows
<1>2. Backed(st, w) /\ \A f \in x.doc : Attributed(st, f)
  BY <1>1 DEF Explained, Backed
<1>3. x.op.stage = "role" => st[h[Len(h)]] = sg[h[Len(h)]]
  <2>1. x.op.stage = "role" => Len(h) \in DOMAIN h
    BY DEF History
  <2> QED
    BY <2>1 DEF History
<1>4. Writing(x) => Underway(st, h, w, x.op)
  BY <1>1 DEF Explained, Underway
<1>5. x.op.stage = "prepared" => Named(st, h, x.op)
  BY <1>1 DEF Explained, Named
<1> QED
  BY <1>2, <1>3, <1>4, <1>5 DEF Explained

(* A document without an operation. *)
LEMMA ExplainedIdle ==
  ASSUME NEW sg, NEW h, NEW w, NEW x, x.op = Idle,
         \A f \in x.doc : Attributed(sg, f), Backed(sg, w),
         Working(x) => Shown(h, w, x)
  PROVE  Explained(sg, h, w, x)
<1>1. x.op.stage = "idle"
  BY DEF Idle
<1> QED
  BY <1>1 DEF Explained, Writing

LEMMA ExplainedKept ==
  ASSUME TypeOK, HistoryInv, AuthorityInv, Grows, NEW q \in Member,
         log'[q] = log[q], wal'[q] = wal[q], mem'[q] = mem[q]
  PROVE  Explained(signed', log'[q], wal'[q], mem'[q])
<1>1. Explained(signed, log[q], wal[q], mem[q]) /\ Chained(signed, log[q], wal[q], mem[q])
  BY DEF AuthorityInv, HistoryInv
<1>2. log[q] \in Seq(Nat)
  BY MemberTyped
<1>3. mem[q].op.stage = "role" => History(signed, log[q])
  BY <1>1 DEF Chained, Idle, Working
<1>4. Explained(signed', log[q], wal[q], mem[q])
  BY <1>1, <1>2, <1>3, ExplainedGrows DEF Grows
<1> QED
  BY <1>4


LEMMA AuthorityInit ==
  ASSUME ConstantsAssumption, Init
  PROVE  AuthorityInv
<1> SUFFICES ASSUME NEW m \in Member PROVE Explained(signed, log[m], wal[m], mem[m])
  BY DEF AuthorityInv
<1>1. /\ mem[m].mode = "open" /\ mem[m].doc = {} /\ mem[m].persisted = 0
      /\ mem[m].op = Idle /\ wal[m] = <<>>
  BY DEF Init, Off
<1>2. DOMAIN wal[m] = {}
  BY <1>1
<1>3. Backed(signed, wal[m]) /\ Shown(log[m], wal[m], mem[m])
  BY <1>1, <1>2 DEF Backed, Shown
<1> QED
  BY <1>1, <1>3, ExplainedIdle

(* The journal that accepts an entry prepared under a history. *)
LEMMA BackedAccepted ==
  ASSUME NEW sg, NEW h \in Seq(Nat), NEW w \in Seq(Entry), NEW op,
         op.entry \in Entry, op.revision \in DOMAIN h,
         Backed(sg, w), Underway(sg, h, w, op),
         \/ Begins(op.entry.records, h, op.revision)
         \/ /\ op.entry.records = <<>> /\ ~op.entry.ckpt
            /\ Begins(StoredRecords(w), h, op.revision)
  PROVE  LET v == Accepted(w, op.entry) IN
         /\ Backed(sg, v)
         /\ Begins(StoredRecords(v), h, op.revision)
         /\ \A k \in DOMAIN v : Explains(h, Len(h), v[k])
<1> DEFINE e == op.entry
           n == op.revision
           v == Accepted(w, e)
           r == StoredRecords(v)
<1>1. /\ n \in Nat \ {0} /\ Len(h) \in Nat /\ n <= Len(h)
      /\ e.records \in Seq(Nat)
  BY EntryTyped
<1>2. Begins(e.records, h, n) => e.records # <<>>
  BY <1>1 DEF Begins
<1>3. r = IF e.records # <<>> THEN e.records ELSE StoredRecords(w)
  <2>1. e.ckpt => e.records # <<>>
    BY <1>2
  <2> QED
    BY <2>1, StoredAccepted
<1>4. Begins(r, h, n)
  BY <1>2, <1>3
<1>5. \A k \in DOMAIN v : v[k] = e \/ (k \in DOMAIN w /\ v[k] = w[k])
  BY AcceptedEither
<1> HIDE DEF r, v
<1>6. \A k \in DOMAIN v : /\ Explains(h, n, v[k])
                          /\ \A f \in v[k].content : Attributed(sg, f)
  BY <1>5 DEF Underway, Backed
<1> HIDE DEF n, e
<1>7. \A k \in DOMAIN v : Explains(r, Len(r), v[k])
  BY <1>1, <1>4, <1>6, ExplainsBegun
<1>8. \A k \in DOMAIN v : Explains(h, Len(h), v[k])
  BY <1>1, <1>6, ExplainsMore
<1>9. Backed(sg, v)
  BY <1>6, <1>7 DEF Backed, r
<1> QED
  BY <1>4, <1>8, <1>9 DEF r, v, n, e

(* A history keeps explaining when a record is appended. *)
LEMMA ShownExtends ==
  ASSUME NEW h \in Seq(Nat), NEW i \in Nat, NEW w, NEW x
  PROVE  /\ Shown(h, w, x) => Shown(Append(h, i), w, x)
         /\ \A sg, op : op.revision \in DOMAIN h /\ Underway(sg, h, w, op) =>
              Underway(sg, Append(h, i), w, op)
         /\ \A sg, op : op.revision \in DOMAIN h /\ Named(sg, h, op) =>
              Named(sg, Append(h, i), op)
<1> DEFINE g == Append(h, i)
<1>1. /\ DOMAIN h = 1 .. Len(h) /\ Len(h) \in Nat /\ Len(g) = Len(h) + 1 /\ Len(g) \in Nat
      /\ DOMAIN g = 1 .. Len(g)
  OBVIOUS
<1>2. \A k \in 1 .. Len(h) : g[k] = h[k]
  OBVIOUS
<1> HIDE DEF g
<1>3. \A n \in DOMAIN h : /\ n \in Nat /\ n \in DOMAIN g /\ g[n] = h[n] /\ n <= Len(h)
                          /\ \A k \in 1 .. n : g[k] = h[k]
  BY <1>1, <1>2
<1>4. \A n \in DOMAIN h : \A e : Explains(h, n, e) => Explains(g, n, e)
  BY <1>3, ExplainsMore
<1>5. \A e : Explains(h, Len(h), e) => Explains(g, Len(g), e)
  BY <1>1, <1>2, ExplainsMore
<1>6. \A n : \A r : Begins(r, h, n) => Begins(r, g, n)
  BY <1>3 DEF Begins
<1>7. Range(h) \subseteq Range(g)
  BY <1>3 DEF Range
<1>8. Shown(h, w, x) => Shown(g, w, x)
  BY <1>5, <1>6, <1>7 DEF Shown
<1>9. \A sg, op : op.revision \in DOMAIN h /\ Underway(sg, h, w, op) => Underway(sg, g, w, op)
  BY <1>3, <1>4 DEF Underway
<1>10. \A sg, op : op.revision \in DOMAIN h /\ Named(sg, h, op) => Named(sg, g, op)
  BY <1>3 DEF Named
<1> QED
  BY <1>8, <1>9, <1>10 DEF g


(* What the first two layers say of a member, for use by name. *)
LEMMA MemberExplained ==
  ASSUME TypeOK, HistoryInv, AuthorityInv, NEW m \in Member
  PROVE  /\ signed \in Seq(RoleRecord) /\ signed # <<>> /\ signed[1].parent = 0
         /\ log[m] # <<>> => History(signed, log[m])
         /\ \A k \in DOMAIN wal[m] :
              wal[m][k].records # <<>> => History(signed, wal[m][k].records)
         /\ log[m] = <<>> => mem[m].mode = "off"
         /\ mem[m].op.stage # "idle" => Working(mem[m]) /\ log[m] # <<>>
         /\ Writing(mem[m]) =>
              /\ mem[m].op.revision \in DOMAIN log[m]
              /\ \/ Begins(mem[m].op.entry.records, log[m], mem[m].op.revision)
                 \/ /\ mem[m].op.entry.records = <<>> /\ ~mem[m].op.entry.ckpt
                    /\ mem[m].persisted = mem[m].op.revision
         /\ \A f \in mem[m].doc : Attributed(signed, f)
         /\ Backed(signed, wal[m])
         /\ Working(mem[m]) => Shown(log[m], wal[m], mem[m])
         /\ Writing(mem[m]) => Underway(signed, log[m], wal[m], mem[m].op)
         /\ mem[m].op.stage = "prepared" => Named(signed, log[m], mem[m].op)
<1>1. Explained(signed, log[m], wal[m], mem[m]) /\ Chained(signed, log[m], wal[m], mem[m])
  BY DEF AuthorityInv, HistoryInv
<1>2. signed \in Seq(RoleRecord) /\ signed # <<>> /\ signed[1].parent = 0
  BY DEF TypeOK, HistoryInv
<1>3. mem[m].op.stage # "idle" => Working(mem[m]) /\ log[m] # <<>>
  BY <1>1 DEF Chained, Idle, Working
<1> QED
  BY <1>1, <1>2, <1>3 DEF Explained, Chained

(* The newest record of a member that has some. *)
LEMMA HeadIs ==
  ASSUME TypeOK, HistoryInv, NEW m \in Member, log[m] # <<>>
  PROVE  /\ Len(log[m]) \in DOMAIN log[m] /\ HeadOf(m) = log[m][Len(log[m])]
         /\ HeadOf(m) \in DOMAIN signed /\ HeadOf(m) \in Range(log[m])
         /\ \A i \in Range(log[m]) : i \in DOMAIN signed /\ signed[i].ctx <= Role(m).ctx
<1>1. History(signed, log[m]) /\ log[m] \in Seq(Nat) /\ signed \in Seq(RoleRecord)
  BY MemberTyped DEF HistoryInv, Chained, TypeOK
<1>2. /\ DOMAIN log[m] = 1 .. Len(log[m]) /\ Len(log[m]) \in Nat \ {0}
      /\ \A k \in 1 .. Len(log[m]) :
           /\ log[m][k] \in DOMAIN signed
           /\ \A j \in 1 .. (k - 1) : signed[log[m][j]].ctx < signed[log[m][k]].ctx
  BY <1>1, HistorySteps
<1>3. \A k \in DOMAIN signed : signed[k].ctx \in Nat
  BY <1>1, SignedTyped
<1> DEFINE n == Len(log[m])
<1>4. n \in DOMAIN log[m] /\ HeadOf(m) = log[m][n] /\ log[m][n] \in DOMAIN signed
  BY <1>2 DEF HeadOf
<1>5. \A k \in DOMAIN log[m] : k = n \/ k \in 1 .. (n - 1)
  BY <1>2
<1>6. \A k \in DOMAIN log[m] : /\ log[m][k] \in DOMAIN signed
                               /\ signed[log[m][k]].ctx <= signed[log[m][n]].ctx
  <2> SUFFICES ASSUME NEW k \in DOMAIN log[m]
               PROVE /\ log[m][k] \in DOMAIN signed
                     /\ signed[log[m][k]].ctx <= signed[log[m][n]].ctx
    OBVIOUS
  <2>1. log[m][k] \in DOMAIN signed
    BY <1>2
  <2>2. signed[log[m][k]].ctx \in Nat /\ signed[log[m][n]].ctx \in Nat
    BY <1>3, <1>4, <2>1
  <2>3. k = n \/ signed[log[m][k]].ctx < signed[log[m][n]].ctx
    BY <1>2, <1>4, <1>5
  <2> HIDE DEF n
  <2> QED
    BY <2>1, <2>2, <2>3
<1> HIDE DEF n
<1>7. HeadOf(m) \in Range(log[m])
  BY <1>4 DEF Range
<1>8. \A i \in Range(log[m]) : i \in DOMAIN signed /\ signed[i].ctx <= signed[log[m][n]].ctx
  BY <1>6 DEF Range
<1> QED
  BY <1>4, <1>7, <1>8 DEF Role, n

(* A change that is begun is attributed, and its entry explained. *)
LEMMA AuthorityBegin ==
  ASSUME TypeOK, HistoryInv, AuthorityInv, NEW m \in Member, NEW f \in Frame,
         NEW local \in BOOLEAN, log[m] # <<>>, Captures(m),
         f.ctx = epoch[m], f.head = HeadOf(m), f.author \in Role(m).writers,
         Working(mem[m])
  PROVE  LET op == PreparedOp(m, f, local) IN
         Underway(signed, log[m], wal[m], op) /\ Named(signed, log[m], op)
<1> DEFINE op == PreparedOp(m, f, local)
           e == ContentEntry(m, f)
<1>1. op.frame = f /\ op.ctx = epoch[m] /\ op.revision = Len(log[m]) /\ op.entry = e
  BY DEF PreparedOp
<1>2. PICK ckpt \in BOOLEAN : /\ e.content = EntryContent(m, f, ckpt)
                              /\ e.head = HeadOf(m)
  BY ContentEntryIs
<1>3. f \in e.content /\ \A g \in e.content : g = f \/ g \in mem[m].doc
  BY <1>2 DEF EntryContent
<1>4. HeadOf(m) \in DOMAIN signed /\ HeadOf(m) \in Range(log[m]) /\ HeadOf(m) = log[m][Len(log[m])]
  BY HeadIs
<1>5. Attributed(signed, f)
  BY <1>4 DEF Attributed, Captures, Role
<1>6. \A g \in mem[m].doc : Attributed(signed, g) /\ g.head \in Range(log[m])
  BY MemberExplained DEF Shown
<1>7. \A g \in e.content : Attributed(signed, g) /\ g.head \in Range(log[m])
  BY <1>3, <1>4, <1>5, <1>6
<1>8. log[m] \in Seq(Nat)
  BY MemberTyped
<1>9. Explains(log[m], Len(log[m]), e)
  BY <1>2, <1>4, <1>7, <1>8, ExplainsHead
<1>10. \A k \in DOMAIN wal[m] : Explains(log[m], Len(log[m]), wal[m][k])
  BY MemberExplained DEF Shown
<1> HIDE DEF op, e
<1>11. Underway(signed, log[m], wal[m], op)
  BY <1>1, <1>2, <1>3, <1>4, <1>7, <1>9, <1>10 DEF Underway
<1>12. Named(signed, log[m], op)
  BY <1>1, <1>4, <1>5 DEF Named
<1> QED
  BY <1>11, <1>12 DEF op


(* Recovery under a history that extends the heads of the journal. *)
LEMMA AuthorityOpened ==
  ASSUME TypeOK, HistoryInv, AuthorityInv, NEW m \in Member, log[m] # <<>>,
         ExtendsHeads(m)
  PROVE  /\ \A f \in ReplayedContent(wal[m]) :
              Attributed(signed, f) /\ f.head \in Range(log[m])
         /\ \A k \in DOMAIN wal[m] : Explains(log[m], Len(log[m]), wal[m][k])
<1> DEFINE w == wal[m]
           h == log[m]
           r == StoredRecords(w)
<1>1. /\ h \in Seq(Nat) /\ w \in Seq(Entry) /\ r \in Seq(Nat) /\ Len(h) \in Nat
      /\ Len(h) <= Len(h)
  BY MemberTyped, ReplayedTyped
<1>2. /\ signed \in Seq(RoleRecord) /\ signed # <<>> /\ signed[1].parent = 0
      /\ History(signed, h) /\ Backed(signed, w)
      /\ \A k \in DOMAIN w : w[k].records # <<>> => History(signed, w[k].records)
  BY MemberExplained
<1>3. \A k \in DOMAIN w : Explains(r, Len(r), w[k]) /\ w[k].head \in Range(h)
  BY <1>2 DEF Backed, ExtendsHeads
<1>4. ASSUME NEW k \in DOMAIN w PROVE Explains(h, Len(h), w[k])
  <2> HIDE DEF r, w, h
  <2>1. r # <<>>
    BY <1>1, <1>3, <1>4 DEF Explains
  <2>2. History(signed, r)
    BY <1>1, <1>2, <2>1, StoredHistory DEF r
  <2> QED
    BY <1>1, <1>2, <1>3, <1>4, <2>2, ExplainsAgree
<1> HIDE DEF r, w, h
<1>5. \A k \in DOMAIN w : \A f \in w[k].content : Attributed(signed, f) /\ f.head \in Range(h)
  BY <1>1, <1>2, <1>4, ExplainedHeads DEF Backed
<1>6. \A f \in ReplayedContent(w) : \E k \in DOMAIN w : f \in w[k].content
  BY DEF ReplayedContent
<1> QED
  BY <1>4, <1>5, <1>6 DEF w, h

LEMMA AuthorityStep ==
  ASSUME ConstantsAssumption, TypeOK, TypeOK', HistoryInv, HistoryInv', AuthorityInv,
         [Next]_vars
  PROVE  AuthorityInv'
<1> DEFINE Good(q) == Explained(signed', log'[q], wal'[q], mem'[q])
<1>1. (\A q \in Member : Good(q)) => AuthorityInv'
  BY DEF AuthorityInv
<1>2. ASSUME NEW m \in Member, UNCHANGED signed, Others(m), Good(m),
             \A q \in Member \ {m} : log'[q] = log[q] /\ wal'[q] = wal[q]
      PROVE  AuthorityInv'
  <2>1. \A q \in Member \ {m} : Good(q)
    BY <1>2, SameSigned, ExplainedKept DEF Others
  <2> QED
    BY <1>1, <1>2, <2>1
<1>3. (UNCHANGED <<signed, log, mem, wal>>) => AuthorityInv'
  BY DEF AuthorityInv
<1>4. ASSUME NEW w \in Rosters, Sign(w) PROVE AuthorityInv'
  <2>1. Grows /\ UNCHANGED <<log, mem, wal>>
    BY <1>4, SignEffect DEF ConstantsAssumption
  <2> QED
    BY <1>1, <2>1, ExplainedKept
<1> HIDE DEF Good
<1>5. ASSUME NEW m \in Member, mem'[m].op = Idle, UNCHANGED <<signed, log, wal>>, Others(m),
             \A f \in mem'[m].doc : Attributed(signed, f),
             Working(mem'[m]) => Shown(log[m], wal[m], mem'[m])
      PROVE  AuthorityInv'
  <2>1. Explained(signed, log[m], wal[m], mem'[m])
    BY <1>5, MemberExplained, ExplainedIdle
  <2> QED
    BY <1>2, <1>5, <2>1 DEF Good
<1>6. ASSUME NEW m \in Member, BeginChange(m) \/ \E f \in net : BeginReceive(m, f)
      PROVE  AuthorityInv'
  <2>1. PICK f \in Frame : \E local \in BOOLEAN :
           /\ Ready(m) /\ Captures(m) /\ log[m] # <<>>
           /\ f.ctx = epoch[m] /\ f.head = HeadOf(m) /\ f.author \in Role(m).writers
           /\ Prepare(m, f, local)
           /\ UNCHANGED <<signed, log, wal>>
    BY <1>6, BeginEffect
  <2>2. PICK local \in BOOLEAN :
           /\ Ready(m) /\ Captures(m) /\ log[m] # <<>>
           /\ f.ctx = epoch[m] /\ f.head = HeadOf(m) /\ f.author \in Role(m).writers
           /\ Prepare(m, f, local)
           /\ UNCHANGED <<signed, log, wal>>
    BY <2>1
  <2> DEFINE op == PreparedOp(m, f, local)
  <2>3. /\ Others(m) /\ mem'[m].mode = mem[m].mode /\ mem'[m].doc = mem[m].doc
        /\ mem'[m].persisted = mem[m].persisted /\ mem'[m].op = op
    BY <2>2, PrepareEffect
  <2>4. op.stage = "prepared"
    BY DEF PreparedOp
  <2>5. Working(mem[m])
    BY <2>2 DEF Ready, Working
  <2>6. Underway(signed, log[m], wal[m], op) /\ Named(signed, log[m], op)
    BY <2>2, <2>5, AuthorityBegin
  <2>7. /\ \A f1 \in mem[m].doc : Attributed(signed, f1)
        /\ Backed(signed, wal[m]) /\ Shown(log[m], wal[m], mem[m])
    BY <2>5, MemberExplained
  <2> HIDE DEF op
  <2>8. Shown(log[m], wal[m], mem'[m])
    BY <2>3, <2>7 DEF Shown
  <2>9. Explained(signed, log[m], wal[m], mem'[m])
    BY <2>3, <2>4, <2>6, <2>7, <2>8 DEF Explained
  <2>10. Good(m)
    BY <2>2, <2>9 DEF Good
  <2> QED
    BY <1>2, <2>2, <2>3, <2>10
<1>7. ASSUME NEW m \in Member, Finalize(m) PROVE AuthorityInv'
  <2> DEFINE op == mem[m].op
             new == mem'[m].op
  <2>1. /\ op.stage = "prepared" /\ mem[m].mode = "open" /\ Others(m)
        /\ mem'[m].doc = mem[m].doc \cup {op.frame} /\ mem'[m].persisted = mem[m].persisted
        /\ new.stage = "committing" /\ new.local = op.local /\ new.frame = op.frame
        /\ new.entry = op.entry /\ new.revision = op.revision
        /\ UNCHANGED <<signed, log, wal>>
    BY <1>7, FinalizeEffect
  <2>2. Working(mem[m]) /\ Writing(mem[m])
    BY <2>1 DEF Working, Writing
  <2>3. /\ \A f1 \in mem[m].doc : Attributed(signed, f1)
        /\ Backed(signed, wal[m]) /\ Shown(log[m], wal[m], mem[m])
        /\ Underway(signed, log[m], wal[m], op) /\ Named(signed, log[m], op)
        /\ op.revision \in DOMAIN log[m]
    BY <2>1, <2>2, MemberExplained
  <2> HIDE DEF op, new
  <2>4. Attributed(signed, op.frame) /\ op.frame.head \in Range(log[m])
    BY <2>3 DEF Named, Range
  <2>5. Shown(log[m], wal[m], mem'[m]) /\ \A f \in mem'[m].doc : Attributed(signed, f)
    BY <2>1, <2>3, <2>4 DEF Shown
  <2>6. Underway(signed, log[m], wal[m], new)
    BY <2>1, <2>3 DEF Underway
  <2>7. Explained(signed, log[m], wal[m], mem'[m])
    BY <2>1, <2>3, <2>5, <2>6 DEF Explained, new
  <2>8. Good(m)
    BY <2>1, <2>7 DEF Good
  <2> QED
    BY <1>2, <2>1, <2>8
<1>8. ASSUME NEW m \in Member, Cancel(m) PROVE AuthorityInv'
  <2>1. /\ Others(m) /\ UNCHANGED <<signed, log, wal>> /\ mem'[m].op = Idle
        /\ \/ mem'[m].mode = "off" /\ mem'[m].doc = {}
           \/ /\ mem'[m].mode \in {mem[m].mode, "failed"}
              /\ mem'[m].doc = mem[m].doc /\ mem'[m].persisted = mem[m].persisted
    BY <1>8, CancelEffect, OffFields
  <2>2. \A f \in mem'[m].doc : Attributed(signed, f)
    BY <2>1, MemberExplained
  <2>3. Working(mem'[m]) => Working(mem[m]) /\ mem'[m].doc = mem[m].doc
                            /\ mem'[m].persisted = mem[m].persisted
    BY <2>1 DEF Working
  <2>4. Working(mem'[m]) => Shown(log[m], wal[m], mem'[m])
    BY <2>3, MemberExplained DEF Shown
  <2> QED
    BY <1>5, <2>1, <2>2, <2>4
<1>9. ASSUME NEW m \in Member, JournalCommit(m) PROVE AuthorityInv'
  <2> DEFINE op == mem[m].op
  <2>1. /\ op.stage = "committing" /\ op.entry \in Entry /\ Others(m)
        /\ \/ mem'[m].mode \in {"off", "failed"} /\ mem'[m].doc \in {{}, mem[m].doc}
           \/ /\ mem'[m].mode = mem[m].mode /\ mem'[m].doc = mem[m].doc
              /\ mem'[m].persisted = op.revision
              /\ Store(m)
        /\ mem'[m].op = Idle
        /\ Store(m) \/ wal' = wal
        /\ UNCHANGED <<signed, log>>
    BY <1>9, JournalEffect
  <2>2. Writing(mem[m]) /\ Working(mem[m])
    BY <2>1, MemberExplained DEF Writing
  <2>3. \A f \in mem'[m].doc : Attributed(signed, f)
    BY <2>1, MemberExplained
  <2>4. CASE Store(m)
    <3> DEFINE h == log[m]
               v == Accepted(wal[m], op.entry)
    <3>1. wal'[m] = v /\ \A q \in Member \ {m} : wal'[q] = wal[q]
      BY <2>1, <2>4, StoreEffect
    <3>2. h \in Seq(Nat) /\ wal[m] \in Seq(Entry)
      BY MemberTyped
    <3>3. /\ Backed(signed, wal[m]) /\ Underway(signed, h, wal[m], op)
          /\ op.revision \in DOMAIN h
          /\ Shown(h, wal[m], mem[m])
      BY <2>2, MemberExplained
    <3>4. \/ Begins(op.entry.records, h, op.revision)
          \/ /\ op.entry.records = <<>> /\ ~op.entry.ckpt
             /\ mem[m].persisted = op.revision
      BY <2>2, MemberExplained
    <3> HIDE DEF op, v, h
    <3>5. op.revision # 0
      BY <3>2, <3>3
    <3>6. \/ Begins(op.entry.records, h, op.revision)
          \/ /\ op.entry.records = <<>> /\ ~op.entry.ckpt
             /\ Begins(StoredRecords(wal[m]), h, op.revision)
      BY <3>3, <3>4, <3>5 DEF Shown
    <3>7. /\ Backed(signed, v) /\ Begins(StoredRecords(v), h, op.revision)
          /\ \A k \in DOMAIN v : Explains(h, Len(h), v[k])
      BY <2>1, <3>2, <3>3, <3>6, BackedAccepted DEF v
    <3>8. Working(mem'[m]) => mem'[m].doc = mem[m].doc /\ mem'[m].persisted = op.revision
      BY <2>1 DEF Working
    <3>9. Working(mem'[m]) => Shown(h, v, mem'[m])
      BY <3>3, <3>7, <3>8 DEF Shown
    <3>10. Explained(signed, h, v, mem'[m])
      BY <2>1, <2>3, <3>7, <3>9, ExplainedIdle
    <3>11. Good(m)
      BY <2>1, <3>1, <3>10 DEF Good, h
    <3> QED
      BY <1>2, <2>1, <3>1, <3>11
  <2>5. CASE wal' = wal /\ mem'[m].mode \in {"off", "failed"}
    <3>1. ~Working(mem'[m])
      BY <2>5 DEF Working
    <3> QED
      BY <1>5, <2>1, <2>3, <2>5, <3>1
  <2> QED
    BY <2>1, <2>4, <2>5

<1>10. ASSUME NEW m \in Member, NEW i \in DOMAIN signed, Install(m, i)
       PROVE  /\ log[m] # <<>> /\ log'[m] = Append(log[m], i)
              /\ \A q \in Member \ {m} : log'[q] = log[q]
              /\ log[m] \in Seq(Nat) /\ i \in Nat
              /\ \A f \in mem[m].doc : f.head \in Range(log[m]) => f.ctx < signed[i].ctx
              /\ log'[m][Len(log'[m])] = i
  <2>1. /\ log[m] # <<>> /\ signed[i].ctx > Role(m).ctx /\ log'[m] = Append(log[m], i)
        /\ \A q \in Member \ {m} : log'[q] = log[q]
    BY <1>10, InstallEffect
  <2>2. log[m] \in Seq(Nat) /\ i \in Nat /\ \A k \in DOMAIN signed : signed[k].ctx \in Nat
    BY MemberTyped, SignedTyped, MemberExplained
  <2>3. \A f \in mem[m].doc : f.head \in DOMAIN signed /\ f.ctx = signed[f.head].ctx
    BY MemberExplained DEF Attributed
  <2>4. /\ HeadOf(m) \in DOMAIN signed
        /\ \A k \in Range(log[m]) : signed[k].ctx <= Role(m).ctx
    BY <2>1, HeadIs
  <2>5. Role(m).ctx \in Nat
    BY <2>2, <2>4 DEF Role
  <2>6. \A f \in mem[m].doc : f.head \in Range(log[m]) => f.ctx < signed[i].ctx
    BY <2>1, <2>2, <2>3, <2>4, <2>5
  <2>7. log'[m][Len(log'[m])] = i
    BY <2>1, <2>2
  <2> QED
    BY <2>1, <2>2, <2>6, <2>7
<1>11. ASSUME NEW m \in Member, NEW i \in DOMAIN signed, ApplyUpdate(m, i)
       PROVE  AuthorityInv'
  <2> DEFINE h == log[m]
             x == mem[m]
  <2>1. Install(m, i) /\ UNCHANGED <<signed, mem, wal>>
    BY <1>11 DEF ApplyUpdate
  <2>2. /\ log'[m] = Append(h, i) /\ \A q \in Member \ {m} : log'[q] = log[q]
        /\ h \in Seq(Nat) /\ i \in Nat
        /\ \A f \in x.doc : f.head \in Range(h) => f.ctx < signed[i].ctx
        /\ Append(h, i)[Len(Append(h, i))] = i
    BY <1>10, <2>1
  <2>3. /\ \A f \in x.doc : Attributed(signed, f)
        /\ Backed(signed, wal[m])
        /\ Working(x) => Shown(h, wal[m], x)
        /\ x.op.stage # "idle" => Working(x)
        /\ Writing(x) => /\ Underway(signed, h, wal[m], x.op)
                         /\ x.op.revision \in DOMAIN h
        /\ x.op.stage = "prepared" => Named(signed, h, x.op)
    BY MemberExplained
  <2> HIDE DEF h, x
  <2>4. Working(x) => Shown(Append(h, i), wal[m], x)
    BY <2>2, <2>3, ShownExtends
  <2>5. Writing(x) => Underway(signed, Append(h, i), wal[m], x.op)
    BY <2>2, <2>3, ShownExtends
  <2>6. x.op.stage = "prepared" => Named(signed, Append(h, i), x.op)
    BY <2>2, <2>3, ShownExtends DEF Writing
  <2>7. x.op.stage = "role" =>
          \A f \in x.doc : f.ctx < signed[Append(h, i)[Len(Append(h, i))]].ctx
    BY <2>2, <2>3 DEF Shown
  <2>8. Explained(signed, Append(h, i), wal[m], x)
    BY <2>3, <2>4, <2>5, <2>6, <2>7 DEF Explained
  <2>9. Good(m) /\ Others(m)
    BY <2>1, <2>2, <2>8 DEF Good, Others, x
  <2> QED
    BY <1>2, <2>1, <2>2, <2>9
<1>12. ASSUME NEW m \in Member, NEW i \in DOMAIN signed, BeginRole(m, i)
       PROVE  AuthorityInv'
  <2> DEFINE h == log[m]
             x == mem'[m]
  <2>1. /\ Install(m, i) /\ UNCHANGED <<signed, wal>> /\ Others(m) /\ Ready(m)
        /\ x.mode = mem[m].mode /\ x.doc = mem[m].doc /\ x.persisted = mem[m].persisted
        /\ x.op = [stage |-> "role"]
    BY <1>12, BeginRoleEffect
  <2>2. /\ log'[m] = Append(h, i) /\ \A q \in Member \ {m} : log'[q] = log[q]
        /\ h \in Seq(Nat) /\ i \in Nat
        /\ \A f \in x.doc : f.head \in Range(h) => f.ctx < signed[i].ctx
        /\ Append(h, i)[Len(Append(h, i))] = i
    BY <1>10, <2>1
  <2>3. /\ \A f \in mem[m].doc : Attributed(signed, f)
        /\ Backed(signed, wal[m])
        /\ Shown(h, wal[m], mem[m])
    BY <2>1, MemberExplained DEF Ready, Working
  <2> HIDE DEF h, x
  <2>4. Shown(h, wal[m], x)
    BY <2>1, <2>3 DEF Shown
  <2>5. Shown(Append(h, i), wal[m], x)
    BY <2>2, <2>4, ShownExtends
  <2>6. \A f \in x.doc : f.ctx < signed[Append(h, i)[Len(Append(h, i))]].ctx
    BY <2>2, <2>4 DEF Shown
  <2>7. x.op.stage = "role" /\ ~Writing(x)
    BY <2>1 DEF Writing
  <2>8. Explained(signed, Append(h, i), wal[m], x)
    BY <2>1, <2>3, <2>5, <2>6, <2>7 DEF Explained
  <2>9. Good(m)
    BY <2>1, <2>2, <2>8 DEF Good, x
  <2> QED
    BY <1>2, <2>1, <2>2, <2>9
<1>13. ASSUME NEW m \in Member, RoleCheckpoint(m) PROVE AuthorityInv'
  <2> DEFINE x == mem'[m]
  <2>1. /\ mem[m].op.stage = "role" /\ Others(m) /\ UNCHANGED <<signed, log, wal>>
        /\ \/ /\ log[m] # <<>>
              /\ x.mode = mem[m].mode /\ x.doc = mem[m].doc /\ x.persisted = mem[m].persisted
              /\ x.op.stage = "committing" /\ x.op.local = FALSE
              /\ x.op.revision = Len(log[m]) /\ x.op.entry = RoleEntry(m)
           \/ x.mode = "failed" /\ x.doc = mem[m].doc /\ x.op = Idle
    BY <1>13, RoleCheckpointEffect
  <2>2. /\ \A f \in mem[m].doc : Attributed(signed, f)
        /\ Backed(signed, wal[m])
        /\ Shown(log[m], wal[m], mem[m])
    BY <2>1, MemberExplained
  <2>3. CASE x.mode = "failed" /\ x.doc = mem[m].doc /\ x.op = Idle
    <3>1. ~Working(mem'[m])
      BY <2>3 DEF Working
    <3> QED
      BY <1>5, <2>1, <2>2, <2>3, <3>1
  <2>4. CASE /\ log[m] # <<>>
             /\ x.mode = mem[m].mode /\ x.doc = mem[m].doc /\ x.persisted = mem[m].persisted
             /\ x.op.stage = "committing" /\ x.op.local = FALSE
             /\ x.op.revision = Len(log[m]) /\ x.op.entry = RoleEntry(m)
    <3> DEFINE e == RoleEntry(m)
    <3>1. e.content = mem[m].doc /\ e.head = log[m][Len(log[m])]
      BY RoleEntryIs DEF HeadOf
    <3>2. log[m] \in Seq(Nat)
      BY MemberTyped
    <3> HIDE DEF e, x
    <3>3. Explains(log[m], Len(log[m]), e)
      BY <2>2, <2>4, <3>1, <3>2, ExplainsHead DEF Shown
    <3>4. Underway(signed, log[m], wal[m], x.op)
      BY <2>2, <2>4, <3>1, <3>3 DEF Underway, Shown, e
    <3>5. Shown(log[m], wal[m], x)
      BY <2>2, <2>4 DEF Shown
    <3>6. Explained(signed, log[m], wal[m], x)
      BY <2>2, <2>4, <3>4, <3>5 DEF Explained
    <3>7. Good(m)
      BY <2>1, <3>6 DEF Good, x
    <3> QED
      BY <1>2, <2>1, <3>7
  <2> QED
    BY <2>1, <2>3, <2>4
<1>14. ASSUME NEW m \in Member, AdvanceEpoch(m) PROVE AuthorityInv'
  BY <1>3, <1>14 DEF AdvanceEpoch
<1>15. ASSUME NEW m \in Member, Publish(m) PROVE AuthorityInv'
  BY <1>3, <1>15, PublishEffect
<1>16. ASSUME NEW m \in Member, Crash(m) PROVE AuthorityInv'
  <2>1. /\ Others(m) /\ mem'[m] = Off /\ UNCHANGED <<signed, wal>>
        /\ \A q \in Member \ {m} : log'[q] = log[q]
    BY <1>16, CrashEffect
  <2>2. Backed(signed, wal[m])
    BY MemberExplained
  <2>3. ~Working(Off) /\ Off.op = Idle /\ Off.doc = {}
    BY OffFields DEF Working
  <2>4. Explained(signed, log'[m], wal[m], Off)
    BY <2>2, <2>3, ExplainedIdle
  <2>5. Good(m)
    BY <2>1, <2>4 DEF Good
  <2> QED
    BY <1>2, <2>1, <2>5
<1>17. ASSUME NEW m \in Member, Close(m) PROVE AuthorityInv'
  <2>1. /\ Others(m) /\ UNCHANGED <<signed, log, wal>>
        /\ \/ mem'[m] = Off
           \/ /\ mem[m].op # Idle /\ mem'[m].mode = "closing"
              /\ mem'[m].doc = mem[m].doc
              /\ mem'[m].persisted = mem[m].persisted /\ mem'[m].op = mem[m].op
    BY <1>17, CloseEffect
  <2>2. CASE mem'[m] = Off
    <3>1. ~Working(mem'[m]) /\ mem'[m].op = Idle /\ mem'[m].doc = {}
      BY <2>2, OffFields DEF Working
    <3> QED
      BY <1>5, <2>1, <3>1
  <2>3. CASE /\ mem[m].op # Idle /\ mem'[m].mode = "closing" /\ mem'[m].doc = mem[m].doc
             /\ mem'[m].persisted = mem[m].persisted /\ mem'[m].op = mem[m].op
    <3>1. mem[m].op.stage # "idle"
      BY <2>3, MemberTyped, OperationTyped
    <3>2. Working(mem[m])
      BY <3>1, MemberExplained
    <3>3. Shown(log[m], wal[m], mem[m]) /\ Explained(signed, log[m], wal[m], mem[m])
      BY <3>2, MemberExplained DEF AuthorityInv
    <3>4. Shown(log[m], wal[m], mem'[m])
      BY <2>3, <3>3 DEF Shown
    <3>5. Explained(signed, log[m], wal[m], mem'[m])
      BY <2>3, <3>3, <3>4 DEF Explained, Writing
    <3>6. Good(m)
      BY <2>1, <3>5 DEF Good
    <3> QED
      BY <1>2, <2>1, <3>6
  <2> QED
    BY <2>1, <2>2, <2>3
<1>18. ASSUME NEW m \in Member, Provision(m) PROVE AuthorityInv'
  <2>1. /\ log[m] = <<>> /\ UNCHANGED <<signed, mem, wal>>
        /\ \A q \in Member \ {m} : log'[q] = log[q]
    BY <1>18, ProvisionEffect
  <2>2. /\ mem[m].mode = "off" /\ mem[m].op.stage = "idle"
        /\ Backed(signed, wal[m]) /\ \A f \in mem[m].doc : Attributed(signed, f)
    BY <2>1, MemberExplained
  <2>3. ~Working(mem[m]) /\ mem[m].op = Idle
    BY <2>2, MemberTyped, OperationTyped DEF Working
  <2>4. Explained(signed, log'[m], wal[m], mem[m])
    BY <2>2, <2>3, ExplainedIdle
  <2>5. Good(m) /\ Others(m)
    BY <2>1, <2>4 DEF Good, Others
  <2> QED
    BY <1>2, <2>1, <2>5
<1>19. ASSUME NEW m \in Member, Open(m) PROVE AuthorityInv'
  <2>1. /\ log[m] # <<>> /\ Others(m) /\ UNCHANGED <<signed, log, wal>> /\ mem'[m].op = Idle
        /\ \/ /\ ExtendsHeads(m) /\ mem'[m].mode = "open"
              /\ mem'[m].doc = ReplayedContent(wal[m]) /\ mem'[m].persisted = 0
           \/ mem'[m].mode = "failed" /\ mem'[m].doc = {}
    BY <1>19, OpenEffect
  <2>2. CASE mem'[m].mode = "failed" /\ mem'[m].doc = {}
    BY <1>5, <2>1, <2>2 DEF Working
  <2>3. CASE /\ ExtendsHeads(m) /\ mem'[m].mode = "open"
             /\ mem'[m].doc = ReplayedContent(wal[m]) /\ mem'[m].persisted = 0
    <3>1. /\ \A f \in ReplayedContent(wal[m]) :
               Attributed(signed, f) /\ f.head \in Range(log[m])
          /\ \A k \in DOMAIN wal[m] : Explains(log[m], Len(log[m]), wal[m][k])
      BY <2>1, <2>3, AuthorityOpened
    <3>2. Shown(log[m], wal[m], mem'[m])
      BY <2>3, <3>1 DEF Shown
    <3> QED
      BY <1>5, <2>1, <2>3, <3>1, <3>2
  <2> QED
    BY <2>1, <2>2, <2>3
<1>20. CASE Next
  BY <1>20, <1>4, <1>6, <1>7, <1>8, <1>9, <1>11, <1>12, <1>13, <1>14, <1>15, <1>16,
     <1>17, <1>18, <1>19 DEF Next
<1>21. CASE UNCHANGED vars
  BY <1>3, <1>21 DEF vars
<1> QED
  BY <1>20, <1>21


-----------------------------------------------------------------------------
(* The third layer: the document is what its journal rebuilds. *)

(* The content of one author in one context. *)
Held(content, a, ctx) == {f \in content : f.author = a /\ f.ctx = ctx}

ExactFor(held, r) ==
  /\ Cardinality(held) = r.seq
  /\ {f.seq : f \in held} = 1 .. r.seq
  /\ \A f \in held :
       \/ f.seq = r.seq /\ f.n = r.n
       \/ \E g \in held : g.seq = f.seq + 1 /\ g.parent = f.n

LEMMA ExactIs ==
  ASSUME NEW D, NEW rs, NEW c
  PROVE  Exact(D, rs, c) <=> \A a \in Member : ExactFor(Held(D, a, c), rs[a])
BY DEF Exact, ExactFor, Held

LEMMA ExactNothing == ExactFor({}, NoReceipt)
<1>1. Cardinality({}) = 0
  BY FS_EmptySet
<1>2. 1 .. 0 = {}
  OBVIOUS
<1> QED
  BY <1>1, <1>2 DEF ExactFor, NoReceipt

(* In a context that no content has, nothing is received yet. *)
LEMMA ExactFresh ==
  ASSUME NEW D, NEW c, \A f \in D : f.ctx # c
  PROVE  Exact(D, NoReceipts, c)
<1>1. \A a \in Member : Held(D, a, c) = {} /\ NoReceipts[a] = NoReceipt
  BY DEF Held, NoReceipts
<1> QED
  BY <1>1, ExactNothing, ExactIs

(* The receipts that count in the context of now. *)
LEMMA ExactNow ==
  ASSUME NEW D \in SUBSET Frame, NEW x, NEW l \in Nat, NEW c \in Nat, l <= c,
         Exact(D, x.receipts, l), \A f \in D : f.ctx <= l, x.rctx = l
  PROVE  Exact(D, Receipts(x, c), c)
<1>1. CASE l = c
  BY <1>1 DEF Receipts
<1>2. CASE l # c
  <2>1. \A f \in D : f.ctx \in Nat
    BY FrameTyped
  <2>2. \A f \in D : f.ctx # c
    BY <1>2, <2>1
  <2> QED
    BY <1>2, <2>2, ExactFresh DEF Receipts
<1> QED
  BY <1>1, <1>2

(* One more frame of an author whose next frame it is. *)
LEMMA ExactForAdds ==
  ASSUME NEW H \in SUBSET Frame, IsFiniteSet(H), NEW r \in Receipt, ExactFor(H, r),
         NEW f \in Frame, Admits(r, f)
  PROVE  /\ \A g \in H : g.seq # f.seq
         /\ ExactFor(H \cup {f}, [seq |-> f.seq, n |-> f.n])
<1> DEFINE G == H \cup {f}
           s == r.seq
<1>1. s \in Nat /\ f.seq = s + 1 /\ f.parent = r.n /\ \A g \in H : g.seq \in Nat
  BY FrameTyped DEF Admits, Receipt
<1>2. Cardinality(H) = s /\ {g.seq : g \in H} = 1 .. s
  BY DEF ExactFor
<1>3. \A g \in H : g.seq \in 1 .. s
  BY <1>2
<1>4. \A g \in H : g.seq # f.seq
  BY <1>1, <1>3
<1>5. f \notin H
  BY <1>4
<1>6. Cardinality(G) = s + 1
  BY <1>2, <1>5, FS_AddElement
<1>7. {g.seq : g \in G} = 1 .. (s + 1)
  <2>1. \A k : k \in {g.seq : g \in G} <=> k \in {g.seq : g \in H} \/ k = f.seq
    OBVIOUS
  <2> HIDE DEF s, G
  <2>2. \A k : k \in 1 .. (s + 1) <=> k \in 1 .. s \/ k = s + 1
    BY <1>1
  <2> QED
    BY <1>1, <1>2, <2>1, <2>2
<1>8. ASSUME NEW g \in H
      PROVE  \E g2 \in G : g2.seq = g.seq + 1 /\ g2.parent = g.n
  <2>1. \/ g.seq = s /\ g.n = r.n
        \/ \E g2 \in H : g2.seq = g.seq + 1 /\ g2.parent = g.n
    BY <1>8 DEF ExactFor
  <2>2. CASE g.seq = s /\ g.n = r.n
    BY <1>1, <2>2
  <2> QED
    BY <2>1, <2>2
<1> HIDE DEF G
<1>9. ExactFor(G, [seq |-> f.seq, n |-> f.n])
  <2> DEFINE q == [seq |-> f.seq, n |-> f.n]
  <2>1. q.seq = s + 1 /\ q.seq = f.seq /\ q.n = f.n
    BY <1>1
  <2>2. \A g \in G : g = f \/ g \in H
    BY DEF G
  <2> HIDE DEF q
  <2>3. \A g \in G : \/ g.seq = q.seq /\ g.n = q.n
                     \/ \E g2 \in G : g2.seq = g.seq + 1 /\ g2.parent = g.n
    BY <1>8, <2>1, <2>2
  <2>4. ExactFor(G, q)
    BY <1>6, <1>7, <2>1, <2>3 DEF ExactFor
  <2> QED
    BY <2>4 DEF q
<1> QED
  BY <1>4, <1>9 DEF G

LEMMA ExactAdds ==
  ASSUME NEW D \in SUBSET Frame, IsFiniteSet(D), NEW rs \in [Member -> Receipt], NEW c,
         Exact(D, rs, c), NEW f \in Frame, f.ctx = c, Admits(rs[f.author], f)
  PROVE  /\ \A g \in D : g.author = f.author /\ g.ctx = c => g.seq # f.seq
         /\ Exact(D \cup {f}, Accept(rs, f), c)
<1> DEFINE b == f.author
<1>1. b \in Member /\ rs[b] \in Receipt
  BY FrameTyped
<1>2. Held(D, b, c) \in SUBSET Frame /\ IsFiniteSet(Held(D, b, c))
  <2>1. Held(D, b, c) \subseteq D
    BY DEF Held
  <2> QED
    BY <2>1, FS_Subset
<1>3. ExactFor(Held(D, b, c), rs[b])
  BY <1>1, ExactIs
<1>4. /\ \A g \in Held(D, b, c) : g.seq # f.seq
      /\ ExactFor(Held(D, b, c) \cup {f}, [seq |-> f.seq, n |-> f.n])
  BY <1>1, <1>2, <1>3, ExactForAdds
<1>5. Held(D \cup {f}, b, c) = Held(D, b, c) \cup {f}
  BY DEF Held
<1>6. \A a \in Member : a # b => Held(D \cup {f}, a, c) = Held(D, a, c)
  BY DEF Held
<1>7. /\ Accept(rs, f)[b] = [seq |-> f.seq, n |-> f.n]
      /\ \A a \in Member : a # b => Accept(rs, f)[a] = rs[a]
  BY <1>1 DEF Accept
<1>8. \A a \in Member : ExactFor(Held(D, a, c), rs[a])
  BY ExactIs
<1>9. \A a \in Member : ExactFor(Held(D \cup {f}, a, c), Accept(rs, f)[a])
  <2> SUFFICES ASSUME NEW a \in Member
               PROVE ExactFor(Held(D \cup {f}, a, c), Accept(rs, f)[a])
    OBVIOUS
  <2>1. CASE a = b
    BY <1>4, <1>5, <1>7, <2>1
  <2>2. CASE a # b
    BY <1>6, <1>7, <1>8, <2>2
  <2> QED
    BY <2>1, <2>2
<1>10. Exact(D \cup {f}, Accept(rs, f), c)
  BY <1>9, ExactIs
<1>11. \A g \in D : g.author = f.author /\ g.ctx = c => g.seq # f.seq
  BY <1>4 DEF Held
<1> QED
  BY <1>10, <1>11


(* Acceptance of the entry of a frame: the receipts of its entry and of     *)
(* the journal before it together are those the document keeps.             *)
LEMMA EntryReceiptsIs ==
  ASSUME NEW R \in [Member -> Receipt], NEW f \in Frame, NEW ckpt, NEW a \in Member
  PROVE  LET rs == EntryReceipts(R, f, ckpt) IN
         /\ a \in DOMAIN rs => rs[a] = Accept(R, f)[a]
         /\ a \notin DOMAIN rs /\ ckpt => Accept(R, f)[a] = NoReceipt
         /\ a \notin DOMAIN rs /\ ~ckpt => a # f.author /\ Accept(R, f)[a] = R[a]
         /\ DOMAIN rs \subseteq Member
         /\ ~ckpt => DOMAIN rs = {f.author} /\ rs[f.author].seq = f.seq
<1> DEFINE N == Accept(R, f)
           S == IF ckpt THEN Known(N) ELSE {f.author}
           rs == EntryReceipts(R, f, ckpt)
<1>1. f.author \in Member
  BY FrameTyped
<1>2. N \in [Member -> Receipt]
  BY FrameTyped DEF Accept
<1>3. /\ N[f.author] = [seq |-> f.seq, n |-> f.n]
      /\ \A b \in Member : b # f.author => N[b] = R[b]
  BY <1>1 DEF Accept
<1>4. S \in SUBSET Member
  BY <1>1 DEF Known
<1>5. rs = Restrict(N, S)
  BY DEF EntryReceipts
<1>6. ckpt => \A b \in Member : b \notin S => N[b] = NoReceipt
  BY DEF Known
<1>7. ~ckpt => S = {f.author}
  OBVIOUS
<1> HIDE DEF N, S, rs
<1>8. DOMAIN rs = S /\ \A b \in S : rs[b] = N[b]
  BY <1>2, <1>4, <1>5, RestrictTyped
<1>9. N[f.author].seq = f.seq
  BY <1>3
<1>10. a \in DOMAIN rs => rs[a] = N[a]
  BY <1>8
<1>11. /\ a \notin DOMAIN rs /\ ckpt => N[a] = NoReceipt
       /\ a \notin DOMAIN rs /\ ~ckpt => a # f.author /\ N[a] = R[a]
  BY <1>3, <1>6, <1>7, <1>8
<1>12. ~ckpt => DOMAIN rs = {f.author} /\ rs[f.author].seq = f.seq
  BY <1>7, <1>8, <1>9
<1> QED
  BY <1>4, <1>8, <1>10, <1>11, <1>12 DEF N, rs

LEMMA EntryKeeps ==
  ASSUME NEW R \in [Member -> Receipt], NEW f \in Frame, NEW e \in Entry,
         e.receipts = EntryReceipts(R, f, e.ckpt), NEW a \in Member
  PROVE  LET rs == e.receipts IN
         /\ a \in DOMAIN rs => rs[a] = Accept(R, f)[a]
         /\ a \notin DOMAIN rs /\ e.ckpt => Accept(R, f)[a] = NoReceipt
         /\ a \notin DOMAIN rs /\ ~e.ckpt => a # f.author /\ Accept(R, f)[a] = R[a]
         /\ DOMAIN rs \subseteq Member
         /\ ~e.ckpt => DOMAIN rs = {f.author} /\ rs[f.author].seq = f.seq
<1>1. LET rs == EntryReceipts(R, f, e.ckpt) IN
      /\ a \in DOMAIN rs => rs[a] = Accept(R, f)[a]
      /\ a \notin DOMAIN rs /\ e.ckpt => Accept(R, f)[a] = NoReceipt
      /\ a \notin DOMAIN rs /\ ~e.ckpt => a # f.author /\ Accept(R, f)[a] = R[a]
      /\ DOMAIN rs \subseteq Member
      /\ ~e.ckpt => DOMAIN rs = {f.author} /\ rs[f.author].seq = f.seq
  BY EntryReceiptsIs
<1> QED
  BY <1>1

(* The receipts of the context of now are what the journal's next entry     *)
(* builds on.                                                               *)
LEMMA ReceiptsContinue ==
  ASSUME NEW w \in Seq(Entry), NEW e \in Entry, NEW x, NEW c \in Nat \ {0},
         x.rctx = LastCtx(w), x.receipts = ReplayedReceipts(w, Len(w)), e.ctx = c,
         NEW a \in Member
  PROVE  ~e.ckpt => Receipts(x, c)[a] = IF Renews(w, e) THEN NoReceipt
                                        ELSE ReplayedReceipts(w, Len(w))[a]
<1>1. CASE w = <<>>
  <2>1. LastCtx(w) # c
    BY <1>1 DEF LastCtx
  <2> QED
    BY <1>1, <2>1 DEF Receipts, Renews, NoReceipts
<1>2. CASE w # <<>>
  BY <1>2 DEF Receipts, Renews, NoReceipts
<1> QED
  BY <1>1, <1>2

(* e is the entry of frame f, prepared for document x in context c. *)
FrameEntry(e, f, x, c) ==
  /\ f.ctx = c /\ e.ctx = c /\ f.deps \subseteq Ids(x.doc)
  /\ e.content = IF e.ckpt THEN x.doc \cup {f} ELSE {f}
  /\ Admits(Receipts(x, c)[f.author], f)
  /\ e.receipts = EntryReceipts(Receipts(x, c), f, e.ckpt)

LEMMA SoundFrame ==
  ASSUME NEW w \in Seq(Entry), NEW e \in Entry, NEW f \in Frame,
         NEW x, NEW c \in Nat \ {0}, Sound(w), LastCtx(w) <= c,
         x.doc = ReplayedContent(w), x.rctx = LastCtx(w),
         x.receipts = ReplayedReceipts(w, Len(w)), x.receipts \in [Member -> Receipt],
         FrameEntry(e, f, x, c)
  PROVE  LET v == Accepted(w, e) IN
         /\ Sound(v)
         /\ ReplayedContent(v) = x.doc \cup {f}
         /\ ReplayedReceipts(v, Len(v)) = Accept(Receipts(x, c), f)
         /\ LastCtx(v) = c
<1> DEFINE v == Accepted(w, e)
           D == x.doc
           R == Receipts(x, c)
           N == Accept(R, f)
<1>0. /\ f.ctx = c /\ e.ctx = c /\ f.deps \subseteq Ids(x.doc)
      /\ e.content = IF e.ckpt THEN x.doc \cup {f} ELSE {f}
      /\ Admits(Receipts(x, c)[f.author], f)
      /\ e.receipts = EntryReceipts(Receipts(x, c), f, e.ckpt)
  BY DEF FrameEntry
<1> USE <1>0
<1>1. /\ D \in SUBSET Frame /\ LastCtx(w) \in Nat
      /\ IsFiniteSet(D) /\ Exact(D, x.receipts, LastCtx(w)) /\ ReplayValid(w)
      /\ \A g \in D : g.ctx <= LastCtx(w) /\ g.deps \subseteq Ids(D)
      /\ \A g, h \in D : g.author = h.author /\ g.ctx = h.ctx /\ g.seq = h.seq => g = h
  BY ReplayedTyped DEF Sound
<1>2. R \in [Member -> Receipt]
  <2>1. NoReceipts \in [Member -> Receipt]
    BY DEF NoReceipts, NoReceipt, Receipt
  <2> QED
    BY <2>1 DEF Receipts
<1>3. Exact(D, R, c)
  BY <1>1, ExactNow
<1>4. e.ckpt \in BOOLEAN /\ f.author \in Member
  BY EntryTyped, FrameTyped
<1>40. ASSUME NEW a \in Member
       PROVE  LET rs == e.receipts IN
              /\ a \in DOMAIN rs => rs[a] = N[a]
              /\ a \notin DOMAIN rs /\ e.ckpt => N[a] = NoReceipt
              /\ a \notin DOMAIN rs /\ ~e.ckpt => a # f.author /\ N[a] = R[a]
              /\ DOMAIN rs \subseteq Member
              /\ ~e.ckpt => DOMAIN rs = {f.author} /\ rs[f.author].seq = f.seq
  <2> HIDE DEF R
  <2>1. e.receipts = EntryReceipts(R, f, e.ckpt)
    BY DEF R
  <2> QED
    BY <1>2, <2>1, EntryKeeps
<1>5. ReplayedContent(v) = D \cup {f}
  BY AcceptedContent
<1>6. LastCtx(v) = c
  <2>1. v # <<>> /\ v[Len(v)] = e
    BY AcceptedEntries
  <2> HIDE DEF v
  <2> QED
    BY <2>1 DEF LastCtx
<1>7. v \in Seq(Entry) /\ Len(v) \in Nat
  BY AcceptedEntries
<1>8. ASSUME NEW a \in Member PROVE ReplayedReceipts(v, Len(v))[a] = N[a]
  <2>1. ReplayedReceipts(v, Len(v))[a] =
          IF a \in DOMAIN e.receipts THEN e.receipts[a]
          ELSE IF Renews(w, e) THEN NoReceipt
          ELSE ReplayedReceipts(w, Len(w))[a]
    BY AcceptedReceipts
  <2>2. /\ a \in DOMAIN e.receipts => e.receipts[a] = N[a]
        /\ a \notin DOMAIN e.receipts =>
             IF e.ckpt THEN N[a] = NoReceipt ELSE N[a] = R[a]
    <3> HIDE DEF N, R
    <3> QED
      BY <1>40
  <2>3. ~e.ckpt => R[a] = IF Renews(w, e) THEN NoReceipt
                          ELSE ReplayedReceipts(w, Len(w))[a]
    BY ReceiptsContinue
  <2>4. e.ckpt => Renews(w, e)
    BY DEF Renews
  <2> HIDE DEF v, N, R
  <2> QED
    BY <2>1, <2>2, <2>3, <2>4
<1>9. ReplayedReceipts(v, Len(v)) = N
  <2>1. N \in [Member -> Receipt]
    BY <1>2, FrameTyped DEF Accept
  <2>2. ReplayedReceipts(v, Len(v)) = [a \in Member |-> ReplayedReceipts(v, Len(v))[a]]
    BY <1>7, ReplayedDomain
  <2> HIDE DEF N, v
  <2> QED
    BY <1>8, <2>1, <2>2
<1>10. /\ \A g \in D : g.author = f.author /\ g.ctx = c => g.seq # f.seq
       /\ Exact(D \cup {f}, N, c)
  BY <1>1, <1>2, <1>3, ExactAdds
<1>11. ReplayValid(v)
  <2>1. ~e.ckpt => \A a \in DOMAIN e.receipts :
          e.receipts[a].seq =
            1 + (IF Renews(w, e) THEN 0 ELSE ReplayedReceipts(w, Len(w))[a].seq)
    <3> SUFFICES ASSUME ~e.ckpt, NEW a \in DOMAIN e.receipts
                 PROVE e.receipts[a].seq =
                   1 + (IF Renews(w, e) THEN 0 ELSE ReplayedReceipts(w, Len(w))[a].seq)
      OBVIOUS
    <3>1. a = f.author /\ e.receipts[a].seq = f.seq
      BY <1>4, <1>40
    <3>2. f.seq = R[a].seq + 1 /\ R[a].seq \in Nat
      BY <1>2, <1>4, <3>1 DEF Admits, Receipt
    <3>3. R[a] = IF Renews(w, e) THEN NoReceipt ELSE ReplayedReceipts(w, Len(w))[a]
      BY <1>4, <3>1, ReceiptsContinue
    <3>4. NoReceipt.seq = 0
      BY DEF NoReceipt
    <3> HIDE DEF R
    <3> QED
      BY <3>1, <3>2, <3>3, <3>4
  <2> QED
    BY <1>1, <2>1, AcceptedValid
<1>12. IsFiniteSet(D \cup {f})
  BY <1>1, FS_AddElement
<1>13. \A g \in D \cup {f} : g.ctx <= c /\ g.deps \subseteq Ids(D \cup {f})
  <2>1. Ids(D) \subseteq Ids(D \cup {f})
    BY DEF Ids
  <2>2. \A g \in D : g.ctx \in Nat
    BY <1>1, FrameTyped
  <2>3. \A g \in D : g.ctx <= c
    BY <1>1, <2>2
  <2> HIDE DEF D
  <2>4. f.deps \subseteq Ids(D)
    BY DEF D
  <2>5. f.ctx <= c
    OBVIOUS
  <2>8. f.deps \subseteq Ids(D \cup {f})
    BY <2>1, <2>4
  <2>6. \A g \in D : g.deps \subseteq Ids(D)
    BY <1>1
  <2>7. \A g \in D : g.ctx <= c /\ g.deps \subseteq Ids(D \cup {f})
    BY <2>1, <2>3, <2>6
  <2> QED
    BY <2>5, <2>7, <2>8
<1>14. \A g, h \in D \cup {f} :
         g.author = h.author /\ g.ctx = h.ctx /\ g.seq = h.seq => g = h
  <2> HIDE DEF D
  <2> QED
    BY <1>1, <1>10
<1> HIDE DEF v, N, R, D
<1>15. Sound(v)
  BY <1>5, <1>6, <1>9, <1>10, <1>11, <1>12, <1>13, <1>14 DEF Sound
<1> QED
  BY <1>5, <1>6, <1>9, <1>15 DEF v, N, R, D

(* The checkpoint of a new role record: the same content, no receipts. *)
LEMMA SoundRole ==
  ASSUME NEW w \in Seq(Entry), NEW e \in Entry, NEW c \in Nat \ {0}, Sound(w),
         e.ckpt, e.ctx = c, e.content = ReplayedContent(w), e.receipts = <<>>,
         \A f \in ReplayedContent(w) : f.ctx < c
  PROVE  LET v == Accepted(w, e) IN
         /\ Sound(v)
         /\ ReplayedContent(v) = ReplayedContent(w)
         /\ ReplayedReceipts(v, Len(v)) = NoReceipts
         /\ LastCtx(v) = c
<1> DEFINE v == Accepted(w, e)
           D == ReplayedContent(w)
<1>1. /\ D \in SUBSET Frame /\ IsFiniteSet(D) /\ ReplayValid(w)
      /\ \A g \in D : g.deps \subseteq Ids(D)
      /\ \A g, h \in D : g.author = h.author /\ g.ctx = h.ctx /\ g.seq = h.seq => g = h
  BY ReplayedTyped DEF Sound
<1>2. ReplayedContent(v) = D
  BY AcceptedContent
<1>3. LastCtx(v) = c
  <2>1. v # <<>> /\ v[Len(v)] = e
    BY AcceptedEntries
  <2> HIDE DEF v
  <2> QED
    BY <2>1 DEF LastCtx
<1>4. v \in Seq(Entry) /\ Len(v) \in Nat
  BY AcceptedEntries
<1>5. DOMAIN e.receipts = {}
  OBVIOUS
<1>6. Renews(w, e)
  BY DEF Renews
<1>7. \A a \in Member : ReplayedReceipts(v, Len(v))[a] = NoReceipt
  BY <1>5, <1>6, AcceptedReceipts
<1>8. ReplayedReceipts(v, Len(v)) = NoReceipts
  <2>1. ReplayedReceipts(v, Len(v)) = [a \in Member |-> ReplayedReceipts(v, Len(v))[a]]
    BY <1>4, ReplayedDomain
  <2> HIDE DEF v
  <2> QED
    BY <1>7, <2>1 DEF NoReceipts
<1>9. ReplayValid(v)
  BY <1>1, AcceptedValid
<1>10. \A f \in D : f.ctx \in Nat /\ f.ctx # c /\ f.ctx <= c
  <2>1. \A f \in D : f.ctx < c
    OBVIOUS
  <2> HIDE DEF D
  <2>2. \A f \in D : f \in Frame
    BY <1>1
  <2>3. \A f \in D : f.ctx \in Nat
    BY <2>2, FrameTyped
  <2> QED
    BY <2>1, <2>3
<1> HIDE DEF v, D
<1>11. Exact(D, NoReceipts, c)
  BY <1>10, ExactFresh
<1>12. Sound(v)
  BY <1>1, <1>2, <1>3, <1>8, <1>9, <1>10, <1>11 DEF Sound
<1> QED
  BY <1>2, <1>3, <1>8, <1>12 DEF v, D


LEMMA SoundNothing == Sound(<<>>) /\ ReplayedContent(<<>>) = {} /\ LastCtx(<<>>) = 0
                      /\ ReplayedReceipts(<<>>, Len(<<>>)) = NoReceipts
<1> DEFINE w == <<>>
<1>1. w \in Seq(Entry) /\ DOMAIN w = {} /\ Len(w) = 0
  OBVIOUS
<1> HIDE DEF w
<1>2. ReplayedContent(w) = {}
  BY <1>1 DEF ReplayedContent
<1>3. LastCtx(w) = 0
  BY DEF LastCtx, w
<1>4. ReplayedReceipts(w, Len(w)) = NoReceipts
  BY <1>1 DEF ReplayedReceipts
<1>5. ReplayValid(w)
  BY <1>1 DEF ReplayValid
<1>6. IsFiniteSet({})
  BY FS_EmptySet
<1>7. Exact({}, NoReceipts, 0)
  BY ExactFresh
<1>8. Sound(w)
  BY <1>2, <1>3, <1>4, <1>5, <1>6, <1>7 DEF Sound
<1> QED
  BY <1>2, <1>3, <1>4, <1>8 DEF w

LEMMA JournaledIs ==
  ASSUME NEW w, NEW x
  PROVE  /\ x.op.stage # "committing" => Journaled(w, x) = w
         /\ x.op.stage = "committing" => Journaled(w, x) = Accepted(w, x.op.entry)
BY DEF Journaled

(* A document without an entry under way. *)
LEMMA ReplayableIdle ==
  ASSUME NEW w \in Seq(Entry), NEW x, NEW c, Sound(w), LastCtx(w) <= c,
         \A f \in x.doc : f.deps \subseteq Ids(x.doc),
         Working(x) => /\ x.doc = ReplayedContent(w)
                       /\ x.receipts = ReplayedReceipts(w, Len(w))
                       /\ x.rctx = LastCtx(w),
         x.op.stage \in {"idle", "role"}
  PROVE  Replayable(w, x, c)
<1>1. Journaled(w, x) = w
  BY JournaledIs
<1> QED
  BY <1>1 DEF Replayable

LEMMA ReplayInit ==
  ASSUME ConstantsAssumption, Init
  PROVE  ReplayInv
<1> SUFFICES ASSUME NEW m \in Member PROVE Replayable(wal[m], mem[m], epoch[m])
  BY DEF ReplayInv
<1>1. /\ mem[m] = [Off EXCEPT !.mode = "open"] /\ wal[m] = <<>> /\ epoch[m] = 1
  BY DEF Init
<1>2. /\ mem[m].doc = {} /\ mem[m].receipts = NoReceipts /\ mem[m].rctx = 0
      /\ mem[m].op.stage = "idle"
  BY <1>1 DEF Off, Idle
<1>3. <<>> \in Seq(Entry) /\ 0 <= 1
  OBVIOUS
<1>4. Replayable(<<>>, mem[m], 1)
  BY <1>2, <1>3, SoundNothing, ReplayableIdle
<1> QED
  BY <1>1, <1>4

(* The context of a member only grows. *)
LEMMA ReplayableLater ==
  ASSUME NEW w \in Seq(Entry), NEW x \in Fields, NEW c \in Nat, Replayable(w, x, c)
  PROVE  Replayable(w, x, c + 1)
<1> DEFINE v == Journaled(w, x)
<1>1. v \in Seq(Entry)
  <2>1. x.op \in Operation
    BY FieldsTyped
  <2>2. x.op.stage = "committing" => x.op.entry \in Entry
    BY <2>1, OperationTyped
  <2>3. x.op.stage = "committing" => Accepted(w, x.op.entry) \in Seq(Entry)
    BY <2>2, AcceptedEntries
  <2> QED
    BY <2>3, JournaledIs
<1>2. LastCtx(w) \in Nat /\ LastCtx(v) \in Nat
  BY <1>1, ReplayedTyped
<1> HIDE DEF v
<1>3. LastCtx(w) <= c /\ LastCtx(v) <= c
  BY DEF Replayable, v
<1>4. LastCtx(w) <= c + 1 /\ LastCtx(v) <= c + 1
  BY <1>2, <1>3
<1>5. x.op.stage = "prepared" => PreparedExactly(x, c + 1)
  <2> SUFFICES ASSUME x.op.stage = "prepared" PROVE PreparedExactly(x, c + 1)
    OBVIOUS
  <2>1. PreparedExactly(x, c)
    BY DEF Replayable
  <2>2. x.op.ctx \in Nat /\ x.op.ctx <= c
    BY <2>1, FieldsTyped, OperationTyped DEF PreparedExactly
  <2>3. x.op.ctx <= c + 1 /\ x.op.ctx # c + 1
    BY <2>2
  <2> QED
    BY <2>1, <2>3 DEF PreparedExactly
<1> QED
  BY <1>4, <1>5 DEF Replayable, v

(* What the third layer says of a member, for use by name. *)
LEMMA MemberReplayed ==
  ASSUME TypeOK, HistoryInv, ReplayInv, NEW m \in Member
  PROVE  /\ Sound(wal[m]) /\ LastCtx(wal[m]) <= epoch[m]
         /\ LastCtx(wal[m]) \in Nat /\ wal[m] \in Seq(Entry) /\ epoch[m] \in Nat \ {0}
         /\ \A f \in mem[m].doc : f.deps \subseteq Ids(mem[m].doc)
         /\ \A f \in {} : f.deps \subseteq Ids({})
         /\ mem[m].op.stage # "idle" => Working(mem[m])
         /\ Working(mem[m]) /\ mem[m].op.stage # "committing" =>
              /\ mem[m].doc = ReplayedContent(wal[m])
              /\ mem[m].receipts = ReplayedReceipts(wal[m], Len(wal[m]))
              /\ mem[m].rctx = LastCtx(wal[m])
         /\ mem[m].op.stage = "committing" =>
              LET v == Accepted(wal[m], mem[m].op.entry) IN
              /\ v \in Seq(Entry) /\ Sound(v) /\ LastCtx(v) <= epoch[m]
              /\ mem[m].doc = ReplayedContent(v)
              /\ mem[m].receipts = ReplayedReceipts(v, Len(v))
              /\ mem[m].rctx = LastCtx(v)
         /\ mem[m].op.stage = "prepared" => PreparedExactly(mem[m], epoch[m])
<1>1. /\ Replayable(wal[m], mem[m], epoch[m])
      /\ Chained(signed, log[m], wal[m], mem[m])
  BY DEF ReplayInv, HistoryInv
<1>2. wal[m] \in Seq(Entry) /\ epoch[m] \in Nat \ {0} /\ LastCtx(wal[m]) \in Nat
  BY MemberTyped, ReplayedTyped
<1>3. mem[m].op.stage # "idle" => Working(mem[m])
  BY <1>1 DEF Chained, Idle
<1>4. mem[m].op.stage = "committing" => Accepted(wal[m], mem[m].op.entry) \in Seq(Entry)
  BY <1>2, MemberTyped, OperationTyped, AcceptedEntries
<1>5. mem[m].op.stage # "committing" => Journaled(wal[m], mem[m]) = wal[m]
  BY JournaledIs
<1>6. mem[m].op.stage = "committing" =>
        Journaled(wal[m], mem[m]) = Accepted(wal[m], mem[m].op.entry)
  BY JournaledIs
<1>7. Working(mem[m]) /\ mem[m].op.stage # "committing" =>
              /\ mem[m].doc = ReplayedContent(wal[m])
              /\ mem[m].receipts = ReplayedReceipts(wal[m], Len(wal[m]))
              /\ mem[m].rctx = LastCtx(wal[m])
  BY <1>1, <1>5 DEF Replayable
<1>8. mem[m].op.stage = "committing" =>
              LET v == Accepted(wal[m], mem[m].op.entry) IN
              /\ Sound(v) /\ LastCtx(v) <= epoch[m]
              /\ mem[m].doc = ReplayedContent(v)
              /\ mem[m].receipts = ReplayedReceipts(v, Len(v))
              /\ mem[m].rctx = LastCtx(v)
  BY <1>1, <1>3, <1>6 DEF Replayable
<1> QED
  BY <1>1, <1>2, <1>3, <1>4, <1>7, <1>8 DEF Replayable


(* A prepared entry says what applying it will produce. *)
LEMMA ReplayBegin ==
  ASSUME TypeOK, HistoryInv, ReplayInv, TypeOK', NEW m \in Member, NEW f \in Frame,
         NEW local \in BOOLEAN, Ready(m), log[m] # <<>>,
         f.ctx = epoch[m], Admits(ReceiptsFor(m)[f.author], f),
         f.deps \subseteq Ids(mem[m].doc), Prepare(m, f, local)
  PROVE  Replayable(wal[m], mem'[m], epoch[m]) /\ Others(m)
<1> DEFINE x == mem'[m]
           c == epoch[m]
           w == wal[m]
           op == PreparedOp(m, f, local)
           e == ContentEntry(m, f)
<1>1. /\ Others(m) /\ x.mode = mem[m].mode /\ x.doc = mem[m].doc
      /\ x.receipts = mem[m].receipts /\ x.rctx = mem[m].rctx /\ x.op = op
  BY PrepareEffect
<1>2. /\ op.stage = "prepared" /\ op.frame = f /\ op.ctx = c /\ op.entry = e
  BY DEF PreparedOp
<1>3. PICK ckpt \in BOOLEAN : /\ e.ckpt = ckpt /\ e.ctx = c
                              /\ e.content = EntryContent(m, f, ckpt)
                              /\ e.receipts = EntryReceipts(ReceiptsFor(m), f, ckpt)
  BY ContentEntryIs
<1>4. Working(mem[m]) /\ mem[m].op.stage # "committing"
  BY DEF Ready, Working, Idle
<1>5. /\ Sound(w) /\ LastCtx(w) <= c /\ c \in Nat \ {0} /\ w \in Seq(Entry)
      /\ \A g \in mem[m].doc : g.deps \subseteq Ids(mem[m].doc)
      /\ mem[m].doc = ReplayedContent(w)
      /\ mem[m].receipts = ReplayedReceipts(w, Len(w)) /\ mem[m].rctx = LastCtx(w)
  BY <1>4, MemberReplayed
<1>6. ReceiptsFor(m) = Receipts(mem[m], c)
  BY DEF ReceiptsFor, Receipts
<1> HIDE DEF x, op, e
<1>7. Receipts(x, c) = ReceiptsFor(m)
  BY <1>1, <1>6 DEF Receipts
<1>8. e.content = IF e.ckpt THEN x.doc \cup {f} ELSE {f}
  BY <1>1, <1>3 DEF EntryContent
<1>9. PreparedExactly(x, c)
  <2>1. c <= c /\ c # 0
    BY <1>5
  <2> HIDE DEF c
  <2>2. Admits(Receipts(x, c)[f.author], f) /\ f.ctx = c
    BY <1>7 DEF c
  <2>3. e.receipts = EntryReceipts(Receipts(x, c), f, e.ckpt)
    BY <1>3, <1>7
  <2> QED
    BY <1>1, <1>2, <1>3, <1>8, <2>1, <2>2, <2>3 DEF PreparedExactly
<1>10. Journaled(w, x) = w
  BY <1>1, <1>2, JournaledIs
<1> HIDE DEF c, w
<1>11. Replayable(w, x, c)
  BY <1>1, <1>5, <1>9, <1>10 DEF Replayable
<1> QED
  BY <1>1, <1>11 DEF x, c, w

(* A frame becomes visible. *)
LEMMA ReplayFinalize ==
  ASSUME TypeOK, HistoryInv, ReplayInv, NEW m \in Member, Finalize(m)
  PROVE  Replayable(wal[m], mem'[m], epoch[m]) /\ Others(m)
<1> DEFINE x == mem[m]
           y == mem'[m]
           op == x.op
           c == epoch[m]
           w == wal[m]
           e == op.entry
           f == op.frame
           v == Accepted(w, e)
<1>1. /\ op.stage = "prepared" /\ x.mode = "open" /\ Others(m)
      /\ f \in Frame /\ e \in Entry /\ op.ctx = c
      /\ y.mode = "open" /\ y.doc = x.doc \cup {f}
      /\ y.receipts = Accept(ReceiptsFor(m), f) /\ y.rctx = c
      /\ y.op.stage = "committing" /\ y.op.entry = e
  <2>1. LET o == mem[m].op
            new == mem'[m].op IN
         /\ o.stage = "prepared" /\ mem[m].mode = "open"
         /\ o.frame \in Frame /\ o.entry \in Entry /\ o.ctx = epoch[m]
         /\ Others(m)
         /\ mem'[m].mode = "open" /\ mem'[m].doc = mem[m].doc \cup {o.frame}
         /\ mem'[m].receipts = Accept(ReceiptsFor(m), o.frame)
         /\ mem'[m].rctx = epoch[m]
         /\ new.stage = "committing" /\ new.entry = o.entry
    BY FinalizeEffect
  <2> QED
    BY <2>1
<1>2. Working(x) /\ op.stage # "committing"
  BY <1>1 DEF Working
<1>3. /\ Sound(w) /\ LastCtx(w) <= c /\ c \in Nat \ {0} /\ w \in Seq(Entry)
      /\ \A g \in x.doc : g.deps \subseteq Ids(x.doc)
      /\ x.doc = ReplayedContent(w)
      /\ x.receipts = ReplayedReceipts(w, Len(w)) /\ x.rctx = LastCtx(w)
  BY <1>2, MemberReplayed
<1>4. PreparedExactly(x, c)
  BY <1>1, MemberReplayed
<1>5. ReceiptsFor(m) = Receipts(x, c) /\ x.receipts \in [Member -> Receipt]
  BY MemberTyped DEF ReceiptsFor, Receipts
<1> HIDE DEF x, y, c, w
<1>6. FrameEntry(e, f, x, c)
  BY <1>1, <1>4 DEF PreparedExactly, FrameEntry
<1> HIDE DEF op, e, f
<1>7. /\ Sound(v) /\ ReplayedContent(v) = x.doc \cup {f}
      /\ ReplayedReceipts(v, Len(v)) = Accept(Receipts(x, c), f) /\ LastCtx(v) = c
  BY <1>1, <1>3, <1>5, <1>6, SoundFrame
<1>8. Journaled(w, y) = v
  BY <1>1, JournaledIs
<1> HIDE DEF v
<1>9. Ids(x.doc) \subseteq Ids(x.doc \cup {f})
  BY DEF Ids
<1>10. \A g \in y.doc : g.deps \subseteq Ids(y.doc)
  <2>1. \A g \in x.doc \cup {f} : g.deps \subseteq Ids(x.doc)
    BY <1>3, <1>6 DEF FrameEntry
  <2>2. \A g \in x.doc \cup {f} : g.deps \subseteq Ids(x.doc \cup {f})
    BY <1>9, <2>1
  <2> QED
    BY <1>1, <2>2
<1>11. c <= c
  BY <1>3
<1>12. Sound(w) /\ Sound(Journaled(w, y)) /\ LastCtx(w) <= c /\ LastCtx(Journaled(w, y)) <= c
  BY <1>3, <1>7, <1>8, <1>11
<1>13. ReplayedContent(w) \subseteq ReplayedContent(Journaled(w, y))
  BY <1>3, <1>7, <1>8
<1>14. /\ y.doc = ReplayedContent(Journaled(w, y))
       /\ y.receipts = ReplayedReceipts(Journaled(w, y), Len(Journaled(w, y)))
       /\ y.rctx = LastCtx(Journaled(w, y))
  BY <1>1, <1>5, <1>7, <1>8
<1>15. y.op.stage # "prepared"
  BY <1>1
<1>16. Replayable(w, y, c)
  BY <1>10, <1>12, <1>13, <1>14, <1>15 DEF Replayable
<1> QED
  BY <1>1, <1>16 DEF y, c, w

(* The checkpoint of a new role record. *)
LEMMA ReplayRole ==
  ASSUME TypeOK, HistoryInv, AuthorityInv, ReplayInv, NEW m \in Member,
         RoleCheckpoint(m)
  PROVE  Replayable(wal[m], mem'[m], epoch[m]) /\ Others(m)
<1> DEFINE x == mem[m]
           y == mem'[m]
           c == epoch[m]
           w == wal[m]
           e == RoleEntry(m)
           v == Accepted(w, e)
<1>1. /\ x.op.stage = "role" /\ Others(m)
      /\ \/ /\ Captures(m) /\ log[m] # <<>> /\ e \in Entry
            /\ y.mode = x.mode /\ y.doc = x.doc
            /\ y.receipts = NoReceipts /\ y.rctx = c
            /\ y.op.stage = "committing" /\ y.op.entry = e
         \/ /\ y.mode = "failed" /\ y.doc = x.doc /\ y.op = Idle
  BY RoleCheckpointEffect
<1>2. Working(x) /\ x.op.stage # "committing"
  BY <1>1, MemberReplayed
<1>3. /\ Sound(w) /\ LastCtx(w) <= c /\ c \in Nat \ {0} /\ w \in Seq(Entry)
      /\ \A g \in x.doc : g.deps \subseteq Ids(x.doc)
      /\ x.doc = ReplayedContent(w)
  BY <1>2, MemberReplayed
<1>4. CASE y.mode = "failed" /\ y.doc = x.doc /\ y.op = Idle
  <2>1. ~Working(y) /\ y.op.stage \in {"idle", "role"}
    BY <1>4 DEF Working, Idle
  <2> HIDE DEF x, y, c, w
  <2>2. Replayable(w, y, c)
    BY <1>3, <1>4, <2>1, ReplayableIdle
  <2> QED
    BY <1>1, <2>2 DEF y, c, w
<1>5. CASE /\ Captures(m) /\ log[m] # <<>> /\ e \in Entry
           /\ y.mode = x.mode /\ y.doc = x.doc
           /\ y.receipts = NoReceipts /\ y.rctx = c
           /\ y.op.stage = "committing" /\ y.op.entry = e
  <2>1. e.ckpt /\ e.ctx = c /\ e.content = x.doc /\ e.receipts = <<>>
    BY RoleEntryIs
  <2>2. \A f \in x.doc : f.ctx < c
    <3>1. \A f \in mem[m].doc : f.ctx < signed[log[m][Len(log[m])]].ctx
      BY <1>1 DEF AuthorityInv, Explained
    <3>2. signed[log[m][Len(log[m])]].ctx = c
      BY <1>5 DEF Captures, Role, HeadOf
    <3> QED
      BY <3>1, <3>2
  <2> HIDE DEF x, y, c, w, e
  <2>3. /\ Sound(v) /\ ReplayedContent(v) = x.doc
        /\ ReplayedReceipts(v, Len(v)) = NoReceipts /\ LastCtx(v) = c
    BY <1>3, <1>5, <2>1, <2>2, SoundRole
  <2>4. Journaled(w, y) = v
    BY <1>5, JournaledIs
  <2> HIDE DEF v
  <2>5. c <= c
    BY <1>3
  <2>6. /\ Sound(Journaled(w, y)) /\ LastCtx(Journaled(w, y)) <= c
        /\ ReplayedContent(w) \subseteq ReplayedContent(Journaled(w, y))
    BY <1>3, <2>3, <2>4, <2>5
  <2>7. /\ y.doc = ReplayedContent(Journaled(w, y))
        /\ y.receipts = ReplayedReceipts(Journaled(w, y), Len(Journaled(w, y)))
        /\ y.rctx = LastCtx(Journaled(w, y))
    BY <1>5, <2>3, <2>4
  <2>8. y.op.stage # "prepared" /\ \A f \in y.doc : f.deps \subseteq Ids(y.doc)
    BY <1>3, <1>5
  <2>9. Replayable(w, y, c)
    BY <1>3, <2>6, <2>7, <2>8 DEF Replayable
  <2> QED
    BY <1>1, <2>9 DEF y, c, w
<1> QED
  BY <1>1, <1>4, <1>5


LEMMA ReplayStep ==
  ASSUME ConstantsAssumption, TypeOK, TypeOK', HistoryInv, AuthorityInv, ReplayInv,
         [Next]_vars
  PROVE  ReplayInv'
<1> DEFINE Good(q) == Replayable(wal'[q], mem'[q], epoch'[q])
<1>1. ASSUME NEW m \in Member, Others(m), Good(m),
             \A q \in Member \ {m} : epoch'[q] = epoch[q] /\ wal'[q] = wal[q]
      PROVE  ReplayInv'
  <2>1. \A q \in Member \ {m} : Good(q)
    BY <1>1 DEF ReplayInv, Others
  <2> QED
    BY <1>1, <2>1 DEF ReplayInv
<1>2. (UNCHANGED <<epoch, mem, wal>>) => ReplayInv'
  BY DEF ReplayInv
<1> HIDE DEF Good
<1>3. ASSUME NEW m \in Member, Others(m), UNCHANGED <<epoch, wal>>,
             Replayable(wal[m], mem'[m], epoch[m])
      PROVE  ReplayInv'
  BY <1>1, <1>3 DEF Good
<1>4. ASSUME NEW m \in Member, Others(m), UNCHANGED <<epoch, wal>>,
             mem'[m].op.stage \in {"idle", "role"},
             mem'[m].doc \in {{}, mem[m].doc},
             Working(mem'[m]) => /\ mem'[m].doc = ReplayedContent(wal[m])
                                 /\ mem'[m].receipts = ReplayedReceipts(wal[m], Len(wal[m]))
                                 /\ mem'[m].rctx = LastCtx(wal[m])
      PROVE  ReplayInv'
  <2>1. /\ Sound(wal[m]) /\ LastCtx(wal[m]) <= epoch[m] /\ wal[m] \in Seq(Entry)
        /\ \A f \in mem'[m].doc : f.deps \subseteq Ids(mem'[m].doc)
    BY <1>4, MemberReplayed
  <2>2. Replayable(wal[m], mem'[m], epoch[m])
    BY <1>4, <2>1, ReplayableIdle
  <2> QED
    BY <1>3, <1>4, <2>2
<1>5. Idle.stage = "idle" /\ Off.doc = {} /\ ~Working(Off) /\ Off.op = Idle
  BY OffFields DEF Working
<1>6. ASSUME NEW w \in Rosters, Sign(w) PROVE ReplayInv'
  BY <1>2, <1>6, SignEffect DEF ConstantsAssumption
<1>7. ASSUME NEW m \in Member, BeginChange(m) \/ \E f \in net : BeginReceive(m, f)
      PROVE  ReplayInv'
  <2>1. PICK f \in Frame : \E local \in BOOLEAN :
           /\ Ready(m) /\ log[m] # <<>> /\ f.ctx = epoch[m]
           /\ Admits(ReceiptsFor(m)[f.author], f)
           /\ f.deps \subseteq Ids(mem[m].doc)
           /\ Prepare(m, f, local) /\ UNCHANGED <<epoch, wal>>
    BY <1>7, BeginEffect
  <2>2. PICK local \in BOOLEAN :
           /\ Ready(m) /\ log[m] # <<>> /\ f.ctx = epoch[m]
           /\ Admits(ReceiptsFor(m)[f.author], f)
           /\ f.deps \subseteq Ids(mem[m].doc)
           /\ Prepare(m, f, local) /\ UNCHANGED <<epoch, wal>>
    BY <2>1
  <2>3. Replayable(wal[m], mem'[m], epoch[m]) /\ Others(m)
    BY <2>2, ReplayBegin
  <2> QED
    BY <1>3, <2>2, <2>3
<1>8. ASSUME NEW m \in Member, Finalize(m) PROVE ReplayInv'
  <2>1. Replayable(wal[m], mem'[m], epoch[m]) /\ Others(m)
    BY <1>8, ReplayFinalize
  <2>2. UNCHANGED <<epoch, wal>>
    BY <1>8 DEF Finalize
  <2> QED
    BY <1>3, <2>1, <2>2
<1>9. ASSUME NEW m \in Member, Cancel(m) PROVE ReplayInv'
  <2>1. /\ Others(m) /\ UNCHANGED <<epoch, wal>> /\ mem[m].op.stage = "prepared"
        /\ \/ mem'[m] = Off
           \/ /\ mem'[m].mode \in {mem[m].mode, "failed"}
              /\ mem'[m].doc = mem[m].doc
              /\ mem'[m].receipts = mem[m].receipts /\ mem'[m].rctx = mem[m].rctx
              /\ mem'[m].op = Idle
    BY <1>9, CancelEffect
  <2>2. /\ mem[m].doc = ReplayedContent(wal[m])
        /\ mem[m].receipts = ReplayedReceipts(wal[m], Len(wal[m]))
        /\ mem[m].rctx = LastCtx(wal[m])
    BY <2>1, MemberReplayed
  <2> QED
    BY <1>4, <1>5, <2>1, <2>2
<1>10. ASSUME NEW m \in Member, JournalCommit(m) PROVE ReplayInv'
  <2> DEFINE op == mem[m].op
             v == Accepted(wal[m], op.entry)
  <2>1. /\ op.stage = "committing" /\ Others(m)
        /\ \/ mem'[m].mode \in {"off", "failed"} /\ mem'[m].doc \in {{}, mem[m].doc}
           \/ /\ mem'[m].mode = mem[m].mode /\ mem'[m].doc = mem[m].doc
              /\ mem'[m].receipts = mem[m].receipts /\ mem'[m].rctx = mem[m].rctx
              /\ Store(m)
        /\ mem'[m].op = Idle
        /\ Store(m) \/ wal' = wal
        /\ UNCHANGED epoch
    BY <1>10, JournalEffect
  <2>2. CASE wal' = wal /\ mem'[m].mode \in {"off", "failed"} /\ mem'[m].doc \in {{}, mem[m].doc}
    <3>1. ~Working(mem'[m])
      BY <2>2 DEF Working
    <3> QED
      BY <1>4, <1>5, <2>1, <2>2, <3>1
  <2>3. CASE Store(m)
    <3>1. wal'[m] = v /\ \A q \in Member \ {m} : wal'[q] = wal[q]
      BY <2>1, <2>3, StoreEffect
    <3>2. /\ v \in Seq(Entry) /\ Sound(v) /\ LastCtx(v) <= epoch[m]
          /\ mem[m].doc = ReplayedContent(v)
          /\ mem[m].receipts = ReplayedReceipts(v, Len(v))
          /\ mem[m].rctx = LastCtx(v)
      BY <2>1, MemberReplayed
    <3>3. \A f \in mem'[m].doc : f.deps \subseteq Ids(mem'[m].doc)
      BY <2>1, MemberReplayed
    <3> HIDE DEF op, v
    <3>4. Working(mem'[m]) => /\ mem'[m].doc = mem[m].doc
                              /\ mem'[m].receipts = mem[m].receipts
                              /\ mem'[m].rctx = mem[m].rctx
      BY <2>1 DEF Working
    <3>5. mem'[m].op.stage \in {"idle", "role"}
      BY <1>5, <2>1
    <3>6. Replayable(v, mem'[m], epoch[m])
      BY <3>2, <3>3, <3>4, <3>5, ReplayableIdle
    <3>7. Good(m)
      BY <2>1, <3>1, <3>6 DEF Good
    <3> QED
      BY <1>1, <2>1, <3>1, <3>7
  <2> QED
    BY <2>1, <2>2, <2>3
<1>11. ASSUME NEW m \in Member, NEW i \in DOMAIN signed, ApplyUpdate(m, i) PROVE ReplayInv'
  BY <1>2, <1>11 DEF ApplyUpdate
<1>12. ASSUME NEW m \in Member, NEW i \in DOMAIN signed, BeginRole(m, i) PROVE ReplayInv'
  <2>1. /\ Others(m) /\ UNCHANGED <<epoch, wal>> /\ Ready(m)
        /\ mem'[m].doc = mem[m].doc /\ mem'[m].receipts = mem[m].receipts
        /\ mem'[m].rctx = mem[m].rctx /\ mem'[m].op.stage = "role"
    BY <1>12, BeginRoleEffect
  <2>2. Working(mem[m]) /\ mem[m].op.stage # "committing"
    BY <1>5, <2>1 DEF Ready, Working
  <2>3. /\ mem[m].doc = ReplayedContent(wal[m])
        /\ mem[m].receipts = ReplayedReceipts(wal[m], Len(wal[m]))
        /\ mem[m].rctx = LastCtx(wal[m])
    BY <2>2, MemberReplayed
  <2> QED
    BY <1>4, <2>1, <2>3
<1>13. ASSUME NEW m \in Member, RoleCheckpoint(m) PROVE ReplayInv'
  <2>1. Replayable(wal[m], mem'[m], epoch[m]) /\ Others(m)
    BY <1>13, ReplayRole
  <2>2. UNCHANGED <<epoch, wal>>
    BY <1>13 DEF RoleCheckpoint
  <2> QED
    BY <1>3, <2>1, <2>2
<1>14. ASSUME NEW m \in Member, AdvanceEpoch(m) PROVE ReplayInv'
  <2>1. /\ epoch'[m] = epoch[m] + 1 /\ UNCHANGED <<mem, wal>>
        /\ \A q \in Member \ {m} : epoch'[q] = epoch[q]
    BY <1>14 DEF AdvanceEpoch, TypeOK
  <2>2. Replayable(wal[m], mem[m], epoch[m]) /\ epoch[m] \in Nat
        /\ wal[m] \in Seq(Entry) /\ mem[m] \in Fields
    BY MemberTyped DEF ReplayInv
  <2>3. Good(m) /\ Others(m)
    BY <2>1, <2>2, ReplayableLater DEF Good, Others
  <2> QED
    BY <1>1, <2>1, <2>3
<1>15. ASSUME NEW m \in Member, Publish(m) PROVE ReplayInv'
  BY <1>2, <1>15, PublishEffect
<1>16. ASSUME NEW m \in Member, Crash(m) PROVE ReplayInv'
  <2>1. Others(m) /\ mem'[m] = Off /\ UNCHANGED <<epoch, wal>>
    BY <1>16, CrashEffect
  <2> QED
    BY <1>4, <1>5, <2>1
<1>17. ASSUME NEW m \in Member, Close(m) PROVE ReplayInv'
  <2>1. /\ Others(m) /\ UNCHANGED <<epoch, wal>>
        /\ \/ mem'[m] = Off
           \/ /\ mem[m].op # Idle /\ mem'[m].mode = "closing"
              /\ mem'[m].doc = mem[m].doc
              /\ mem'[m].receipts = mem[m].receipts /\ mem'[m].rctx = mem[m].rctx
              /\ mem'[m].op = mem[m].op
    BY <1>17, CloseEffect
  <2>2. CASE mem'[m] = Off
    BY <1>4, <1>5, <2>1, <2>2
  <2>3. CASE /\ mem[m].op # Idle /\ mem'[m].mode = "closing"
             /\ mem'[m].doc = mem[m].doc
             /\ mem'[m].receipts = mem[m].receipts /\ mem'[m].rctx = mem[m].rctx
             /\ mem'[m].op = mem[m].op
    <3>1. mem[m].op.stage # "idle"
      BY <2>3, MemberTyped, OperationTyped
    <3>2. Working(mem[m])
      BY <3>1, MemberReplayed
    <3>3. Replayable(wal[m], mem[m], epoch[m])
      BY DEF ReplayInv
    <3>4. Journaled(wal[m], mem'[m]) = Journaled(wal[m], mem[m])
      BY <2>3 DEF Journaled
    <3>5. PreparedExactly(mem[m], epoch[m]) => PreparedExactly(mem'[m], epoch[m])
      BY <2>3 DEF PreparedExactly, Receipts
    <3>6. Replayable(wal[m], mem'[m], epoch[m])
      BY <2>3, <3>2, <3>3, <3>4, <3>5 DEF Replayable
    <3> QED
      BY <1>3, <2>1, <3>6
  <2> QED
    BY <2>1, <2>2, <2>3
<1>18. ASSUME NEW m \in Member, Provision(m) PROVE ReplayInv'
  BY <1>2, <1>18, ProvisionEffect
<1>19. ASSUME NEW m \in Member, Open(m) PROVE ReplayInv'
  <2>1. /\ Others(m) /\ UNCHANGED <<epoch, wal>> /\ mem'[m].op = Idle
        /\ \/ /\ mem'[m].mode = "open" /\ mem'[m].doc = ReplayedContent(wal[m])
              /\ mem'[m].receipts = ReplayedReceipts(wal[m], Len(wal[m]))
              /\ mem'[m].rctx = LastCtx(wal[m])
           \/ mem'[m].mode = "failed" /\ mem'[m].doc = {}
    BY <1>19, OpenEffect
  <2>2. CASE mem'[m].mode = "failed" /\ mem'[m].doc = {}
    BY <1>4, <1>5, <2>1, <2>2 DEF Working
  <2>3. CASE /\ mem'[m].mode = "open" /\ mem'[m].doc = ReplayedContent(wal[m])
             /\ mem'[m].receipts = ReplayedReceipts(wal[m], Len(wal[m]))
             /\ mem'[m].rctx = LastCtx(wal[m])
    <3>1. Sound(wal[m]) /\ LastCtx(wal[m]) <= epoch[m] /\ wal[m] \in Seq(Entry)
      BY MemberReplayed
    <3>2. \A f \in mem'[m].doc : f.deps \subseteq Ids(mem'[m].doc)
      BY <2>3, <3>1 DEF Sound
    <3>3. Replayable(wal[m], mem'[m], epoch[m])
      BY <1>5, <2>1, <2>3, <3>1, <3>2, ReplayableIdle
    <3> QED
      BY <1>3, <2>1, <3>3
  <2> QED
    BY <2>1, <2>2, <2>3
<1>20. CASE Next
  BY <1>20, <1>6, <1>7, <1>8, <1>9, <1>10, <1>11, <1>12, <1>13, <1>14, <1>15, <1>16,
     <1>17, <1>18, <1>19 DEF Next
<1>21. CASE UNCHANGED vars
  BY <1>2, <1>21 DEF vars
<1> QED
  BY <1>20, <1>21


-----------------------------------------------------------------------------
(* The fourth layer: what was acknowledged or let out is in the journal. *)

Let(m) ==
  /\ acked[m] \subseteq ReplayedContent(wal[m])
  /\ \A f \in Range(outbox[m]) : f.author = m /\ f \in ReplayedContent(wal[m])
  /\ Writing(mem[m]) /\ mem[m].op.local => mem[m].op.frame.author = m

LEMMA PublicationIs ==
  PublicationInv <=> /\ \A m \in Member : Let(m)
                     /\ \A f \in net : f \in ReplayedContent(wal[f.author])
BY DEF PublicationInv, Let

LEMMA PublicationInit ==
  ASSUME ConstantsAssumption, Init
  PROVE  PublicationInv
<1>1. ASSUME NEW m \in Member PROVE Let(m)
  <2>1. mem[m].op.stage = "idle" /\ acked[m] = {} /\ outbox[m] = <<>>
    BY OffFields DEF Init, Off
  <2>2. Range(<<>>) = {}
    BY DEF Range
  <2> QED
    BY <2>1, <2>2 DEF Let, Writing
<1>2. net = {}
  BY DEF Init
<1> QED
  BY <1>1, <1>2, PublicationIs

LEMMA PublicationStep ==
  ASSUME ConstantsAssumption, TypeOK, TypeOK', HistoryInv, AuthorityInv, ReplayInv,
         PublicationInv, [Next]_vars
  PROVE  PublicationInv'
<1> DEFINE In(q) == acked'[q] \subseteq ReplayedContent(wal'[q])
           Out(q) == \A f \in Range(outbox'[q]) : f.author = q /\ f \in ReplayedContent(wal'[q])
           Own(q) == Writing(mem'[q]) /\ mem'[q].op.local => mem'[q].op.frame.author = q
           Net == \A f \in net' : f \in ReplayedContent(wal'[f.author])
<1>0. /\ \A m \in Member : Let(m)
      /\ \A f \in net : f \in ReplayedContent(wal[f.author])
      /\ \A f \in net : f.author \in Member
      /\ \A m \in Member : \A f \in Range(outbox[m]) : f.author = m
  BY PublicationIs, FrameTyped DEF TypeOK, Let
<1>1. (\A q \in Member : In(q) /\ Out(q) /\ Own(q)) /\ Net => PublicationInv'
  BY DEF PublicationInv
<1>2. (UNCHANGED <<wal, outbox, net, acked>>) => Net /\ \A q \in Member : In(q) /\ Out(q)
  BY <1>0 DEF Let
<1>3. ASSUME NEW m \in Member, Others(m), Own(m) PROVE \A q \in Member : Own(q)
  BY <1>0, <1>3 DEF Others, Let
<1>4. (UNCHANGED mem) => \A q \in Member : Own(q)
  BY <1>0 DEF Let
<1>5. ASSUME NEW m \in Member, mem'[m].op.stage \in {"idle", "role"} PROVE Own(m)
  BY <1>5 DEF Writing
<1>6. Idle.stage = "idle" /\ Off.op = Idle
  BY OffFields
<1> HIDE DEF In, Out, Own, Net
<1>7. ASSUME NEW m \in Member, Others(m), UNCHANGED <<wal, outbox, net, acked>>, Own(m)
      PROVE  PublicationInv'
  BY <1>1, <1>2, <1>3, <1>7
<1>8. (UNCHANGED <<mem, wal, outbox, net, acked>>) => PublicationInv'
  BY <1>1, <1>2, <1>4
<1>9. ASSUME NEW w \in Rosters, Sign(w) PROVE PublicationInv'
  BY <1>8, <1>9, SignEffect DEF ConstantsAssumption
<1>10. ASSUME NEW m \in Member, BeginChange(m) \/ \E f \in net : BeginReceive(m, f)
       PROVE  PublicationInv'
  <2>1. PICK f \in Frame : \E local \in BOOLEAN :
           /\ log[m] # <<>> /\ (local => f.author = m)
           /\ Prepare(m, f, local) /\ UNCHANGED <<wal, outbox, net, acked>>
    BY <1>10, BeginEffect
  <2>2. PICK local \in BOOLEAN :
           /\ log[m] # <<>> /\ (local => f.author = m)
           /\ Prepare(m, f, local) /\ UNCHANGED <<wal, outbox, net, acked>>
    BY <2>1
  <2>3. Others(m) /\ mem'[m].op = PreparedOp(m, f, local)
    BY <2>2, PrepareEffect
  <2>4. PreparedOp(m, f, local).local = local /\ PreparedOp(m, f, local).frame = f
    BY DEF PreparedOp
  <2>5. Own(m)
    BY <2>2, <2>3, <2>4 DEF Own
  <2> QED
    BY <1>7, <2>2, <2>3, <2>5
<1>11. ASSUME NEW m \in Member, Finalize(m) PROVE PublicationInv'
  <2>1. /\ mem[m].op.stage = "prepared" /\ Others(m)
        /\ mem'[m].op.local = mem[m].op.local /\ mem'[m].op.frame = mem[m].op.frame
        /\ UNCHANGED <<wal, outbox, net, acked>>
    BY <1>11, FinalizeEffect
  <2>2. Own(m)
    BY <1>0, <2>1 DEF Own, Let, Writing
  <2> QED
    BY <1>7, <2>1, <2>2
<1>12. ASSUME NEW m \in Member, Cancel(m) PROVE PublicationInv'
  <2>1. /\ Others(m) /\ UNCHANGED <<wal, outbox, net, acked>> /\ mem'[m].op.stage = "idle"
    BY <1>6, <1>12, CancelEffect
  <2>2. Own(m)
    BY <1>5, <2>1
  <2> QED
    BY <1>7, <2>1, <2>2
<1>13. ASSUME NEW m \in Member, JournalCommit(m) PROVE PublicationInv'
  <2> DEFINE op == mem[m].op
             v == Accepted(wal[m], op.entry)
  <2>1. /\ op.stage = "committing" /\ Others(m) /\ mem'[m].op = Idle
        /\ \/ /\ Store(m)
              /\ acked' = acked \/ acked' = [acked EXCEPT ![m] = @ \cup op.entry.content]
           \/ UNCHANGED <<wal, outbox, acked>>
        /\ UNCHANGED net
    BY <1>13, JournalEffect
  <2>2. Own(m)
    BY <1>5, <1>6, <2>1
  <2>3. CASE UNCHANGED <<wal, outbox, acked>>
    BY <1>7, <2>1, <2>2, <2>3
  <2>4. CASE /\ Store(m)
             /\ acked' = acked \/ acked' = [acked EXCEPT ![m] = @ \cup op.entry.content]
    <3>1. /\ wal'[m] = v /\ op.entry \in Entry
          /\ \A q \in Member \ {m} : wal'[q] = wal[q] /\ outbox'[q] = outbox[q]
          /\ \A f \in Range(outbox'[m]) : f \in Range(outbox[m]) \/ (op.local /\ f = op.frame)
      BY <2>1, <2>4, StoreEffect
    <3>2. wal[m] \in Seq(Entry) /\ acked \in [Member -> SUBSET Frame]
      BY MemberTyped DEF TypeOK
    <3>3. op.entry.content \subseteq ReplayedContent(v)
      BY <3>1, <3>2, AcceptedContent
    <3>4. ReplayedContent(wal[m]) \subseteq ReplayedContent(v)
      <4>1. Replayable(wal[m], mem[m], epoch[m])
        BY DEF ReplayInv
      <4>2. Journaled(wal[m], mem[m]) = v
        BY <2>1, JournaledIs
      <4> QED
        BY <4>1, <4>2 DEF Replayable
    <3>5. Writing(mem[m])
      BY <2>1 DEF Writing
    <3>6. op.local => op.frame \in op.entry.content /\ op.frame.author = m
      BY <1>0, <3>5, MemberExplained DEF Underway, Let
    <3> HIDE DEF op, v
    <3>7. /\ \A a \in acked'[m] : a \in acked[m] \/ a \in op.entry.content
          /\ \A q \in Member \ {m} : acked'[q] = acked[q]
      BY <2>4, <3>2
    <3>8. In(m)
      BY <1>0, <3>1, <3>3, <3>4, <3>7 DEF In, Let
    <3>9. Out(m)
      BY <1>0, <3>1, <3>3, <3>4, <3>6 DEF Out, Let
    <3>10. \A q \in Member \ {m} : In(q) /\ Out(q)
      BY <1>0, <3>1, <3>7 DEF In, Out, Let
    <3>11. \A q \in Member : ReplayedContent(wal[q]) \subseteq ReplayedContent(wal'[q])
      BY <3>1, <3>4
    <3>12. Net
      BY <1>0, <2>1, <3>11 DEF Net
    <3>13. \A q \in Member : Own(q)
      BY <1>3, <2>1, <2>2
    <3> QED
      BY <1>1, <3>8, <3>9, <3>10, <3>12, <3>13
  <2> QED
    BY <2>1, <2>3, <2>4
<1>14. ASSUME NEW m \in Member, NEW i \in DOMAIN signed, ApplyUpdate(m, i)
       PROVE  PublicationInv'
  BY <1>8, <1>14 DEF ApplyUpdate
<1>15. ASSUME NEW m \in Member, NEW i \in DOMAIN signed, BeginRole(m, i)
       PROVE  PublicationInv'
  <2>1. /\ Others(m) /\ UNCHANGED <<wal, outbox, net, acked>>
        /\ mem'[m].op.stage = "role"
    BY <1>15, BeginRoleEffect
  <2>2. Own(m)
    BY <1>5, <2>1
  <2> QED
    BY <1>7, <2>1, <2>2
<1>16. ASSUME NEW m \in Member, RoleCheckpoint(m) PROVE PublicationInv'
  <2>1. /\ Others(m) /\ UNCHANGED <<wal, outbox, net, acked>>
        /\ mem'[m].op.local = FALSE \/ mem'[m].op.stage = "idle"
    BY <1>6, <1>16, RoleCheckpointEffect
  <2>2. Own(m)
    BY <2>1 DEF Own, Writing
  <2> QED
    BY <1>7, <2>1, <2>2
<1>17. ASSUME NEW m \in Member, AdvanceEpoch(m) PROVE PublicationInv'
  BY <1>8, <1>17 DEF AdvanceEpoch
<1>18. ASSUME NEW m \in Member, Publish(m) PROVE PublicationInv'
  <2>1. PICK f \in Range(outbox[m]) : net' = net \cup {f} /\ f \in Frame
    BY <1>18, PublishEffect
  <2>2. /\ \A q \in Member : Range(outbox'[q]) \subseteq Range(outbox[q])
        /\ UNCHANGED <<mem, wal, acked>>
    BY <1>18, PublishEffect
  <2>3. f.author = m /\ f \in ReplayedContent(wal[m])
    BY <1>0, <2>1 DEF Let
  <2>4. Net
    BY <1>0, <2>1, <2>2, <2>3 DEF Net
  <2>5. \A q \in Member : In(q) /\ Out(q)
    BY <1>0, <2>2 DEF In, Out, Let
  <2> QED
    BY <1>1, <1>4, <2>2, <2>4, <2>5
<1>19. ASSUME NEW m \in Member, Crash(m) PROVE PublicationInv'
  <2>1. Others(m) /\ UNCHANGED <<wal, outbox, net, acked>> /\ mem'[m].op.stage = "idle"
    BY <1>6, <1>19, CrashEffect
  <2>2. Own(m)
    BY <1>5, <2>1
  <2> QED
    BY <1>7, <2>1, <2>2
<1>20. ASSUME NEW m \in Member, Close(m) PROVE PublicationInv'
  <2>1. /\ Others(m) /\ UNCHANGED <<wal, outbox, net, acked>>
        /\ mem'[m].op.stage = "idle" \/ mem'[m].op = mem[m].op
    BY <1>6, <1>20, CloseEffect
  <2>2. Own(m)
    BY <1>0, <2>1 DEF Own, Writing, Let
  <2> QED
    BY <1>7, <2>1, <2>2
<1>21. ASSUME NEW m \in Member, Provision(m) PROVE PublicationInv'
  BY <1>8, <1>21, ProvisionEffect
<1>22. ASSUME NEW m \in Member, Open(m) PROVE PublicationInv'
  <2>1. Others(m) /\ UNCHANGED <<wal, outbox, net, acked>> /\ mem'[m].op.stage = "idle"
    BY <1>6, <1>22, OpenEffect
  <2>2. Own(m)
    BY <1>5, <2>1
  <2> QED
    BY <1>7, <2>1, <2>2
<1>23. CASE Next
  BY <1>23, <1>9, <1>10, <1>11, <1>12, <1>13, <1>14, <1>15, <1>16, <1>17, <1>18, <1>19,
     <1>20, <1>21, <1>22 DEF Next
<1>24. CASE UNCHANGED vars
  BY <1>8, <1>24 DEF vars
<1> QED
  BY <1>23, <1>24


-----------------------------------------------------------------------------
(* The invariant, and what follows from it. *)

LEMMA InvariantInit ==
  ASSUME ConstantsAssumption, Init
  PROVE  DocumentInv
BY TypeInit, HistoryInit, AuthorityInit, ReplayInit, PublicationInit DEF DocumentInv

LEMMA InvariantStep ==
  ASSUME ConstantsAssumption, DocumentInv, [Next]_vars
  PROVE  DocumentInv'
<1>1. TypeOK /\ HistoryInv /\ AuthorityInv /\ ReplayInv /\ PublicationInv
  BY DEF DocumentInv
<1>2. TypeOK'
  BY <1>1, TypeStep
<1>3. HistoryInv'
  BY <1>1, <1>2, HistoryStep
<1>4. AuthorityInv'
  BY <1>1, <1>2, <1>3, AuthorityStep
<1>5. ReplayInv'
  BY <1>1, <1>2, ReplayStep
<1>6. PublicationInv'
  BY <1>1, <1>2, PublicationStep
<1> QED
  BY <1>2, <1>3, <1>4, <1>5, <1>6 DEF DocumentInv

(* In every reachable state role histories are chains from the genesis,     *)
(* what is shown and journaled is attributed and explained by them, the     *)
(* document is what its journal rebuilds, and what left the member is in    *)
(* that journal.                                                            *)
THEOREM DocumentInvariant == Spec => []DocumentInv
<1>1. Init => DocumentInv
  BY InvariantInit, ConstantsAssumption
<1>2. DocumentInv /\ [Next]_vars => DocumentInv'
  BY InvariantStep, ConstantsAssumption
<1> QED
  BY <1>1, <1>2, PTL DEF Spec

(* For every group and every bound the fields keep their types, the journal *)
(* entries and prepared operations included.                                *)
THEOREM DocumentTypes == Spec => []TypeOK
<1>1. DocumentInv => TypeOK
  BY DEF DocumentInv
<1> QED
  BY <1>1, DocumentInvariant, PTL

(* No author ever lets two different frames with the same sequence number   *)
(* of one context out, though frames are dropped and numbers used again     *)
(* (change(), recover()): the journal that each came from numbers its       *)
(* content uniquely.                                                        *)
THEOREM NeverEquivocates == Spec => []NoEquivocation
<1>1. DocumentInv => NoEquivocation
  <2> SUFFICES ASSUME DocumentInv, NEW f \in Published, NEW g \in Published,
                      f.author = g.author, f.ctx = g.ctx, f.seq = g.seq
               PROVE  f = g
    BY DEF NoEquivocation
  <2>1. TypeOK /\ HistoryInv /\ ReplayInv /\ PublicationInv
    BY DEF DocumentInv
  <2>2. ASSUME NEW h \in Published
        PROVE  h.author \in Member /\ h \in ReplayedContent(wal[h.author])
    <3>1. CASE h \in net
      BY <2>1, <3>1, FrameTyped, PublicationIs DEF TypeOK
    <3>2. CASE \E m \in Member : h \in Range(outbox[m])
      BY <2>1, <3>2, PublicationIs DEF Let
    <3> QED
      BY <3>1, <3>2 DEF Published
  <2>3. /\ f \in ReplayedContent(wal[f.author]) /\ g \in ReplayedContent(wal[f.author])
        /\ f.author \in Member
    BY <2>2
  <2>4. Sound(wal[f.author])
    BY <2>1, <2>3, MemberReplayed
  <2> QED
    BY <2>3, <2>4 DEF Sound
<1> QED
  BY <1>1, DocumentInvariant, PTL

(* The receipts of an open document say exactly what it holds of the        *)
(* current context (apply(), recover(), checkpoints).                       *)
THEOREM ReceiptsAreExact == Spec => []ReceiptsExact
<1>1. DocumentInv => ReceiptsExact
  <2> SUFFICES ASSUME DocumentInv, NEW m \in Member, mem[m].mode \in {"open", "closing"}
               PROVE  Exact(mem[m].doc, mem[m].receipts, mem[m].rctx)
    BY DEF ReceiptsExact
  <2>1. Replayable(wal[m], mem[m], epoch[m]) /\ Working(mem[m])
    BY DEF DocumentInv, ReplayInv, Working
  <2> QED
    BY <2>1 DEF Replayable, Sound
<1> QED
  BY <1>1, DocumentInvariant, PTL

(* An open document is causally closed and holds all that a resolved call   *)
(* made durable, whatever failed, crashed or was compacted.                 *)
THEOREM HistoryIsKept == Spec => []HistoryKept
<1>1. DocumentInv => HistoryKept
  <2> SUFFICES ASSUME DocumentInv, NEW m \in Member
               PROVE  /\ mem[m].mode = "open" => acked[m] \subseteq mem[m].doc
                      /\ \A f \in mem[m].doc : f.deps \subseteq Ids(mem[m].doc)
    BY DEF HistoryKept, AckedKept, CausallyClosed
  <2>1. Replayable(wal[m], mem[m], epoch[m]) /\ Let(m)
    BY PublicationIs DEF DocumentInv, ReplayInv
  <2>2. mem[m].mode = "open" => Working(mem[m])
    BY DEF Working
  <2> QED
    BY <2>1, <2>2 DEF Replayable, Let
<1> QED
  BY <1>1, DocumentInvariant, PTL

(* A member that lost its memory can restore from its journal alone a role  *)
(* history that covers every entry, and recover() accepts the journal.      *)
THEOREM JournalSuffices == Spec => []JournalRecovers
<1>1. DocumentInv => JournalRecovers
  <2> SUFFICES ASSUME DocumentInv, NEW m \in Member
               PROVE  /\ \A k \in DOMAIN wal[m] : wal[m][k].head \in Range(StoredRecords(wal[m]))
                      /\ ReplayValid(wal[m])
    BY DEF JournalRecovers, Provisionable, ReplaysCleanly
  <2> DEFINE r == StoredRecords(wal[m])
  <2>1. TypeOK /\ Replayable(wal[m], mem[m], epoch[m])
        /\ Explained(signed, log[m], wal[m], mem[m])
    BY DEF DocumentInv, ReplayInv, AuthorityInv
  <2>2. r \in Seq(Nat)
    BY <2>1, MemberTyped, ReplayedTyped
  <2>3. \A k \in DOMAIN wal[m] : Explains(r, Len(r), wal[m][k])
    BY <2>1 DEF Explained, Backed
  <2> HIDE DEF r
  <2>4. DOMAIN r = 1 .. Len(r)
    BY <2>2
  <2>5. \A k \in DOMAIN wal[m] : wal[m][k].head \in Range(r)
    BY <2>3, <2>4 DEF Explains, Range
  <2>6. ReplayValid(wal[m])
    BY <2>1 DEF Replayable, Sound
  <2> QED
    BY <2>5, <2>6 DEF r
<1> QED
  BY <1>1, DocumentInvariant, PTL

(* An open document gains content in one way only: Finalize, of a frame     *)
(* whose context is the member's own and whose author the newest role       *)
(* record names (the gate's check at the commit step).                      *)
LEMMA AdmissionStep ==
  ASSUME ConstantsAssumption, DocumentInv, [Next]_vars,
         NEW m \in Member, mem[m].mode = "open", NEW f \in mem'[m].doc \ mem[m].doc
  PROVE  f.ctx = epoch[m] /\ Captures(m) /\ f.author \in Role(m).writers
<1>1. TypeOK /\ HistoryInv /\ AuthorityInv
  BY DEF DocumentInv
<1>2. (mem' = mem) => FALSE
  OBVIOUS
<1>3. ASSUME NEW q \in Member, Others(q), mem'[q].doc \subseteq mem[q].doc \/ mem[q].mode # "open"
      PROVE  FALSE
  BY <1>3 DEF Others
<1>4. Off.doc = {}
  BY OffFields
<1>5. ASSUME NEW q \in Member, Finalize(q)
      PROVE  f.ctx = epoch[m] /\ Captures(m) /\ f.author \in Role(m).writers
  <2>1. /\ mem[q].op.stage = "prepared" /\ Others(q)
        /\ mem[q].op.ctx = epoch[q] /\ mem[q].op.revision = Len(log[q])
        /\ mem'[q].doc = mem[q].doc \cup {mem[q].op.frame}
    BY <1>1, <1>5, FinalizeEffect
  <2>2. q = m /\ f = mem[m].op.frame
    BY <2>1 DEF Others
  <2>3. /\ Attributed(signed, f) /\ f.head = log[m][mem[m].op.revision]
        /\ f.ctx = mem[m].op.ctx /\ log[m] # <<>>
    BY <1>1, <2>1, <2>2, MemberExplained DEF Named
  <2>4. f.head = HeadOf(m) /\ f.ctx = epoch[m]
    BY <2>1, <2>2, <2>3 DEF HeadOf
  <2> QED
    BY <2>3, <2>4 DEF Attributed, Captures, Role
<1>6. ASSUME NEW q \in Member, BeginChange(q) \/ \E g \in net : BeginReceive(q, g)
      PROVE  FALSE
  <2>1. PICK g \in Frame : \E local \in BOOLEAN : log[q] # <<>> /\ Prepare(q, g, local)
    BY <1>1, <1>6, BeginEffect
  <2>2. Others(q) /\ mem'[q].doc = mem[q].doc
    BY <1>1, <2>1, PrepareEffect
  <2> QED
    BY <1>3, <2>2
<1>7. ASSUME NEW q \in Member,
             Cancel(q) \/ JournalCommit(q) \/ RoleCheckpoint(q) \/ Crash(q) \/ Close(q) \/ Open(q)
      PROVE  FALSE
  <2>1. CASE Cancel(q)
    BY <1>1, <1>3, <1>4, <2>1, CancelEffect
  <2>2. CASE JournalCommit(q)
    <3>1. Others(q) /\ mem'[q].doc \in {{}, mem[q].doc}
      BY <1>1, <2>2, JournalEffect
    <3> QED
      BY <1>3, <3>1
  <2>3. CASE RoleCheckpoint(q)
    BY <1>1, <1>3, <2>3, RoleCheckpointEffect
  <2>4. CASE Crash(q)
    BY <1>1, <1>3, <1>4, <2>4, CrashEffect
  <2>5. CASE Close(q)
    BY <1>1, <1>3, <1>4, <2>5, CloseEffect
  <2>6. CASE Open(q)
    BY <1>1, <1>3, <2>6, OpenEffect
  <2> QED
    BY <1>7, <2>1, <2>2, <2>3, <2>4, <2>5, <2>6
<1>8. ASSUME NEW q \in Member, NEW i \in DOMAIN signed, BeginRole(q, i) PROVE FALSE
  BY <1>1, <1>3, <1>8, BeginRoleEffect
<1>9. CASE Next
  <2>1. CASE \E w \in Rosters : Sign(w)
    BY <1>2, <2>1 DEF Sign
  <2>2. CASE \E q \in Member :
               \/ AdvanceEpoch(q) \/ Publish(q) \/ Provision(q)
               \/ \E i \in DOMAIN signed : ApplyUpdate(q, i)
    BY <1>2, <2>2 DEF AdvanceEpoch, Publish, Provision, ApplyUpdate
  <2> QED
    BY <1>5, <1>6, <1>7, <1>8, <1>9, <2>1, <2>2 DEF Next
<1> QED
  BY <1>2, <1>9 DEF vars

(* Content enters an open document only through the check of its context    *)
(* and author at the commit step, and whatever it shows is attributed by    *)
(* the role history the process is configured with at all times.            *)
THEOREM AdmissionChecked == Spec => ContentAdmitted
<1>1. DocumentInv => ContentAuthorized
  <2> SUFFICES ASSUME DocumentInv, NEW m \in Member, mem[m].mode = "open",
                      NEW f \in mem[m].doc
               PROVE  /\ f.head \in Range(log[m])
                      /\ f.ctx = signed[f.head].ctx
                      /\ f.author \in signed[f.head].writers
    BY DEF ContentAuthorized
  <2>1. Explained(signed, log[m], wal[m], mem[m]) /\ Working(mem[m])
    BY DEF DocumentInv, AuthorityInv, Working
  <2> QED
    BY <2>1 DEF Explained, Shown, Attributed
<1>2. DocumentInv /\ [Next]_vars =>
        [\A m \in Member : mem[m].mode = "open" =>
           \A f \in mem'[m].doc \ mem[m].doc :
             /\ f.ctx = epoch[m]
             /\ Captures(m) /\ f.author \in Role(m).writers]_vars
  BY AdmissionStep, ConstantsAssumption
<1> QED
  BY <1>1, <1>2, DocumentInvariant, PTL DEF Spec, ContentAdmitted, AdmittedInContext

=============================================================================
