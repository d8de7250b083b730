--------------------------- MODULE InventoryProof ---------------------------
(* What the warehouse inventory engine guarantees for every number of      *)
(* pickers, bins, lots and serial numbers, every receipt, pallet and count,*)
(* and every interleaving of its calls.                                    *)
EXTENDS Inventory, FoldLemmas

-----------------------------------------------------------------------------
(* The warehouse.  A ledger of lots: where a lot is, and what it holds.    *)

\* No lot twice, and no more serial numbers than units.
Ledgers ==
  {ls \in Seq(LotDetail) : /\ \A i, k \in DOMAIN ls : ls[i].lot = ls[k].lot => i = k
                           /\ \A i \in DOMAIN ls : Len(ls[i].serials) <= ls[i].qty}

LEMMA LedgerIs ==
  ASSUME NEW ls \in Ledgers
  PROVE  /\ ls \in Seq(LotDetail) /\ Len(ls) \in Nat /\ DOMAIN ls = 1..Len(ls)
         /\ \A i \in DOMAIN ls : /\ ls[i] \in LotDetail /\ ls[i].lot \in Lot /\ ls[i].qty \in Nat
                                 /\ ls[i].serials \in Seq(Serial) /\ Len(ls[i].serials) <= ls[i].qty
         /\ \A i, k \in DOMAIN ls : ls[i].lot = ls[k].lot => i = k
<1>1. ls \in Seq(LotDetail) /\ Len(ls) \in Nat /\ DOMAIN ls = 1..Len(ls)
  BY LenProperties DEF Ledgers
<1>2. \A i \in DOMAIN ls : ls[i] \in LotDetail
  BY <1>1, ElementOfSeq
<1> QED
  BY <1>1, <1>2 DEF Ledgers, LotDetail

\* The lot at a place, and a lot that has none.
LEMMA LotAt ==
  ASSUME NEW ls \in Ledgers, NEW i \in DOMAIN ls
  PROVE  /\ HasLot(ls, ls[i].lot) /\ PlaceOf(ls, ls[i].lot) = i
         /\ QtyOf(ls, ls[i].lot) = ls[i].qty /\ SerialsOf(ls, ls[i].lot) = ls[i].serials
<1> DEFINE T == {k \in 1..Len(ls) : ls[k].lot = ls[i].lot}
<1>1. i \in 1..Len(ls) /\ T = {i} /\ Len(ls) \in Nat
  BY LedgerIs
<1>2. PlaceOf(ls, ls[i].lot) = IF T # {} THEN Min(T) ELSE 0
  BY DEF PlaceOf, SelectInSeq
<1>3. Min(T) = i
  <2>1. \A y \in T : i <= y
    BY <1>1
  <2> HIDE DEF T
  <2> QED
    BY <1>1, <2>1 DEF Min
<1>4. PlaceOf(ls, ls[i].lot) = i /\ i # 0
  BY <1>1, <1>2, <1>3
<1> QED
  BY <1>4 DEF HasLot, QtyOf, SerialsOf

LEMMA LotMissing ==
  ASSUME NEW ls \in Ledgers, NEW l, \A i \in DOMAIN ls : ls[i].lot # l
  PROVE  PlaceOf(ls, l) = 0 /\ ~HasLot(ls, l) /\ QtyOf(ls, l) = 0 /\ SerialsOf(ls, l) = <<>>
<1> DEFINE T == {k \in 1..Len(ls) : ls[k].lot = l}
<1>1. T = {}
  BY LedgerIs
<1>2. PlaceOf(ls, l) = IF T # {} THEN Min(T) ELSE 0
  BY DEF PlaceOf, SelectInSeq
<1> QED
  BY <1>1, <1>2 DEF HasLot, QtyOf, SerialsOf

\* Either a lot has a place or it holds nothing.
LEMMA LotPlace ==
  ASSUME NEW ls \in Ledgers, NEW l
  PROVE  \/ /\ HasLot(ls, l) /\ PlaceOf(ls, l) \in DOMAIN ls /\ ls[PlaceOf(ls, l)].lot = l
            /\ QtyOf(ls, l) = ls[PlaceOf(ls, l)].qty /\ SerialsOf(ls, l) = ls[PlaceOf(ls, l)].serials
         \/ /\ ~HasLot(ls, l) /\ PlaceOf(ls, l) = 0 /\ \A i \in DOMAIN ls : ls[i].lot # l
            /\ QtyOf(ls, l) = 0 /\ SerialsOf(ls, l) = <<>>
<1>1. CASE \E i \in DOMAIN ls : ls[i].lot = l
  BY <1>1, LotAt
<1>2. CASE \A i \in DOMAIN ls : ls[i].lot # l
  BY <1>2, LotMissing
<1> QED
  BY <1>1, <1>2

LEMMA HeldIs ==
  ASSUME NEW ls \in Ledgers, NEW l
  PROVE  QtyOf(ls, l) \in Nat /\ SerialsOf(ls, l) \in Seq(Serial) /\ Len(SerialsOf(ls, l)) <= QtyOf(ls, l)
<1>1. CASE HasLot(ls, l)
  <2>1. PICK i \in DOMAIN ls : QtyOf(ls, l) = ls[i].qty /\ SerialsOf(ls, l) = ls[i].serials
    BY <1>1, LotPlace
  <2> QED
    BY <2>1, LedgerIs
<1>2. CASE ~HasLot(ls, l)
  <2>1. QtyOf(ls, l) = 0 /\ SerialsOf(ls, l) = <<>>
    BY <1>2, LotPlace
  <2>2. <<>> \in Seq(Serial) /\ Len(<<>>) = 0
    BY EmptySeq
  <2> QED
    BY <2>1, <2>2
<1> QED
  BY <1>1, <1>2

-----------------------------------------------------------------------------
(* The units of a list of lots or of draws.                                *)

Weighs(rows) == \A i \in 1..Len(rows) : rows[i].qty \in Nat

\* Adding up: one sum after each element.
LEMMA AmountChain ==
  ASSUME NEW D, NEW rows \in Seq(D), Weighs(rows)
  PROVE  \E r \in [0..Len(rows) -> Nat] :
           /\ r[0] = 0 /\ \A i \in 1..Len(rows) : r[i] = r[i - 1] + rows[i].qty
           /\ Units(rows) = r[Len(rows)]
<1> DEFINE N == Len(rows)
           F == [i \in 1..N |-> [t \in Nat |-> t + rows[i].qty]]
           Body(h, s) == IF s = {} THEN 0
                         ELSE h[s \ {Max(s)}] + rows[Max(s)].qty
           iter == CHOOSE h : h = [s \in SUBSET (DOMAIN rows) |-> Body(h, s)]
<1>1. N \in Nat /\ DOMAIN rows = 1..N /\ \A i \in 1..N : rows[i] \in D
  BY ElementOfSeq
<1>2. Units(rows) = iter[DOMAIN rows]
  BY DEF Units, FoldLeft, MapThenFoldSet
<1>3. F \in [1..N -> [Nat -> Nat]]
  BY <1>1 DEF Weighs
<1>4. \A s \in (SUBSET (1..N)) \ {{}} : Max(s) \in 1..N /\ s \ {Max(s)} \in SUBSET (1..N)
  <2>1. ASSUME NEW s \in (SUBSET (1..N)) \ {{}} PROVE Max(s) \in s
    <3>1. s \subseteq 0..N /\ s # {}
      OBVIOUS
    <3> QED
      BY <1>1, <3>1, Greatest
  <2> QED
    BY <2>1
<1>5. \A h, s : s \in (SUBSET (1..N)) \ {{}} /\ h[s \ {Max(s)}] \in Nat
                => F[Max(s)][h[s \ {Max(s)}]] = Body(h, s)
  BY <1>4
<1>6. \A h : Body(h, {}) = 0
  OBVIOUS
<1> HIDE DEF Body, F, N, iter
<1>7. Foldable(N, Nat, F, 0)
  <2>1. 0 \in Nat /\ N \in Nat
    BY <1>1
  <2> QED
    BY <1>3, <2>1, FoldRule
<1>8. PICK g \in [SUBSET (1..N) -> Nat], r \in [0..N -> Nat] :
        /\ Unfolds(g, N, F, 0) /\ Chain(r, N, F, 0)
        /\ \A h : Follows(h, N, Nat, F, 0) => h[1..N] = r[N]
  BY <1>7 DEF Foldable
<1>9. g = [s \in SUBSET (DOMAIN rows) |-> Body(g, s)]
  <2>1. ASSUME NEW s \in SUBSET (1..N) PROVE g[s] = Body(g, s)
    BY <1>4, <1>5, <1>6, <1>8 DEF Unfolds
  <2> QED
    BY <1>1, <2>1
<1>10. iter = [s \in SUBSET (DOMAIN rows) |-> Body(iter, s)]
  BY <1>9 DEF iter
<1>11. Follows(iter, N, Nat, F, 0)
  BY <1>1, <1>5, <1>6, <1>10 DEF Follows
<1>12. iter[1..N] = r[N]
  BY <1>8, <1>11
<1>13. \A i \in 1..N : r[i] = r[i - 1] + rows[i].qty
  <2>1. ASSUME NEW i \in 1..N PROVE r[i] = r[i - 1] + rows[i].qty
    <3>1. i - 1 \in 0..N /\ r[i - 1] \in Nat
      BY <1>1, <1>8
    <3> QED
      BY <1>8, <3>1 DEF Chain, F
  <2> QED
    BY <2>1
<1> QED
  BY <1>1, <1>2, <1>8, <1>12, <1>13 DEF Chain, N


LEMMA AmountOfMore ==
  ASSUME NEW D, NEW rows \in Seq(D), NEW e \in D, Weighs(rows), e.qty \in Nat
  PROVE  /\ Units(rows) \in Nat /\ Weighs(Append(rows, e))
         /\ Units(Append(rows, e)) = Units(rows) + e.qty
<1>1. PICK more : more = Append(rows, e)
  OBVIOUS
<1>2. PICK n \in Nat : n = Len(rows)
  BY LenProperties
<1>3. /\ more \in Seq(D) /\ Len(more) = n + 1 /\ more[n + 1] = e
      /\ \A i \in 1..n : more[i] = rows[i]
  BY <1>1, <1>2, AppendProperties
<1>4. Weighs(more)
  <2>1. \A i \in 1..(n + 1) : i \in 1..n \/ i = n + 1
    OBVIOUS
  <2> QED
    BY <1>2, <1>3, <2>1 DEF Weighs
<1>5. PICK r \in [0..n -> Nat] : /\ r[0] = 0 /\ \A i \in 1..n : r[i] = r[i - 1] + rows[i].qty
                                 /\ Units(rows) = r[n]
  BY <1>2, AmountChain
<1>6. PICK q \in [0..(n + 1) -> Nat] : /\ q[0] = 0 /\ \A i \in 1..(n + 1) : q[i] = q[i - 1] + more[i].qty
                                       /\ Units(more) = q[n + 1]
  BY <1>3, <1>4, AmountChain
<1> DEFINE G == {k \in 0..n : q[k] = r[k]}
<1>7. Climbs(G, n)
  <2>1. 0 \in G
    BY <1>5, <1>6
  <2>2. ASSUME NEW k \in 1..n, k - 1 \in G PROVE k \in G
    <3>1. k \in 1..(n + 1) /\ k \in 0..n /\ q[k - 1] = r[k - 1]
      BY <2>2
    <3>2. q[k] = q[k - 1] + rows[k].qty
      BY <1>3, <1>6, <3>1
    <3>3. r[k] = r[k - 1] + rows[k].qty
      BY <1>5
    <3> QED
      BY <3>1, <3>2, <3>3
  <2> QED
    BY <2>1, <2>2 DEF Climbs
<1>8. q[n] = r[n]
  BY <1>7, StepByStep
<1>9. q[n + 1] = q[n] + e.qty
  <2>1. n + 1 \in 1..(n + 1) /\ (n + 1) - 1 = n
    OBVIOUS
  <2> QED
    BY <1>3, <1>6, <2>1
<1>10. r[n] \in Nat
  BY <1>5
<1> QED
  BY <1>1, <1>4, <1>5, <1>6, <1>8, <1>9, <1>10

\* One element differs.
SameBut(rows, others, i) ==
  Len(rows) = Len(others) /\ i \in 1..Len(rows) /\ \A k \in 1..Len(rows) : k # i => rows[k].qty = others[k].qty

LEMMA AmountChanged ==
  ASSUME NEW D, NEW rows \in Seq(D), NEW others \in Seq(D), Weighs(rows), Weighs(others),
         NEW i, SameBut(rows, others, i)
  PROVE  /\ Units(rows) \in Nat /\ Units(others) \in Nat
         /\ Units(rows) = Units(others) + (rows[i].qty - others[i].qty)
<1>1. PICK n \in Nat : n = Len(rows) /\ n = Len(others)
  BY LenProperties DEF SameBut
<1>2. PICK r \in [0..n -> Nat] : /\ r[0] = 0 /\ \A k \in 1..n : r[k] = r[k - 1] + rows[k].qty
                                 /\ Units(rows) = r[n]
  BY <1>1, AmountChain
<1>3. PICK q \in [0..n -> Nat] : /\ q[0] = 0 /\ \A k \in 1..n : q[k] = q[k - 1] + others[k].qty
                                 /\ Units(others) = q[n]
  BY <1>1, AmountChain
<1>4. i \in 1..n
  BY <1>1 DEF SameBut
<1>a. \A k \in 1..n : rows[k].qty \in Nat
  BY <1>1 DEF Weighs
<1>b. \A k \in 1..n : others[k].qty \in Nat
  BY <1>1 DEF Weighs
<1>c. \A k \in 1..n : k # i => rows[k].qty = others[k].qty
  BY <1>1 DEF SameBut
<1>5. PICK d \in Int : d = rows[i].qty - others[i].qty
  <2>1. rows[i].qty \in Nat /\ others[i].qty \in Nat
    BY <1>4, <1>a, <1>b
  <2>2. rows[i].qty - others[i].qty \in Int
    BY <2>1
  <2> QED
    BY <2>2
<1> DEFINE G == {k \in 0..n : (k < i => r[k] = q[k]) /\ (k >= i => r[k] = q[k] + d)}
<1>0. \A k \in 0..n : k \in G <=> (k < i => r[k] = q[k]) /\ (k >= i => r[k] = q[k] + d)
  OBVIOUS
<1> HIDE DEF G
<1>6. Climbs(G, n)
  <2>1. 0 \in G
    BY <1>0, <1>2, <1>3, <1>4
  <2>2. ASSUME NEW k \in 1..n, k - 1 \in G PROVE k \in G
    <3>1. k - 1 \in 0..n /\ k \in 0..n /\ i \in 1..n
      BY <1>4
    <3>a. /\ r[k - 1] \in Nat /\ q[k - 1] \in Nat
          /\ k - 1 < i => r[k - 1] = q[k - 1]
          /\ k - 1 >= i => r[k - 1] = q[k - 1] + d
      BY <1>0, <1>2, <1>3, <2>2, <3>1
    <3>b. rows[k].qty \in Nat /\ others[k].qty \in Nat /\ (k # i => rows[k].qty = others[k].qty)
      BY <1>a, <1>b, <1>c
    <3>2. PICK a \in Nat, b \in Nat, x \in Nat, y \in Nat :
            a = r[k - 1] /\ b = q[k - 1] /\ x = rows[k].qty /\ y = others[k].qty
      BY <3>a, <3>b
    <3>3. r[k] = a + x /\ q[k] = b + y
      BY <1>2, <1>3, <3>2
    <3>4. CASE k < i
      <4>1. a = b /\ x = y
        BY <3>a, <3>b, <3>1, <3>2, <3>4
      <4>2. r[k] = q[k] /\ ~(k >= i)
        BY <3>1, <3>3, <3>4, <4>1
      <4> QED
        BY <1>0, <3>1, <4>2
    <3>5. CASE k = i
      <4>1. a = b /\ d = x - y
        BY <1>5, <3>a, <3>1, <3>2, <3>5
      <4>2. r[k] = q[k] + d /\ ~(k < i)
        BY <3>1, <3>3, <3>5, <4>1
      <4> QED
        BY <1>0, <3>1, <4>2
    <3>6. CASE k > i
      <4>1. a = b + d /\ x = y
        BY <3>a, <3>b, <3>1, <3>2, <3>6
      <4>2. r[k] = q[k] + d /\ ~(k < i)
        BY <3>1, <3>3, <3>6, <4>1
      <4> QED
        BY <1>0, <3>1, <4>2
    <3> QED
      BY <3>1, <3>4, <3>5, <3>6
  <2> QED
    BY <2>1, <2>2 DEF Climbs
<1>7. n \in G /\ n \in 0..n /\ n >= i
  BY <1>4, <1>6, StepByStep
<1>8. r[n] = q[n] + d /\ r[n] \in Nat /\ q[n] \in Nat
  BY <1>0, <1>2, <1>3, <1>7
<1> QED
  BY <1>2, <1>3, <1>5, <1>8

\* Nothing, one, and as far as a position.
LEMMA AmountOfNone == Units(<<>>) = 0
<1>1. <<>> \in Seq(Line) /\ Len(<<>>) = 0
  BY EmptySeq
<1>2. Weighs(<<>>)
  BY <1>1 DEF Weighs
<1>3. PICK rows : rows = <<>>
  OBVIOUS
<1>4. PICK r \in [0..Len(rows) -> Nat] : r[0] = 0 /\ Units(rows) = r[Len(rows)]
  BY <1>1, <1>2, <1>3, AmountChain
<1> QED
  BY <1>1, <1>3, <1>4

LEMMA AmountOfOne ==
  ASSUME NEW d \in Line
  PROVE  Units(<<d>>) = d.qty
<1>1. <<>> \in Seq(Line) /\ Len(<<>>) = 0 /\ d.qty \in Nat
  BY EmptySeq DEF Line
<1>2. Weighs(<<>>)
  BY <1>1 DEF Weighs
<1>3. Units(Append(<<>>, d)) = Units(<<>>) + d.qty
  BY <1>1, <1>2, AmountOfMore
<1>4. Append(<<>>, d) = <<d>>
  OBVIOUS
<1> QED
  BY <1>1, <1>3, <1>4, AmountOfNone

-----------------------------------------------------------------------------
(* What a receipt, a draw and the removal of empty lots do to a ledger.    *)

\* The ledger `new` is `ls` but for lot l, which holds q units and the serials s.
HoldsNow(new, ls, l, q, s) ==
  /\ new \in Ledgers
  /\ QtyOf(new, l) = q /\ SerialsOf(new, l) = s
  /\ \A x : x # l => QtyOf(new, x) = QtyOf(ls, x) /\ SerialsOf(new, x) = SerialsOf(ls, x)
  /\ Units(new) = Units(ls) + (q - QtyOf(ls, l))

LEMMA LedgerWeighs ==
  ASSUME NEW ls \in Ledgers
  PROVE  Weighs(ls) /\ Units(ls) \in Nat
<1>1. ls \in Seq(LotDetail) /\ DOMAIN ls = 1..Len(ls) /\ Len(ls) \in Nat
      /\ \A i \in DOMAIN ls : ls[i].qty \in Nat
  BY LedgerIs
<1>2. Weighs(ls)
  BY <1>1 DEF Weighs
<1>3. PICK r \in [0..Len(ls) -> Nat] : Units(ls) = r[Len(ls)]
  BY <1>1, <1>2, AmountChain
<1> QED
  BY <1>1, <1>2, <1>3

LEMMA LotReplaced ==
  ASSUME NEW ls \in Ledgers, NEW i \in DOMAIN ls, NEW e \in LotDetail, e.lot = ls[i].lot,
         Len(e.serials) <= e.qty, NEW new, new = [ls EXCEPT ![i] = e]
  PROVE  HoldsNow(new, ls, e.lot, e.qty, e.serials)
<1>1. /\ ls \in Seq(LotDetail) /\ Len(ls) \in Nat /\ DOMAIN ls = 1..Len(ls) /\ i \in 1..Len(ls)
      /\ \A k \in DOMAIN ls : ls[k].qty \in Nat
  BY LedgerIs
<1>2. /\ new \in Seq(LotDetail) /\ Len(new) = Len(ls) /\ new[i] = e /\ DOMAIN new = DOMAIN ls
      /\ \A k \in DOMAIN ls : k # i => new[k] = ls[k]
  BY <1>1, ExceptSeq
<1>3. \A k \in DOMAIN ls : new[k].lot = ls[k].lot
  BY <1>2
<1>4. \A k \in DOMAIN ls : Len(new[k].serials) <= new[k].qty
  <2>1. ASSUME NEW k \in DOMAIN ls PROVE Len(new[k].serials) <= new[k].qty
    <3>1. CASE k = i
      BY <1>2, <3>1
    <3>2. CASE k # i
      BY <1>2, <3>2, LedgerIs
    <3> QED
      BY <3>1, <3>2
  <2> QED
    BY <2>1
<1>5. new \in Ledgers
  <2>1. \A j, k \in DOMAIN new : new[j].lot = new[k].lot => j = k
    <3>1. \A j, k \in DOMAIN ls : ls[j].lot = ls[k].lot => j = k
      BY LedgerIs
    <3> QED
      BY <1>2, <1>3, <3>1
  <2> QED
    BY <1>2, <1>4, <2>1 DEF Ledgers
<1>6. QtyOf(new, e.lot) = e.qty /\ SerialsOf(new, e.lot) = e.serials
  BY <1>2, <1>5, LotAt
<1>7. ASSUME NEW x, x # e.lot PROVE QtyOf(new, x) = QtyOf(ls, x) /\ SerialsOf(new, x) = SerialsOf(ls, x)
  <2>1. CASE \E k \in DOMAIN ls : ls[k].lot = x
    <3>1. PICK k \in DOMAIN ls : ls[k].lot = x
      BY <2>1
    <3>2. k # i /\ k \in DOMAIN new /\ new[k] = ls[k]
      BY <1>2, <1>7, <3>1
    <3>3. QtyOf(ls, x) = ls[k].qty /\ SerialsOf(ls, x) = ls[k].serials
      BY <3>1, LotAt
    <3>4. QtyOf(new, x) = new[k].qty /\ SerialsOf(new, x) = new[k].serials
      BY <1>5, <3>1, <3>2, LotAt
    <3> QED
      BY <3>2, <3>3, <3>4
  <2>2. CASE \A k \in DOMAIN ls : ls[k].lot # x
    <3>1. \A k \in DOMAIN new : new[k].lot # x
      BY <1>2, <1>3, <2>2
    <3> QED
      BY <1>5, <2>2, <3>1, LotMissing
  <2> QED
    BY <2>1, <2>2
<1>8. Units(new) = Units(ls) + (e.qty - QtyOf(ls, e.lot))
  <2>1. Weighs(ls) /\ Weighs(new)
    BY <1>5, LedgerWeighs
  <2>2. SameBut(new, ls, i)
    BY <1>1, <1>2 DEF SameBut
  <2>3. Units(new) = Units(ls) + (new[i].qty - ls[i].qty)
    <3>1. ls \in Seq(LotDetail) /\ new \in Seq(LotDetail)
      BY <1>1, <1>2
    <3> QED
      BY <2>1, <2>2, <3>1, AmountChanged
  <2>4. QtyOf(ls, e.lot) = ls[i].qty
    BY LotAt
  <2> QED
    BY <1>2, <2>3, <2>4
<1> QED
  BY <1>5, <1>6, <1>7, <1>8 DEF HoldsNow

LEMMA LotAdded ==
  ASSUME NEW ls \in Ledgers, NEW e \in LotDetail, \A k \in DOMAIN ls : ls[k].lot # e.lot,
         Len(e.serials) <= e.qty, NEW new, new = Append(ls, e)
  PROVE  HoldsNow(new, ls, e.lot, e.qty, e.serials)
<1>1. /\ ls \in Seq(LotDetail) /\ Len(ls) \in Nat /\ DOMAIN ls = 1..Len(ls)
      /\ \A j, k \in DOMAIN ls : ls[j].lot = ls[k].lot => j = k
  BY LedgerIs
<1>2. PICK n \in Nat : n = Len(ls)
  BY <1>1
<1>3. /\ new \in Seq(LotDetail) /\ Len(new) = n + 1 /\ new[n + 1] = e
      /\ \A k \in 1..n : new[k] = ls[k]
  BY <1>1, <1>2, AppendProperties
<1>4. DOMAIN new = 1..(n + 1) /\ DOMAIN ls = 1..n /\ \A k \in 1..(n + 1) : k \in 1..n \/ k = n + 1
  BY <1>1, <1>2, <1>3, LenProperties
<1>5. new \in Ledgers
  <2>1. ASSUME NEW j \in 1..(n + 1), NEW k \in 1..(n + 1), new[j].lot = new[k].lot PROVE j = k
    <3>1. CASE j \in 1..n /\ k \in 1..n
      BY <1>1, <1>3, <1>4, <2>1, <3>1
    <3>2. CASE j = n + 1 /\ k \in 1..n
      BY <1>3, <1>4, <2>1, <3>2
    <3>3. CASE k = n + 1 /\ j \in 1..n
      BY <1>3, <1>4, <2>1, <3>3
    <3> QED
      BY <1>4, <3>1, <3>2, <3>3
  <2>2. ASSUME NEW k \in 1..(n + 1) PROVE Len(new[k].serials) <= new[k].qty
    <3>1. CASE k = n + 1
      BY <1>3, <3>1
    <3>2. CASE k \in 1..n
      <4>1. new[k] = ls[k] /\ k \in DOMAIN ls
        BY <1>3, <1>4, <3>2
      <4> QED
        BY <4>1, LedgerIs
    <3> QED
      BY <1>4, <3>1, <3>2
  <2> QED
    BY <1>3, <1>4, <2>1, <2>2 DEF Ledgers
<1>6. QtyOf(new, e.lot) = e.qty /\ SerialsOf(new, e.lot) = e.serials
  <2>1. n + 1 \in DOMAIN new
    BY <1>4
  <2> QED
    <3>1. QtyOf(new, new[n + 1].lot) = new[n + 1].qty /\ SerialsOf(new, new[n + 1].lot) = new[n + 1].serials
      BY <1>5, <2>1, LotAt
    <3>2. new[n + 1] = e
      BY <1>3
    <3> QED
      BY <3>1, <3>2, Zenon
<1>7. ASSUME NEW x, x # e.lot PROVE QtyOf(new, x) = QtyOf(ls, x) /\ SerialsOf(new, x) = SerialsOf(ls, x)
  <2>1. CASE \E k \in DOMAIN ls : ls[k].lot = x
    <3>1. PICK k \in DOMAIN ls : ls[k].lot = x
      BY <2>1
    <3>2. k \in DOMAIN new /\ new[k] = ls[k]
      BY <1>3, <1>4
    <3>3. QtyOf(ls, x) = ls[k].qty /\ SerialsOf(ls, x) = ls[k].serials
      BY <3>1, LotAt
    <3>4. QtyOf(new, x) = new[k].qty /\ SerialsOf(new, x) = new[k].serials
      BY <1>5, <3>1, <3>2, LotAt
    <3> QED
      BY <3>2, <3>3, <3>4
  <2>2. CASE \A k \in DOMAIN ls : ls[k].lot # x
    <3>1. \A k \in DOMAIN new : new[k].lot # x
      BY <1>3, <1>4, <1>7, <2>2
    <3>2. QtyOf(new, x) = 0 /\ SerialsOf(new, x) = <<>>
      BY <1>5, <3>1, LotMissing
    <3>3. QtyOf(ls, x) = 0 /\ SerialsOf(ls, x) = <<>>
      BY <2>2, LotMissing
    <3> QED
      BY <3>2, <3>3
  <2> QED
    BY <2>1, <2>2
<1>8. Units(new) = Units(ls) + (e.qty - QtyOf(ls, e.lot))
  <2>1. QtyOf(ls, e.lot) = 0
    BY LotMissing
  <2>2. e.qty \in Nat /\ Weighs(ls) /\ Units(ls) \in Nat
    BY LedgerWeighs DEF LotDetail
  <2>3. Units(new) = Units(ls) + e.qty
    BY <1>1, <2>2, AmountOfMore
  <2> QED
    BY <2>1, <2>2, <2>3
<1> QED
  BY <1>5, <1>6, <1>7, <1>8 DEF HoldsNow

\* How much is left of a lot, and of its serials, after a draw of d units.
Left(q, d) == IF d <= q THEN q - d ELSE 0
Kept(s, d) == IF d <= Len(s) THEN SubSeq(s, d + 1, Len(s)) ELSE <<>>

LEMMA DrawnIs ==
  ASSUME NEW e \in LotDetail, Len(e.serials) <= e.qty, NEW d \in Nat, NEW f, f = Drawn(e, d)
  PROVE  /\ f \in LotDetail /\ f.lot = e.lot /\ Len(f.serials) <= f.qty
         /\ f.qty = Left(e.qty, d) /\ f.serials = Kept(e.serials, d)
<1>1. e.qty \in Nat /\ e.serials \in Seq(Serial) /\ Len(e.serials) \in Nat
  BY LenProperties DEF LotDetail
<1>2. PICK q \in Nat, s \in Seq(Serial) : q = e.qty /\ s = e.serials
  BY <1>1
<1>3. PICK n \in Nat : n = Len(s)
  BY <1>1, <1>2
<1>4. PICK m \in Nat : m = Min({n, d}) /\ m = IF n <= d THEN n ELSE d
  BY <1>3, LesserOfTwo
<1>5. Max({0, q - d}) = Left(q, d)
  <2>1. Max({0, q - d}) = IF 0 >= q - d THEN 0 ELSE q - d
    BY GreaterOfTwo
  <2> QED
    BY <2>1 DEF Left
<1>6. f = [e EXCEPT !.qty = Left(q, d), !.serials = SubSeq(s, m + 1, n)]
  BY <1>2, <1>3, <1>4, <1>5 DEF Drawn
<1>7. SubSeq(s, m + 1, n) = Kept(s, d)
  <2>1. CASE d <= n
    <3>1. m = d
      BY <1>4, <2>1
    <3> QED
      BY <1>3, <2>1, <3>1 DEF Kept
  <2>2. CASE ~(d <= n)
    <3>1. m = n /\ n < m + 1 /\ m + 1 \in Int /\ n \in Int
      BY <1>4, <2>2
    <3>2. SubSeq(s, m + 1, n) = <<>>
      BY <3>1, SubSeqEmpty
    <3> QED
      BY <1>3, <2>2, <3>2 DEF Kept
  <2> QED
    BY <2>1, <2>2
<1>8. SubSeq(s, m + 1, n) \in Seq(Serial) /\ Len(SubSeq(s, m + 1, n)) = n - m
  <2>1. m <= n
    BY <1>4
  <2>2. \A i \in (m + 1)..n : s[i] \in Serial
    <3>1. \A i \in (m + 1)..n : i \in 1..n
      BY <1>4
    <3>2. \A i \in 1..n : s[i] \in Serial
      BY <1>1, <1>2, <1>3, ElementOfSeq
    <3> QED
      BY <3>1, <3>2
  <2>3. m + 1 \in Int /\ n \in Int
    OBVIOUS
  <2>4. /\ SubSeq(s, m + 1, n) \in Seq(Serial)
        /\ Len(SubSeq(s, m + 1, n)) = IF m + 1 <= n THEN n - (m + 1) + 1 ELSE 0
    BY <2>2, <2>3, SubSeqProperties
  <2> QED
    BY <2>1, <2>4
<1>9. Left(q, d) \in Nat /\ n - m <= Left(q, d)
  <2>1. n <= q
    BY <1>2, <1>3
  <2>2. CASE d <= q
    <3>1. Left(q, d) = q - d
      BY <2>2 DEF Left
    <3>2. n - m <= q - d
      <4>1. CASE n <= d
        <5>1. m = n
          BY <1>4, <4>1
        <5> QED
          BY <2>2, <5>1
      <4>2. CASE ~(n <= d)
        <5>1. m = d
          BY <1>4, <4>2
        <5> QED
          BY <2>1, <5>1
      <4> QED
        BY <4>1, <4>2
    <3> QED
      BY <2>2, <3>1, <3>2
  <2>3. CASE ~(d <= q)
    <3>1. Left(q, d) = 0 /\ n <= d
      BY <2>1, <2>3 DEF Left
    <3>2. m = n
      BY <1>4, <3>1
    <3> QED
      BY <3>1, <3>2
  <2> QED
    BY <2>2, <2>3
<1>10. f \in LotDetail /\ f.lot = e.lot /\ f.qty = Left(q, d) /\ f.serials = SubSeq(s, m + 1, n)
  BY <1>6, <1>8, <1>9 DEF LotDetail
<1> QED
  BY <1>2, <1>7, <1>8, <1>9, <1>10

\* A draw from a ledger.
LEMMA DrawIs ==
  ASSUME NEW ls \in Ledgers, NEW d \in Line
  PROVE  HoldsNow(AfterDraw(ls, d), ls, d.lot, Left(QtyOf(ls, d.lot), d.qty), Kept(SerialsOf(ls, d.lot), d.qty))
<1>1. d.qty \in Nat
  BY DEF Line
<1>2. PICK new : new = AfterDraw(ls, d)
  OBVIOUS
<1>3. CASE HasLot(ls, d.lot)
  <2>1. PICK i : i = PlaceOf(ls, d.lot)
    OBVIOUS
  <2>2. i \in DOMAIN ls /\ ls[i].lot = d.lot /\ QtyOf(ls, d.lot) = ls[i].qty /\ SerialsOf(ls, d.lot) = ls[i].serials
    BY <1>3, <2>1, LotPlace
  <2>3. PICK f : f = Drawn(ls[i], d.qty)
    OBVIOUS
  <2>4. new = [ls EXCEPT ![i] = f]
    BY <1>2, <1>3, <2>1, <2>3 DEF AfterDraw
  <2>5. ls[i] \in LotDetail /\ Len(ls[i].serials) <= ls[i].qty
    BY <2>2, LedgerIs
  <2>6. /\ f \in LotDetail /\ f.lot = d.lot /\ Len(f.serials) <= f.qty
        /\ f.qty = Left(ls[i].qty, d.qty) /\ f.serials = Kept(ls[i].serials, d.qty)
    BY <1>1, <2>2, <2>3, <2>5, DrawnIs
  <2>7. f.lot = ls[i].lot
    BY <2>2, <2>6
  <2>8. HoldsNow(new, ls, f.lot, f.qty, f.serials)
    BY <2>2, <2>4, <2>6, <2>7, LotReplaced
  <2> QED
    BY <1>2, <2>2, <2>6, <2>8, Zenon
<1>4. CASE ~HasLot(ls, d.lot)
  <2>1. new = ls
    BY <1>2, <1>4 DEF AfterDraw
  <2>2. QtyOf(ls, d.lot) = 0 /\ SerialsOf(ls, d.lot) = <<>>
    BY <1>4, LotPlace
  <2>3. Left(0, d.qty) = 0
    BY <1>1 DEF Left
  <2>4. Kept(<<>>, d.qty) = <<>>
    <3>1. Len(<<>>) = 0 /\ SubSeq(<<>>, 1, 0) = <<>>
      BY SubSeqEmpty, EmptySeq
    <3>2. CASE d.qty = 0
      BY <3>1, <3>2 DEF Kept
    <3>3. CASE d.qty # 0
      BY <1>1, <3>1, <3>3 DEF Kept
    <3> QED
      BY <3>2, <3>3
  <2>5. Units(ls) \in Nat
    BY LedgerWeighs
  <2> QED
    BY <1>2, <2>1, <2>2, <2>3, <2>4, <2>5 DEF HoldsNow
<1> QED
  BY <1>3, <1>4

\* A receipt.
LEMMA ReceiptIs ==
  ASSUME NEW ls \in Ledgers, NEW r \in LotDetail, Len(r.serials) <= r.qty
  PROVE  HoldsNow(WithReceipt(ls, r), ls, r.lot, QtyOf(ls, r.lot) + r.qty, SerialsOf(ls, r.lot) \o r.serials)
<1>1. PICK new : new = WithReceipt(ls, r)
  OBVIOUS
<1>2. r.qty \in Nat /\ r.expiry \in Nat /\ r.serials \in Seq(Serial) /\ Len(r.serials) \in Nat
  BY LenProperties DEF LotDetail
<1>3. CASE HasLot(ls, r.lot)
  <2>1. PICK i : i = PlaceOf(ls, r.lot)
    OBVIOUS
  <2>2. i \in DOMAIN ls /\ ls[i].lot = r.lot /\ QtyOf(ls, r.lot) = ls[i].qty /\ SerialsOf(ls, r.lot) = ls[i].serials
    BY <1>3, <2>1, LotPlace
  <2>3. i # 0
    BY <1>3, <2>1 DEF HasLot
  <2>4. PICK e : e = ls[i]
    OBVIOUS
  <2>5. e \in LotDetail /\ Len(e.serials) <= e.qty /\ e.qty \in Nat /\ e.expiry \in Nat /\ e.serials \in Seq(Serial)
    BY <2>2, <2>4, LedgerIs DEF LotDetail
  <2>6. PICK f : f = Merged(e, r)
    OBVIOUS
  <2>7. new = [ls EXCEPT ![i] = f]
    BY <1>1, <2>1, <2>3, <2>4, <2>6 DEF WithReceipt
  <2>8. e.serials \o r.serials \in Seq(Serial) /\ Len(e.serials \o r.serials) = Len(e.serials) + Len(r.serials)
    BY <1>2, <2>5, ConcatProperties
  <2>9. /\ f \in LotDetail /\ f.lot = e.lot /\ f.qty = e.qty + r.qty /\ f.serials = e.serials \o r.serials
    <3>1. PICK more \in Seq(Serial), x \in Nat, y \in Nat :
            /\ more = e.serials \o r.serials /\ x = e.qty + r.qty
            /\ y = IF r.expiry # 0 THEN r.expiry ELSE e.expiry
      <4>1. e.serials \o r.serials \in Seq(Serial) /\ e.qty + r.qty \in Nat
        BY <1>2, <2>5, <2>8
      <4>2. (IF r.expiry # 0 THEN r.expiry ELSE e.expiry) \in Nat
        BY <1>2, <2>5
      <4> QED
        BY <4>1, <4>2
    <3>2. f = [e EXCEPT !.qty = x, !.serials = more, !.expiry = y]
      BY <2>6, <3>1 DEF Merged
    <3>3. f \in LotDetail /\ f.lot = e.lot /\ f.qty = x /\ f.serials = more
      BY <2>5, <3>2 DEF LotDetail
    <3> QED
      BY <3>1, <3>3
  <2>10. Len(f.serials) <= f.qty
    <3>1. Len(e.serials) \in Nat
      BY <2>5, LenProperties
    <3>2. PICK a \in Nat, b \in Nat, x \in Nat, y \in Nat :
            a = Len(e.serials) /\ b = Len(r.serials) /\ x = e.qty /\ y = r.qty
      BY <1>2, <2>5, <3>1
    <3>3. a <= x /\ b <= y /\ Len(f.serials) = a + b /\ f.qty = x + y
      BY <2>5, <2>8, <2>9, <3>2
    <3> QED
      BY <3>3
  <2>11. HoldsNow(new, ls, f.lot, f.qty, f.serials)
    BY <2>2, <2>4, <2>7, <2>9, <2>10, LotReplaced
  <2>12. f.lot = r.lot /\ f.qty = QtyOf(ls, r.lot) + r.qty /\ f.serials = SerialsOf(ls, r.lot) \o r.serials
    BY <2>2, <2>4, <2>9
  <2> QED
    BY <1>1, <2>11, <2>12, Zenon
<1>4. CASE ~HasLot(ls, r.lot)
  <2>1. QtyOf(ls, r.lot) = 0 /\ SerialsOf(ls, r.lot) = <<>> /\ PlaceOf(ls, r.lot) = 0
        /\ \A k \in DOMAIN ls : ls[k].lot # r.lot
    BY <1>4, LotPlace
  <2>2. new = Append(ls, r)
    BY <1>1, <2>1 DEF WithReceipt
  <2>3. HoldsNow(new, ls, r.lot, r.qty, r.serials)
    BY <2>1, <2>2, LotAdded
  <2>4. r.qty = QtyOf(ls, r.lot) + r.qty /\ r.serials = SerialsOf(ls, r.lot) \o r.serials
    BY <1>2, <2>1, ConcatEmptySeq
  <2> QED
    BY <1>1, <2>3, <2>4
<1> QED
  BY <1>3, <1>4

\* A plan's draws, one after another.
LEMMA DrawsChain ==
  ASSUME NEW ls \in Ledgers, NEW plan \in Seq(Line)
  PROVE  \E r \in [0..Len(plan) -> Ledgers] :
           /\ r[0] = ls /\ \A i \in 1..Len(plan) : r[i] = AfterDraw(r[i - 1], plan[i])
           /\ AfterDraws(ls, plan) = r[Len(plan)]
<1> DEFINE N == Len(plan)
           F == [i \in 1..N |-> [t \in Ledgers |-> AfterDraw(t, plan[i])]]
           Body(h, s) == IF s = {} THEN ls
                         ELSE AfterDraw(h[s \ {Max(s)}], plan[Max(s)])
           iter == CHOOSE h : h = [s \in SUBSET (DOMAIN plan) |-> Body(h, s)]
<1>1. N \in Nat /\ DOMAIN plan = 1..N /\ \A i \in 1..N : plan[i] \in Line
  BY ElementOfSeq
<1>2. AfterDraws(ls, plan) = iter[DOMAIN plan]
  BY DEF AfterDraws, FoldLeft, MapThenFoldSet
<1>3. F \in [1..N -> [Ledgers -> Ledgers]]
  BY <1>1, DrawIs DEF HoldsNow
<1>4. \A s \in (SUBSET (1..N)) \ {{}} : Max(s) \in 1..N /\ s \ {Max(s)} \in SUBSET (1..N)
  <2>1. ASSUME NEW s \in (SUBSET (1..N)) \ {{}} PROVE Max(s) \in s
    <3>1. s \subseteq 0..N /\ s # {}
      OBVIOUS
    <3> QED
      BY <1>1, <3>1, Greatest
  <2> QED
    BY <2>1
<1>5. \A h, s : s \in (SUBSET (1..N)) \ {{}} /\ h[s \ {Max(s)}] \in Ledgers
                => F[Max(s)][h[s \ {Max(s)}]] = Body(h, s)
  BY <1>4
<1>6. \A h : Body(h, {}) = ls
  OBVIOUS
<1> HIDE DEF Body, F, N, iter
<1>7. Foldable(N, Ledgers, F, ls)
  <2>1. ls \in Ledgers /\ N \in Nat
    BY <1>1
  <2> QED
    BY <1>3, <2>1, FoldRule
<1>8. PICK g \in [SUBSET (1..N) -> Ledgers], r \in [0..N -> Ledgers] :
        /\ Unfolds(g, N, F, ls) /\ Chain(r, N, F, ls)
        /\ \A h : Follows(h, N, Ledgers, F, ls) => h[1..N] = r[N]
  BY <1>7 DEF Foldable
<1>9. g = [s \in SUBSET (DOMAIN plan) |-> Body(g, s)]
  <2>1. ASSUME NEW s \in SUBSET (1..N) PROVE g[s] = Body(g, s)
    BY <1>4, <1>5, <1>6, <1>8 DEF Unfolds
  <2> QED
    BY <1>1, <2>1
<1>10. iter = [s \in SUBSET (DOMAIN plan) |-> Body(iter, s)]
  BY <1>9 DEF iter
<1>11. Follows(iter, N, Ledgers, F, ls)
  BY <1>1, <1>5, <1>6, <1>10 DEF Follows
<1>12. iter[1..N] = r[N]
  BY <1>8, <1>11
<1>13. \A i \in 1..N : r[i] = AfterDraw(r[i - 1], plan[i])
  <2>1. ASSUME NEW i \in 1..N PROVE r[i] = AfterDraw(r[i - 1], plan[i])
    <3>1. i - 1 \in 0..N /\ r[i - 1] \in Ledgers
      BY <1>1, <1>8
    <3> QED
      BY <1>8, <3>1 DEF Chain, F
  <2> QED
    BY <2>1
<1> QED
  BY <1>1, <1>2, <1>8, <1>12, <1>13 DEF Chain, N


\* Ledgers that hold the same, whatever the order of their lots.
Alike(a, b) == \A l : QtyOf(a, l) = QtyOf(b, l) /\ SerialsOf(a, l) = SerialsOf(b, l)

LEMMA DrawAlike ==
  ASSUME NEW a \in Ledgers, NEW b \in Ledgers, Alike(a, b), NEW d \in Line
  PROVE  AfterDraw(a, d) \in Ledgers /\ AfterDraw(b, d) \in Ledgers /\ Alike(AfterDraw(a, d), AfterDraw(b, d))
<1>1. PICK x, y : x = AfterDraw(a, d) /\ y = AfterDraw(b, d)
  OBVIOUS
<1>2. HoldsNow(x, a, d.lot, Left(QtyOf(a, d.lot), d.qty), Kept(SerialsOf(a, d.lot), d.qty))
  BY <1>1, DrawIs
<1>3. HoldsNow(y, b, d.lot, Left(QtyOf(b, d.lot), d.qty), Kept(SerialsOf(b, d.lot), d.qty))
  BY <1>1, DrawIs
<1>4. QtyOf(a, d.lot) = QtyOf(b, d.lot) /\ SerialsOf(a, d.lot) = SerialsOf(b, d.lot)
  BY DEF Alike
<1>5. ASSUME NEW l PROVE QtyOf(x, l) = QtyOf(y, l) /\ SerialsOf(x, l) = SerialsOf(y, l)
  <2>1. CASE l = d.lot
    BY <1>2, <1>3, <1>4, <2>1 DEF HoldsNow
  <2>2. CASE l # d.lot
    BY <1>2, <1>3, <2>2 DEF HoldsNow, Alike
  <2> QED
    BY <2>1, <2>2
<1>6. x \in Ledgers /\ y \in Ledgers /\ Alike(x, y)
  BY <1>2, <1>3, <1>5 DEF HoldsNow, Alike
<1> QED
  BY <1>1, <1>6

LEMMA DrawsAlike ==
  ASSUME NEW a \in Ledgers, NEW b \in Ledgers, Alike(a, b), NEW plan \in Seq(Line)
  PROVE  AfterDraws(a, plan) \in Ledgers /\ AfterDraws(b, plan) \in Ledgers /\ Alike(AfterDraws(a, plan), AfterDraws(b, plan))
<1>1. PICK n \in Nat : n = Len(plan)
  BY LenProperties
<1>2. PICK r \in [0..n -> Ledgers] : /\ r[0] = a /\ \A i \in 1..n : r[i] = AfterDraw(r[i - 1], plan[i])
                                     /\ AfterDraws(a, plan) = r[n]
  BY <1>1, DrawsChain
<1>3. PICK q \in [0..n -> Ledgers] : /\ q[0] = b /\ \A i \in 1..n : q[i] = AfterDraw(q[i - 1], plan[i])
                                     /\ AfterDraws(b, plan) = q[n]
  BY <1>1, DrawsChain
<1> DEFINE G == {k \in 0..n : Alike(r[k], q[k])}
<1>4. Climbs(G, n)
  <2>1. 0 \in G
    BY <1>2, <1>3
  <2>2. ASSUME NEW k \in 1..n, k - 1 \in G PROVE k \in G
    <3>1. PICK x \in Ledgers, y \in Ledgers : x = r[k - 1] /\ y = q[k - 1]
      BY <1>2, <1>3
    <3>2. Alike(x, y) /\ r[k] = AfterDraw(x, plan[k]) /\ q[k] = AfterDraw(y, plan[k]) /\ plan[k] \in Line /\ k \in 0..n
      BY <1>1, <1>2, <1>3, <2>2, <3>1, ElementOfSeq
    <3>3. Alike(AfterDraw(x, plan[k]), AfterDraw(y, plan[k]))
      BY <3>2, DrawAlike
    <3> QED
      BY <3>2, <3>3
  <2> HIDE DEF G
  <2> QED
    BY <2>1, <2>2 DEF Climbs
<1>5. Alike(r[n], q[n])
  BY <1>4, StepByStep
<1> QED
  BY <1>2, <1>3, <1>5

\* What a ledger is after the first k draws of a plan.
DrawnSoFar(new, ls, plan, k) ==
  \A l : \/ \E i \in 1..k : /\ plan[i].lot = l
                            /\ QtyOf(new, l) = Left(QtyOf(ls, l), plan[i].qty)
                            /\ SerialsOf(new, l) = Kept(SerialsOf(ls, l), plan[i].qty)
         \/ /\ \A i \in 1..k : plan[i].lot # l
            /\ QtyOf(new, l) = QtyOf(ls, l) /\ SerialsOf(new, l) = SerialsOf(ls, l)

\* A plan names no lot twice, only lots there are, and draws no more than they hold.
Fits(ls, plan) ==
  /\ \A i, k \in DOMAIN plan : plan[i].lot = plan[k].lot => i = k
  /\ \A i \in DOMAIN plan : HasLot(ls, plan[i].lot) /\ plan[i].qty <= QtyOf(ls, plan[i].lot)

LEMMA LinesWeigh ==
  ASSUME NEW plan \in Seq(Line)
  PROVE  Weighs(plan) /\ Len(plan) \in Nat /\ DOMAIN plan = 1..Len(plan) /\ Units(plan) \in Nat
<1>1. Len(plan) \in Nat /\ DOMAIN plan = 1..Len(plan)
  BY LenProperties
<1>2. \A i \in 1..Len(plan) : plan[i] \in Line
  BY ElementOfSeq
<1>3. Weighs(plan)
  BY <1>2 DEF Weighs, Line
<1>4. PICK r \in [0..Len(plan) -> Nat] : Units(plan) = r[Len(plan)]
  BY <1>3, AmountChain
<1> QED
  BY <1>1, <1>3, <1>4

LEMMA DrawsTake ==
  ASSUME NEW ls \in Ledgers, NEW plan \in Seq(Line), Fits(ls, plan)
  PROVE  /\ AfterDraws(ls, plan) \in Ledgers
         /\ DrawnSoFar(AfterDraws(ls, plan), ls, plan, Len(plan))
         /\ Units(AfterDraws(ls, plan)) = Units(ls) - Units(plan)
<1>1. PICK n \in Nat : n = Len(plan) /\ DOMAIN plan = 1..n
  BY LinesWeigh
<1>2. PICK r \in [0..n -> Ledgers] : /\ r[0] = ls /\ \A i \in 1..n : r[i] = AfterDraw(r[i - 1], plan[i])
                                     /\ AfterDraws(ls, plan) = r[n]
  BY <1>1, DrawsChain
<1>3. PICK q \in [0..n -> Nat] : /\ q[0] = 0 /\ \A i \in 1..n : q[i] = q[i - 1] + plan[i].qty
                                 /\ Units(plan) = q[n]
  BY <1>1, LinesWeigh, AmountChain
<1>4. PICK whole \in Nat : whole = Units(ls)
  BY LedgerWeighs
<1> DEFINE G == {k \in 0..n : DrawnSoFar(r[k], ls, plan, k) /\ Units(r[k]) = whole - q[k]}
<1>0. \A k \in 0..n : k \in G <=> DrawnSoFar(r[k], ls, plan, k) /\ Units(r[k]) = whole - q[k]
  OBVIOUS
<1> HIDE DEF G
<1>5. 0 \in G
  <2>1. 1..0 = {}
    OBVIOUS
  <2>2. DrawnSoFar(ls, ls, plan, 0)
    BY <2>1 DEF DrawnSoFar
  <2>3. whole = whole - q[0]
    BY <1>3
  <2> QED
    BY <1>0, <1>2, <1>4, <2>2, <2>3
<1>6. ASSUME NEW k \in 1..n, k - 1 \in G PROVE k \in G
  <2>1. k - 1 \in 0..n /\ k \in 0..n /\ k \in DOMAIN plan
    BY <1>1
  <2>2. PICK x \in Ledgers, y \in Ledgers : x = r[k - 1] /\ y = r[k]
    BY <1>2, <2>1
  <2>3. PICK d \in Line : d = plan[k] /\ d.qty \in Nat
    BY <1>1, ElementOfSeq DEF Line
  <2>4. DrawnSoFar(x, ls, plan, k - 1) /\ Units(x) = whole - q[k - 1]
    BY <1>0, <1>6, <2>1, <2>2
  <2>5. y = AfterDraw(x, d)
    BY <1>2, <2>2, <2>3
  <2>6. HoldsNow(y, x, d.lot, Left(QtyOf(x, d.lot), d.qty), Kept(SerialsOf(x, d.lot), d.qty))
    BY <2>5, DrawIs
  <2>7. \A i \in 1..(k - 1) : plan[i].lot # d.lot
    <3>1. ASSUME NEW i \in 1..(k - 1), plan[i].lot = d.lot PROVE FALSE
      <4>1. i \in DOMAIN plan /\ i # k
        BY <1>1, <2>1
      <4> QED
        BY <2>1, <2>3, <3>1, <4>1 DEF Fits
    <3> QED
      BY <3>1
  <2>8. QtyOf(x, d.lot) = QtyOf(ls, d.lot) /\ SerialsOf(x, d.lot) = SerialsOf(ls, d.lot)
    BY <2>4, <2>7 DEF DrawnSoFar
  <2>9. k \in 1..k /\ \A i \in 1..(k - 1) : i \in 1..k
    OBVIOUS
  <2>10. \A i \in 1..k : i \in 1..(k - 1) \/ i = k
    OBVIOUS
  <2>11. DrawnSoFar(y, ls, plan, k)
    <3>1. ASSUME NEW l
          PROVE  \/ \E i \in 1..k : /\ plan[i].lot = l
                                    /\ QtyOf(y, l) = Left(QtyOf(ls, l), plan[i].qty)
                                    /\ SerialsOf(y, l) = Kept(SerialsOf(ls, l), plan[i].qty)
                 \/ /\ \A i \in 1..k : plan[i].lot # l
                    /\ QtyOf(y, l) = QtyOf(ls, l) /\ SerialsOf(y, l) = SerialsOf(ls, l)
      <4>1. CASE l = d.lot
        <5>1. QtyOf(y, l) = Left(QtyOf(ls, l), d.qty) /\ SerialsOf(y, l) = Kept(SerialsOf(ls, l), d.qty)
          BY <2>6, <2>8, <4>1 DEF HoldsNow
        <5> QED
          BY <2>3, <2>9, <4>1, <5>1
      <4>2. CASE l # d.lot
        <5>1. QtyOf(y, l) = QtyOf(x, l) /\ SerialsOf(y, l) = SerialsOf(x, l)
          BY <2>6, <4>2 DEF HoldsNow
        <5>2. CASE \E i \in 1..(k - 1) : plan[i].lot = l
          <6>1. PICK i \in 1..(k - 1) : /\ plan[i].lot = l
                                       /\ QtyOf(x, l) = Left(QtyOf(ls, l), plan[i].qty)
                                       /\ SerialsOf(x, l) = Kept(SerialsOf(ls, l), plan[i].qty)
            BY <2>4, <5>2 DEF DrawnSoFar
          <6> QED
            BY <2>9, <5>1, <6>1
        <5>3. CASE \A i \in 1..(k - 1) : plan[i].lot # l
          <6>1. QtyOf(x, l) = QtyOf(ls, l) /\ SerialsOf(x, l) = SerialsOf(ls, l)
            BY <2>4, <5>3 DEF DrawnSoFar
          <6>2. \A i \in 1..k : plan[i].lot # l
            BY <2>3, <2>10, <4>2, <5>3
          <6> QED
            BY <5>1, <6>1, <6>2
        <5> QED
          BY <5>2, <5>3
      <4> QED
        BY <4>1, <4>2
    <3> QED
      BY <3>1 DEF DrawnSoFar
  <2>12. Units(y) = whole - q[k]
    <3>1. PICK h \in Nat : h = QtyOf(x, d.lot)
      BY HeldIs
    <3>2. d.qty <= h
      BY <2>1, <2>3, <2>8, <3>1 DEF Fits
    <3>3. Left(h, d.qty) = h - d.qty
      BY <3>2 DEF Left
    <3>4. Units(y) = Units(x) + (Left(h, d.qty) - h)
      BY <2>6, <3>1 DEF HoldsNow
    <3>5. PICK a \in Nat, b \in Nat, m \in Nat : a = q[k - 1] /\ b = q[k] /\ m = d.qty
      BY <1>3, <2>1, <2>3
    <3>6. b = a + m /\ Units(x) = whole - a
      BY <1>3, <2>3, <2>4, <3>5
    <3>7. Units(y) = (whole - a) + ((h - m) - h)
      BY <3>3, <3>4, <3>5, <3>6
    <3>8. (whole - a) + ((h - m) - h) = whole - (a + m)
      OBVIOUS
    <3> QED
      BY <3>5, <3>6, <3>7, <3>8
  <2> QED
    BY <1>0, <2>1, <2>2, <2>11, <2>12
<1>7. Climbs(G, n)
  BY <1>5, <1>6 DEF Climbs
<1>8. n \in G /\ n \in 0..n
  BY <1>7, StepByStep
<1> QED
  BY <1>0, <1>1, <1>2, <1>3, <1>4, <1>8

\* Empty lots are left out, one after another.
LEMMA PrunedChain ==
  ASSUME NEW ls \in Ledgers
  PROVE  \E r \in [0..Len(ls) -> Seq(LotDetail)] :
           /\ r[0] = <<>> /\ \A i \in 1..Len(ls) : r[i] = (IF ls[i].qty > 0 THEN Append(r[i - 1], ls[i]) ELSE r[i - 1])
           /\ WithoutEmpty(ls) = r[Len(ls)]
<1> DEFINE N == Len(ls)
           F == [i \in 1..N |-> [t \in Seq(LotDetail) |-> (IF ls[i].qty > 0 THEN Append(t, ls[i]) ELSE t)]]
           Body(h, s) == IF s = {} THEN <<>>
                         ELSE (IF ls[Max(s)].qty > 0 THEN Append(h[s \ {Max(s)}], ls[Max(s)]) ELSE h[s \ {Max(s)}])
           iter == CHOOSE h : h = [s \in SUBSET (DOMAIN ls) |-> Body(h, s)]
<1>1. N \in Nat /\ DOMAIN ls = 1..N /\ \A i \in 1..N : ls[i] \in LotDetail
  BY LedgerIs, ElementOfSeq
<1>2. WithoutEmpty(ls) = iter[DOMAIN ls]
  BY DEF WithoutEmpty, FoldLeft, MapThenFoldSet
<1>3. F \in [1..N -> [Seq(LotDetail) -> Seq(LotDetail)]]
  BY <1>1, AppendProperties
<1>4. \A s \in (SUBSET (1..N)) \ {{}} : Max(s) \in 1..N /\ s \ {Max(s)} \in SUBSET (1..N)
  <2>1. ASSUME NEW s \in (SUBSET (1..N)) \ {{}} PROVE Max(s) \in s
    <3>1. s \subseteq 0..N /\ s # {}
      OBVIOUS
    <3> QED
      BY <1>1, <3>1, Greatest
  <2> QED
    BY <2>1
<1>5. \A h, s : s \in (SUBSET (1..N)) \ {{}} /\ h[s \ {Max(s)}] \in Seq(LotDetail)
                => F[Max(s)][h[s \ {Max(s)}]] = Body(h, s)
  BY <1>4
<1>6. \A h : Body(h, {}) = <<>>
  OBVIOUS
<1> HIDE DEF Body, F, N, iter
<1>7. Foldable(N, Seq(LotDetail), F, <<>>)
  <2>1. <<>> \in Seq(LotDetail) /\ N \in Nat
    BY <1>1, EmptySeq
  <2> QED
    BY <1>3, <2>1, FoldRule
<1>8. PICK g \in [SUBSET (1..N) -> Seq(LotDetail)], r \in [0..N -> Seq(LotDetail)] :
        /\ Unfolds(g, N, F, <<>>) /\ Chain(r, N, F, <<>>)
        /\ \A h : Follows(h, N, Seq(LotDetail), F, <<>>) => h[1..N] = r[N]
  BY <1>7 DEF Foldable
<1>9. g = [s \in SUBSET (DOMAIN ls) |-> Body(g, s)]
  <2>1. ASSUME NEW s \in SUBSET (1..N) PROVE g[s] = Body(g, s)
    BY <1>4, <1>5, <1>6, <1>8 DEF Unfolds
  <2> QED
    BY <1>1, <2>1
<1>10. iter = [s \in SUBSET (DOMAIN ls) |-> Body(iter, s)]
  BY <1>9 DEF iter
<1>11. Follows(iter, N, Seq(LotDetail), F, <<>>)
  BY <1>1, <1>5, <1>6, <1>10 DEF Follows
<1>12. iter[1..N] = r[N]
  BY <1>8, <1>11
<1>13. \A i \in 1..N : r[i] = (IF ls[i].qty > 0 THEN Append(r[i - 1], ls[i]) ELSE r[i - 1])
  <2>1. ASSUME NEW i \in 1..N PROVE r[i] = (IF ls[i].qty > 0 THEN Append(r[i - 1], ls[i]) ELSE r[i - 1])
    <3>1. i - 1 \in 0..N /\ r[i - 1] \in Seq(LotDetail)
      BY <1>1, <1>8
    <3> QED
      BY <1>8, <3>1 DEF Chain, F
  <2> QED
    BY <2>1
<1> QED
  BY <1>1, <1>2, <1>8, <1>12, <1>13 DEF Chain, N


\* What has been kept of the first k lots.
PrunedSoFar(new, ls, k) ==
  /\ \A l : \/ \E i \in 1..k : /\ ls[i].lot = l
                               /\ QtyOf(new, l) = ls[i].qty /\ SerialsOf(new, l) = ls[i].serials
            \/ /\ \A i \in 1..k : ls[i].lot # l
               /\ QtyOf(new, l) = 0 /\ SerialsOf(new, l) = <<>>
  /\ \A j \in DOMAIN new : \E i \in 1..k : new[j].lot = ls[i].lot

LEMMA PrunedStep ==
  ASSUME NEW ls \in Ledgers, NEW k \in DOMAIN ls, NEW x \in Ledgers, PrunedSoFar(x, ls, k - 1),
         NEW y, y = IF ls[k].qty > 0 THEN Append(x, ls[k]) ELSE x
  PROVE  y \in Ledgers /\ PrunedSoFar(y, ls, k) /\ Units(y) = Units(x) + ls[k].qty
<1>1. k \in 1..Len(ls) /\ Len(ls) \in Nat /\ \A i, j \in DOMAIN ls : ls[i].lot = ls[j].lot => i = j
  BY LedgerIs
<1>2. PICK e \in LotDetail : e = ls[k] /\ e.qty \in Nat /\ e.serials \in Seq(Serial) /\ Len(e.serials) <= e.qty
  BY LedgerIs
<1>3. k \in 1..k /\ (\A i \in 1..(k - 1) : i \in 1..k) /\ \A i \in 1..k : i \in 1..(k - 1) \/ i = k
  BY <1>1
<1>4. \A i \in 1..(k - 1) : ls[i].lot # e.lot
  <2>1. ASSUME NEW i \in 1..(k - 1), ls[i].lot = e.lot PROVE FALSE
    <3>1. i \in DOMAIN ls /\ i # k
      BY <1>1, LedgerIs
    <3> QED
      BY <1>1, <1>2, <2>1, <3>1
  <2> QED
    BY <2>1
<1>5. QtyOf(x, e.lot) = 0 /\ SerialsOf(x, e.lot) = <<>>
  BY <1>4 DEF PrunedSoFar
<1>6. \A j \in DOMAIN x : x[j].lot # e.lot
  BY <1>4 DEF PrunedSoFar
<1>7. Units(x) \in Nat
  BY LedgerWeighs
<1>8. /\ y \in Ledgers /\ Units(y) = Units(x) + e.qty
      /\ QtyOf(y, e.lot) = e.qty /\ SerialsOf(y, e.lot) = e.serials
      /\ \A l : l # e.lot => QtyOf(y, l) = QtyOf(x, l) /\ SerialsOf(y, l) = SerialsOf(x, l)
      /\ \A j \in DOMAIN y : y[j].lot = e.lot \/ \E m \in DOMAIN x : y[j].lot = x[m].lot
  <2>1. CASE e.qty > 0
    <3>1. y = Append(x, e)
      BY <1>2, <2>1
    <3>2. HoldsNow(y, x, e.lot, e.qty, e.serials)
      BY <1>2, <1>6, <3>1, LotAdded
    <3>3. Units(y) = Units(x) + e.qty
      BY <1>2, <1>5, <1>7, <3>2 DEF HoldsNow
    <3>4. \A j \in DOMAIN y : y[j].lot = e.lot \/ \E m \in DOMAIN x : y[j].lot = x[m].lot
      <4>1. PICK n \in Nat : n = Len(x) /\ x \in Seq(LotDetail) /\ DOMAIN x = 1..n
        BY LedgerIs
      <4>2. /\ y \in Seq(LotDetail) /\ Len(y) = n + 1 /\ y[n + 1] = e
            /\ \A j \in 1..n : y[j] = x[j]
        BY <1>2, <3>1, <4>1, AppendProperties
      <4>3. DOMAIN y = 1..(n + 1) /\ \A j \in 1..(n + 1) : j \in 1..n \/ j = n + 1
        BY <4>2, LenProperties
      <4> QED
        BY <4>1, <4>2, <4>3
    <3> QED
      BY <3>2, <3>3, <3>4 DEF HoldsNow
  <2>2. CASE ~(e.qty > 0)
    <3>1. y = x /\ e.qty = 0 /\ Len(e.serials) = 0
      <4>1. Len(e.serials) \in Nat
        BY <1>2, LenProperties
      <4> QED
        BY <1>2, <2>2, <4>1
    <3>2. e.serials = <<>>
      <4>1. \A s \in Seq(Serial) : s # <<>> => Len(s) # 0
        BY EmptySeq
      <4> QED
        BY <1>2, <3>1, <4>1
    <3> QED
      BY <1>5, <1>7, <3>1, <3>2
  <2> QED
    BY <2>1, <2>2
<1>9. ASSUME NEW l
      PROVE  \/ \E i \in 1..k : /\ ls[i].lot = l
                                /\ QtyOf(y, l) = ls[i].qty /\ SerialsOf(y, l) = ls[i].serials
             \/ /\ \A i \in 1..k : ls[i].lot # l
                /\ QtyOf(y, l) = 0 /\ SerialsOf(y, l) = <<>>
  <2>1. CASE l = e.lot
    BY <1>2, <1>3, <1>8, <2>1
  <2>2. CASE l # e.lot
    <3>1. QtyOf(y, l) = QtyOf(x, l) /\ SerialsOf(y, l) = SerialsOf(x, l)
      BY <1>8, <2>2
    <3>2. CASE \E i \in 1..(k - 1) : ls[i].lot = l
      <4>1. PICK i \in 1..(k - 1) : ls[i].lot = l /\ QtyOf(x, l) = ls[i].qty /\ SerialsOf(x, l) = ls[i].serials
        BY <3>2 DEF PrunedSoFar
      <4> QED
        BY <1>3, <3>1, <4>1
    <3>3. CASE \A i \in 1..(k - 1) : ls[i].lot # l
      <4>1. QtyOf(x, l) = 0 /\ SerialsOf(x, l) = <<>>
        BY <3>3 DEF PrunedSoFar
      <4>2. \A i \in 1..k : ls[i].lot # l
        BY <1>2, <1>3, <2>2, <3>3
      <4> QED
        BY <3>1, <4>1, <4>2
    <3> QED
      BY <3>2, <3>3
  <2> QED
    BY <2>1, <2>2
<1>10. \A j \in DOMAIN y : \E i \in 1..k : y[j].lot = ls[i].lot
  BY <1>2, <1>3, <1>8 DEF PrunedSoFar
<1>11. PrunedSoFar(y, ls, k)
  BY <1>9, <1>10 DEF PrunedSoFar
<1> QED
  BY <1>2, <1>8, <1>11

LEMMA PrunedIs ==
  ASSUME NEW ls \in Ledgers
  PROVE  WithoutEmpty(ls) \in Ledgers /\ Alike(WithoutEmpty(ls), ls) /\ Units(WithoutEmpty(ls)) = Units(ls)
<1>1. PICK n \in Nat : n = Len(ls) /\ DOMAIN ls = 1..n /\ ls \in Seq(LotDetail) /\ Weighs(ls)
  BY LedgerIs, LedgerWeighs
<1>2. PICK r \in [0..n -> Seq(LotDetail)] :
        /\ r[0] = <<>> /\ \A i \in 1..n : r[i] = (IF ls[i].qty > 0 THEN Append(r[i - 1], ls[i]) ELSE r[i - 1])
        /\ WithoutEmpty(ls) = r[n]
  BY <1>1, PrunedChain
<1>3. PICK q \in [0..n -> Nat] : /\ q[0] = 0 /\ \A i \in 1..n : q[i] = q[i - 1] + ls[i].qty
                                 /\ Units(ls) = q[n]
  BY <1>1, AmountChain
<1> DEFINE G == {k \in 0..n : r[k] \in Ledgers /\ PrunedSoFar(r[k], ls, k) /\ Units(r[k]) = q[k]}
<1>0. \A k \in 0..n : k \in G <=> r[k] \in Ledgers /\ PrunedSoFar(r[k], ls, k) /\ Units(r[k]) = q[k]
  OBVIOUS
<1> HIDE DEF G
<1>4. 0 \in G
  <2>1. PICK none : none = <<>>
    OBVIOUS
  <2>2. none \in Seq(LotDetail) /\ DOMAIN none = {}
    BY <2>1, EmptySeq
  <2>3. none \in Ledgers
    BY <2>2 DEF Ledgers
  <2>4. \A l : QtyOf(none, l) = 0 /\ SerialsOf(none, l) = <<>>
    BY <2>2, <2>3, LotMissing
  <2>5. 1..0 = {}
    OBVIOUS
  <2>6. PrunedSoFar(none, ls, 0)
    BY <2>2, <2>4, <2>5 DEF PrunedSoFar
  <2>7. Units(none) = 0
    BY <2>1, AmountOfNone
  <2> QED
    BY <1>0, <1>2, <1>3, <2>1, <2>3, <2>6, <2>7
<1>5. ASSUME NEW k \in 1..n, k - 1 \in G PROVE k \in G
  <2>1. k - 1 \in 0..n /\ k \in 0..n /\ k \in DOMAIN ls
    BY <1>1
  <2>2. PICK x \in Ledgers, y \in Seq(LotDetail) : x = r[k - 1] /\ y = r[k]
    BY <1>0, <1>2, <1>5, <2>1
  <2>3. PrunedSoFar(x, ls, k - 1) /\ Units(x) = q[k - 1]
    BY <1>0, <1>5, <2>1, <2>2
  <2>4. y = IF ls[k].qty > 0 THEN Append(x, ls[k]) ELSE x
    BY <1>2, <2>2
  <2>5. y \in Ledgers /\ PrunedSoFar(y, ls, k) /\ Units(y) = Units(x) + ls[k].qty
    BY <2>1, <2>3, <2>4, PrunedStep
  <2>6. q[k] = q[k - 1] + ls[k].qty
    BY <1>3
  <2> QED
    BY <1>0, <2>1, <2>2, <2>3, <2>5, <2>6
<1>6. Climbs(G, n)
  BY <1>4, <1>5 DEF Climbs
<1>7. n \in G /\ n \in 0..n
  BY <1>6, StepByStep
<1>8. PICK new : new = WithoutEmpty(ls)
  OBVIOUS
<1>9. new \in Ledgers /\ PrunedSoFar(new, ls, n) /\ Units(new) = Units(ls)
  BY <1>0, <1>2, <1>3, <1>7, <1>8
<1>10. ASSUME NEW l PROVE QtyOf(new, l) = QtyOf(ls, l) /\ SerialsOf(new, l) = SerialsOf(ls, l)
  <2>1. CASE \E i \in 1..n : ls[i].lot = l
    <3>1. PICK i \in 1..n : ls[i].lot = l /\ QtyOf(new, l) = ls[i].qty /\ SerialsOf(new, l) = ls[i].serials
      BY <1>9, <2>1 DEF PrunedSoFar
    <3> QED
      BY <1>1, <3>1, LotAt
  <2>2. CASE \A i \in 1..n : ls[i].lot # l
    <3>1. QtyOf(new, l) = 0 /\ SerialsOf(new, l) = <<>>
      BY <1>9, <2>2 DEF PrunedSoFar
    <3>2. QtyOf(ls, l) = 0 /\ SerialsOf(ls, l) = <<>>
      BY <1>1, <2>2, LotMissing
    <3> QED
      BY <3>1, <3>2
  <2> QED
    BY <2>1, <2>2
<1> QED
  BY <1>8, <1>9, <1>10 DEF Alike

\* The order in which a pick looks at lots: each once.
-----------------------------------------------------------------------------
(* The plan of a pick: it asks no lot for more than the lot has.           *)

LEMMA ExpiryOrder ==
  ASSUME NEW ls \in Ledgers
  PROVE  /\ ByExpiry(ls) \in Seq(DOMAIN ls)
         /\ \A i, j \in DOMAIN ByExpiry(ls) : ByExpiry(ls)[i] = ByExpiry(ls)[j] => i = j
<1> DEFINE S == Fresh(ls)
           R == {e \in S \X S : \/ ls[e[1]].expiry < ls[e[2]].expiry
                                \/ ls[e[1]].expiry = ls[e[2]].expiry /\ e[1] < e[2]}
<1>1. S \subseteq DOMAIN ls /\ S \subseteq Nat /\ IsFiniteSet(S)
  <2>1. DOMAIN ls = 1..Len(ls) /\ Len(ls) \in Nat
    BY LedgerIs
  <2>2. 1 \in Int /\ Len(ls) \in Int
    BY <2>1
  <2>3. IsFiniteSet(1..Len(ls))
    BY <2>2, FS_Interval, SMTT(30)
  <2>4. S \subseteq DOMAIN ls
    BY DEF Fresh
  <2> QED
    BY <2>1, <2>3, <2>4, FS_Subset
<1>2. \A i \in S : ls[i].expiry \in Nat
  <2>1. \A i \in DOMAIN ls : ls[i] \in LotDetail
    BY LedgerIs
  <2> QED
    BY <1>1, <2>1 DEF LotDetail
<1>3. \A i, j \in S : <<i, j>> \in R <=> \/ ls[i].expiry < ls[j].expiry
                                         \/ ls[i].expiry = ls[j].expiry /\ i < j
  OBVIOUS
<1>4. Ranks(R, S)
  <2> HIDE DEF R
  <2>1. ASSUME NEW x \in S, NEW y \in S, x # y PROVE <<x, y>> \in R \/ <<y, x>> \in R
    <3>1. x \in Nat /\ y \in Nat /\ ls[x].expiry \in Nat /\ ls[y].expiry \in Nat
      BY <1>1, <1>2
    <3> QED
      BY <1>3, <2>1, <3>1
  <2>2. ASSUME NEW x \in S, NEW y \in S, NEW z \in S, <<x, y>> \in R, <<y, z>> \in R PROVE <<x, z>> \in R
    <3>1. PICK a \in Nat, b \in Nat, c \in Nat : a = ls[x].expiry /\ b = ls[y].expiry /\ c = ls[z].expiry
      BY <1>2
    <3>2. x \in Nat /\ y \in Nat /\ z \in Nat
      BY <1>1
    <3>3. (a < b \/ (a = b /\ x < y)) /\ (b < c \/ (b = c /\ y < z))
      BY <1>3, <2>2, <3>1
    <3>4. a < c \/ (a = c /\ x < z)
      BY <3>2, <3>3
    <3> QED
      BY <1>3, <3>1, <3>4
  <2> QED
    BY <2>1, <2>2 DEF Ranks
<1>5. PICK n \in Nat : n = Cardinality(S)
  BY <1>1, FS_CardinalityType
<1>6. PICK qs \in [1..n -> S] : \A i, j \in DOMAIN qs : i < j => <<qs[i], qs[j]>> \in R
  <2> HIDE DEF R, S
  <2> QED
    BY <1>1, <1>4, <1>5, SortedExists
<1>7. \A i, j \in DOMAIN qs : i < j =>
        \/ ls[qs[i]].expiry < ls[qs[j]].expiry
        \/ ls[qs[i]].expiry = ls[qs[j]].expiry /\ qs[i] < qs[j]
  <2> HIDE DEF R, S
  <2>1. ASSUME NEW i \in 1..n, NEW j \in 1..n, i < j
        PROVE  \/ ls[qs[i]].expiry < ls[qs[j]].expiry
               \/ ls[qs[i]].expiry = ls[qs[j]].expiry /\ qs[i] < qs[j]
    <3>1. <<qs[i], qs[j]>> \in R /\ qs[i] \in S /\ qs[j] \in S
      BY <1>6, <2>1
    <3> QED
      BY <1>3, <3>1
  <2> QED
    BY <1>6, <2>1
<1>8. PICK ps : ps = ByExpiry(ls)
  OBVIOUS
<1>9. ps \in [1..n -> S] /\ \A i, j \in DOMAIN ps : i < j =>
        \/ ls[ps[i]].expiry < ls[ps[j]].expiry
        \/ ls[ps[i]].expiry = ls[ps[j]].expiry /\ ps[i] < ps[j]
  BY <1>5, <1>7, <1>8 DEF ByExpiry
<1>10. ps \in Seq(DOMAIN ls)
  <2>1. ps \in [1..n -> DOMAIN ls]
    BY <1>1, <1>9
  <2> QED
    BY <2>1, SeqDef
<1>11. ASSUME NEW i \in 1..n, NEW j \in 1..n, ps[i] = ps[j] PROVE i = j
  <2>1. ASSUME NEW k \in 1..n, NEW m \in 1..n, k < m PROVE ps[k] # ps[m]
    <3>1. ps[k] \in S /\ ps[m] \in S
      BY <1>9
    <3>2. PICK a \in Nat, b \in Nat : a = ls[ps[k]].expiry /\ b = ls[ps[m]].expiry
      BY <1>2, <3>1
    <3>3. a < b \/ (a = b /\ ps[k] < ps[m])
      BY <1>9, <2>1, <3>2
    <3>4. ps[k] \in Nat /\ ps[m] \in Nat
      BY <1>1, <3>1
    <3>5. ASSUME ps[k] = ps[m] PROVE FALSE
      <4>1. a = b
        BY <3>2, <3>5
      <4>2. ~(a < b) /\ ~(ps[k] < ps[m])
        BY <3>4, <3>5, <4>1
      <4> QED
        BY <3>3, <4>2
    <3> QED
      BY <3>5
  <2>2. i < j \/ j < i \/ i = j
    OBVIOUS
  <2> QED
    BY <1>11, <2>1, <2>2
<1> HIDE DEF S, R
<1> QED
  BY <1>8, <1>9, <1>10, <1>11

Draft == [left : Nat, plan : Seq(Line)]

LEMMA TakeIs ==
  ASSUME NEW ls \in Ledgers, NEW acc \in Draft, NEW i \in DOMAIN ls
  PROVE  /\ Take(ls, acc, i) \in Draft
         /\ \/ Take(ls, acc, i) = acc
            \/ \E d \in Line : /\ d.lot = ls[i].lot /\ d.qty <= ls[i].qty
                              /\ Take(ls, acc, i).plan = Append(acc.plan, d)
<1>1. PICK q \in Nat, n \in Nat, p \in Seq(Line) : q = ls[i].qty /\ n = acc.left /\ p = acc.plan
  BY LedgerIs DEF Draft
<1>2. PICK m \in Nat : m = Min({q, n}) /\ m <= q /\ m <= n
  BY LesserOfTwo
<1>3. PICK d : d = [lot |-> ls[i].lot, qty |-> m]
  OBVIOUS
<1>4. d \in Line /\ d.lot = ls[i].lot /\ d.qty = m
  BY <1>2, <1>3, LedgerIs DEF Line
<1>5. PICK more \in Seq(Line) : more = Append(p, d)
  BY <1>4, AppendProperties
<1>6. Take(ls, acc, i) = IF m = 0 THEN acc ELSE [left |-> n - m, plan |-> more]
  BY <1>1, <1>2, <1>3, <1>5 DEF Take
<1>7. CASE m = 0
  BY <1>6, <1>7
<1>8. CASE m # 0
  <2>1. Take(ls, acc, i) = [left |-> n - m, plan |-> more] /\ n - m \in Nat
    BY <1>2, <1>6, <1>8
  <2>2. Take(ls, acc, i) \in Draft /\ Take(ls, acc, i).plan = more
    BY <2>1 DEF Draft
  <2> QED
    BY <1>1, <1>2, <1>4, <1>5, <2>2
<1> QED
  BY <1>7, <1>8

\* A pick's draws are found lot by lot.
LEMMA PlannedChain ==
  ASSUME NEW ls \in Ledgers, NEW q \in Nat, NEW ps \in Seq(DOMAIN ls), ps = ByExpiry(ls)
  PROVE  \E r \in [0..Len(ps) -> Draft] :
           /\ r[0] = [left |-> q, plan |-> <<>>] /\ \A i \in 1..Len(ps) : r[i] = Take(ls, r[i - 1], ps[i])
           /\ Planned(ls, q) = r[Len(ps)]
<1> DEFINE N == Len(ps)
           F == [i \in 1..N |-> [t \in Draft |-> Take(ls, t, ps[i])]]
           Body(h, s) == IF s = {} THEN [left |-> q, plan |-> <<>>]
                         ELSE Take(ls, h[s \ {Max(s)}], ps[Max(s)])
           iter == CHOOSE h : h = [s \in SUBSET (DOMAIN ps) |-> Body(h, s)]
<1>1. N \in Nat /\ DOMAIN ps = 1..N /\ \A i \in 1..N : ps[i] \in DOMAIN ls
  BY ElementOfSeq
<1>2. Planned(ls, q) = iter[DOMAIN ps]
  BY DEF Planned, FoldLeft, MapThenFoldSet
<1>3. F \in [1..N -> [Draft -> Draft]]
  BY <1>1, TakeIs
<1>4. \A s \in (SUBSET (1..N)) \ {{}} : Max(s) \in 1..N /\ s \ {Max(s)} \in SUBSET (1..N)
  <2>1. ASSUME NEW s \in (SUBSET (1..N)) \ {{}} PROVE Max(s) \in s
    <3>1. s \subseteq 0..N /\ s # {}
      OBVIOUS
    <3> QED
      BY <1>1, <3>1, Greatest
  <2> QED
    BY <2>1
<1>5. \A h, s : s \in (SUBSET (1..N)) \ {{}} /\ h[s \ {Max(s)}] \in Draft
                => F[Max(s)][h[s \ {Max(s)}]] = Body(h, s)
  BY <1>4
<1>6. \A h : Body(h, {}) = [left |-> q, plan |-> <<>>]
  OBVIOUS
<1> HIDE DEF Body, F, N, iter
<1>7. Foldable(N, Draft, F, [left |-> q, plan |-> <<>>])
  <2>1. [left |-> q, plan |-> <<>>] \in Draft /\ N \in Nat
    BY <1>1, EmptySeq DEF Draft
  <2> QED
    BY <1>3, <2>1, FoldRule
<1>8. PICK g \in [SUBSET (1..N) -> Draft], r \in [0..N -> Draft] :
        /\ Unfolds(g, N, F, [left |-> q, plan |-> <<>>]) /\ Chain(r, N, F, [left |-> q, plan |-> <<>>])
        /\ \A h : Follows(h, N, Draft, F, [left |-> q, plan |-> <<>>]) => h[1..N] = r[N]
  BY <1>7 DEF Foldable
<1>9. g = [s \in SUBSET (DOMAIN ps) |-> Body(g, s)]
  <2>1. ASSUME NEW s \in SUBSET (1..N) PROVE g[s] = Body(g, s)
    BY <1>4, <1>5, <1>6, <1>8 DEF Unfolds
  <2> QED
    BY <1>1, <2>1
<1>10. iter = [s \in SUBSET (DOMAIN ps) |-> Body(iter, s)]
  BY <1>9 DEF iter
<1>11. Follows(iter, N, Draft, F, [left |-> q, plan |-> <<>>])
  BY <1>1, <1>5, <1>6, <1>10 DEF Follows
<1>12. iter[1..N] = r[N]
  BY <1>8, <1>11
<1>13. \A i \in 1..N : r[i] = Take(ls, r[i - 1], ps[i])
  <2>1. ASSUME NEW i \in 1..N PROVE r[i] = Take(ls, r[i - 1], ps[i])
    <3>1. i - 1 \in 0..N /\ r[i - 1] \in Draft
      BY <1>1, <1>8
    <3> QED
      BY <1>8, <3>1 DEF Chain, F
  <2> QED
    BY <2>1
<1> QED
  BY <1>1, <1>2, <1>8, <1>12, <1>13 DEF Chain, N


\* What has been planned from the first k lots looked at.
PlanSoFar(plan, ls, ps, k) ==
  /\ \A i, j \in DOMAIN plan : plan[i].lot = plan[j].lot => i = j
  /\ \A i \in DOMAIN plan :
       \E m \in 1..k : plan[i].lot = ls[ps[m]].lot /\ plan[i].qty <= ls[ps[m]].qty

LEMMA PlanStep ==
  ASSUME NEW ls \in Ledgers, NEW ps \in Seq(DOMAIN ls), NEW k \in 1..Len(ps),
         \A i, j \in DOMAIN ps : ps[i] = ps[j] => i = j,
         NEW acc \in Draft, PlanSoFar(acc.plan, ls, ps, k - 1), NEW next, next = Take(ls, acc, ps[k])
  PROVE  next \in Draft /\ PlanSoFar(next.plan, ls, ps, k)
<1>1. /\ Len(ps) \in Nat /\ DOMAIN ps = 1..Len(ps) /\ k \in DOMAIN ps
      /\ \A m \in 1..Len(ps) : ps[m] \in DOMAIN ls
  BY LenProperties, ElementOfSeq
<1>2. \A i, j \in DOMAIN ls : ls[i].lot = ls[j].lot => i = j
  BY LedgerIs
<1>3. k \in 1..k /\ (\A m \in 1..(k - 1) : m \in 1..k) /\ \A m \in 1..(k - 1) : m \in DOMAIN ps /\ m # k
  BY <1>1
<1>4. next \in Draft
  BY <1>1, TakeIs
<1>5. CASE next = acc
  BY <1>3, <1>4, <1>5 DEF PlanSoFar
<1>6. CASE next # acc
  <2>1. PICK d \in Line : d.lot = ls[ps[k]].lot /\ d.qty <= ls[ps[k]].qty /\ next.plan = Append(acc.plan, d)
    <3>1. PICK i \in DOMAIN ls : i = ps[k]
      BY <1>1
    <3>2. next = Take(ls, acc, i)
      BY <3>1
    <3>3. PICK d \in Line : d.lot = ls[i].lot /\ d.qty <= ls[i].qty /\ Take(ls, acc, i).plan = Append(acc.plan, d)
      BY <1>6, <3>2, TakeIs
    <3> QED
      BY <3>1, <3>2, <3>3
  <2>2. PICK p \in Seq(Line), more \in Seq(Line) : p = acc.plan /\ more = next.plan
    BY <1>4 DEF Draft
  <2>3. PICK n \in Nat : n = Len(p) /\ DOMAIN p = 1..n
    BY LenProperties
  <2>4. Len(more) = n + 1 /\ more[n + 1] = d /\ \A i \in 1..n : more[i] = p[i]
    BY <2>1, <2>2, <2>3, AppendProperties
  <2>5. DOMAIN more = 1..(n + 1) /\ \A i \in 1..(n + 1) : i \in 1..n \/ i = n + 1
    BY <2>4, LenProperties
  <2>6. \A i \in 1..n : p[i].lot # d.lot
    <3>1. ASSUME NEW i \in 1..n, p[i].lot = d.lot PROVE FALSE
      <4>1. PICK m \in 1..(k - 1) : p[i].lot = ls[ps[m]].lot
        BY <2>2, <2>3 DEF PlanSoFar
      <4>2. m \in DOMAIN ps /\ m # k /\ ps[m] \in DOMAIN ls /\ ps[k] \in DOMAIN ls
        BY <1>1, <1>3
      <4>3. ps[m] = ps[k]
        BY <1>2, <2>1, <3>1, <4>1, <4>2
      <4> QED
        BY <1>1, <4>2, <4>3
    <3> QED
      BY <3>1
  <2>7. ASSUME NEW i \in 1..(n + 1), NEW j \in 1..(n + 1), more[i].lot = more[j].lot PROVE i = j
    <3>1. CASE i \in 1..n /\ j \in 1..n
      <4>1. p[i].lot = p[j].lot
        BY <2>4, <2>7, <3>1
      <4> QED
        BY <2>2, <2>3, <3>1, <4>1 DEF PlanSoFar
    <3>2. CASE i \in 1..n /\ j = n + 1
      BY <2>4, <2>6, <2>7, <3>2
    <3>3. CASE j \in 1..n /\ i = n + 1
      BY <2>4, <2>6, <2>7, <3>3
    <3> QED
      BY <2>5, <3>1, <3>2, <3>3
  <2>8. ASSUME NEW i \in 1..(n + 1)
        PROVE  \E m \in 1..k : more[i].lot = ls[ps[m]].lot /\ more[i].qty <= ls[ps[m]].qty
    <3>1. CASE i \in 1..n
      <4>1. PICK m \in 1..(k - 1) : p[i].lot = ls[ps[m]].lot /\ p[i].qty <= ls[ps[m]].qty
        BY <2>2, <2>3, <3>1 DEF PlanSoFar
      <4> QED
        BY <1>3, <2>4, <3>1, <4>1
    <3>2. CASE i = n + 1
      BY <1>3, <2>1, <2>4, <3>2
    <3> QED
      BY <2>5, <3>1, <3>2
  <2> QED
    BY <1>4, <2>2, <2>5, <2>7, <2>8 DEF PlanSoFar
<1> QED
  BY <1>5, <1>6

LEMMA PlanIs ==
  ASSUME NEW ls \in Ledgers, NEW q \in Nat
  PROVE  PickPlan(ls, q) \in Seq(Line) /\ Fits(ls, PickPlan(ls, q))
<1>1. PICK ps \in Seq(DOMAIN ls) : ps = ByExpiry(ls) /\ \A i, j \in DOMAIN ps : ps[i] = ps[j] => i = j
  BY ExpiryOrder
<1>2. PICK n \in Nat : n = Len(ps) /\ DOMAIN ps = 1..n
  BY LenProperties
<1>3. PICK r \in [0..n -> Draft] : /\ r[0] = [left |-> q, plan |-> <<>>]
                                   /\ \A i \in 1..n : r[i] = Take(ls, r[i - 1], ps[i])
                                   /\ Planned(ls, q) = r[n]
  BY <1>1, <1>2, PlannedChain
<1> DEFINE G == {k \in 0..n : PlanSoFar(r[k].plan, ls, ps, k)}
<1>0. \A k \in 0..n : k \in G <=> PlanSoFar(r[k].plan, ls, ps, k)
  OBVIOUS
<1> HIDE DEF G
<1>4. 0 \in G
  <2>1. r[0].plan = <<>> /\ DOMAIN <<>> = {}
    BY <1>3
  <2>2. DOMAIN r[0].plan = {}
    BY <2>1
  <2> QED
    BY <1>0, <2>2 DEF PlanSoFar
<1>5. ASSUME NEW k \in 1..n, k - 1 \in G PROVE k \in G
  <2>1. k - 1 \in 0..n /\ k \in 0..n
    OBVIOUS
  <2>2. PICK acc \in Draft : acc = r[k - 1]
    BY <1>3, <2>1
  <2>3. PlanSoFar(acc.plan, ls, ps, k - 1) /\ r[k] = Take(ls, acc, ps[k])
    BY <1>0, <1>3, <1>5, <2>1, <2>2
  <2>4. PlanSoFar(r[k].plan, ls, ps, k)
    BY <1>1, <1>2, <2>3, PlanStep
  <2> QED
    BY <1>0, <2>1, <2>4
<1>6. Climbs(G, n)
  BY <1>4, <1>5 DEF Climbs
<1>7. n \in G /\ n \in 0..n
  BY <1>6, StepByStep
<1>8. PICK plan \in Seq(Line) : plan = r[n].plan
  BY <1>3, <1>7 DEF Draft
<1>9. PlanSoFar(plan, ls, ps, n)
  BY <1>0, <1>7, <1>8
<1>10. Fits(ls, plan)
  <2>1. ASSUME NEW i \in DOMAIN plan PROVE HasLot(ls, plan[i].lot) /\ plan[i].qty <= QtyOf(ls, plan[i].lot)
    <3>1. PICK m \in 1..n : plan[i].lot = ls[ps[m]].lot /\ plan[i].qty <= ls[ps[m]].qty
      BY <1>9 DEF PlanSoFar
    <3>2. ps[m] \in DOMAIN ls
      BY <1>2, ElementOfSeq
    <3>3. HasLot(ls, ls[ps[m]].lot) /\ QtyOf(ls, ls[ps[m]].lot) = ls[ps[m]].qty
      BY <3>2, LotAt
    <3> QED
      BY <3>1, <3>3
  <2> QED
    BY <1>9, <2>1 DEF PlanSoFar, Fits
<1>11. CASE Planned(ls, q).left > 0
  <2>1. PICK none : none = <<>>
    OBVIOUS
  <2>2. none \in Seq(Line) /\ DOMAIN none = {}
    BY <2>1, EmptySeq
  <2>3. PickPlan(ls, q) = none
    BY <1>11, <2>1 DEF PickPlan
  <2>4. Fits(ls, none)
    BY <2>2 DEF Fits
  <2> QED
    BY <2>2, <2>3, <2>4
<1>12. CASE ~(Planned(ls, q).left > 0)
  BY <1>3, <1>8, <1>10, <1>12 DEF PickPlan
<1> QED
  BY <1>11, <1>12
-----------------------------------------------------------------------------
(* The invariant.  Every call is a job that stands at some step, and each  *)
(* conjunct says what the stores owe to the jobs under way: what transfers *)
(* carry is missing from the bins (Conserved), a write that is not yet     *)
(* announced explains a cache that is behind (CacheStands), and the        *)
(* registry differs from the ledgers by the serials of one job at most,    *)
(* while no two overlapped (SerialsStand).                                 *)

\* No receipt names a serial number twice, which receive_lot does not check.
SerialsNamedOnce == \A r \in Receipts : IsInjective(r.serials)
\* The types of the state, of a job, and of the copy a rebuild has made so far.
Reads == UNION {[S -> Seq(Nat)] : S \in SUBSET Bin}
Steps == {"idle", "announce", "guarded", "receive", "register", "unregister", "palletize", "line",
          "relocate", "arrive", "pick", "count", "adjust", "copy"}
JobType == [at : Steps, bin : Bin \union {NoBin}, to : Bin \union {NoBin}, receipt : LotDetail \union {<<>>},
            qty : Int, todo : Seq(Line), pallet : Nat, seen : Int, load : Seq(Line),
            leaving : SUBSET Serial, read : Reads]
PalletType == [location : Bin, lines : Seq(Line)]

\* A receipt that a ledger may take.
Proper(r) == r \in LotDetail /\ Len(r.serials) <= r.qty
\* What a job says is fit for its next step, when there are n pallets.
Sound(j, n) ==
  /\ j \in JobType
  /\ j.at = "idle" => j = Free
  /\ j.at = "copy" => j.bin = NoBin /\ j.to = NoBin
  /\ j.at \notin {"idle", "copy"} => j.bin \in Bin
  /\ j.at \in {"line", "relocate", "arrive"} => j.to \in Bin
  /\ j.at \notin {"line", "relocate", "arrive", "announce"} => j.to = NoBin
  /\ j.to # NoBin => j.pallet \in 1..n
  /\ j.at \in {"receive", "register", "relocate", "arrive"} => Proper(j.receipt)
  /\ j.at \in {"relocate", "arrive"} => j.todo # <<>>
  /\ j.at = "pick" => j.qty \in Nat

StockTyped ==
  /\ onHand \in [Bin -> Nat] /\ version \in [Bin -> Nat]
  /\ lots \in [Bin -> Ledgers] /\ replayed \in [Bin -> Ledgers]
  /\ DOMAIN stockCache \subseteq Bin /\ confirmed \in Int
  /\ pallets \in Seq(PalletType)
JobsTyped == job \in [Picker -> JobType] /\ \A c \in Picker : Sound(job[c], Len(pallets))
LotsStand ==
  /\ \A b \in Bin : b \notin torn => Alike(replayed[b], lots[b])
  /\ \A b \in Bin : b \notin bulk \union torn => onHand[b] = Units(lots[b])

\* What a transfer has taken out and not yet put down.
Transit(j) == IF j.at \in {"relocate", "arrive"} THEN j.receipt.qty ELSE 0
Conserved ==
  torn = {} => confirmed = Sum(onHand, Bin) + Sum([c \in Picker |-> Transit(job[c])], Picker)

\* A read model that is behind is explained by a writer about to announce its bin,
\* and what a rebuild has copied is still so.
Target(j) == IF j.to = NoBin THEN j.bin ELSE j.to
Posting(j, b) == j.at \in {"register", "unregister", "announce"} /\ Target(j) = b
Settled(b) ==
  /\ <<"put", b>> \in unsent \/ (b \in DOMAIN stockCache /\ stockCache[b] = onHand[b])
  /\ onHand[b] < ReorderPoint => b \in signalled \/ <<"job", b>> \in unsent
Clear(b) ==
  /\ \A c, d \in Picker : (b \in Touched(job[c]) /\ b \in Touched(job[d])) => c = d
  /\ \A c \in Picker : Posting(job[c], b) => job[c].seen = onHand[b]
  /\ version[b] > 0 => Settled(b) \/ \E c \in Picker : Posting(job[c], b)
  /\ \A c \in Picker : (job[c].at = "copy" /\ b \in DOMAIN job[c].read) =>
       job[c].read[b] = IF version[b] = 0 THEN <<>> ELSE <<onHand[b]>>
CacheStands == \A b \in Bin : b \notin unannounced => Clear(b)

Held(ls, b, l) == Range(SerialsOf(ls[b], l))
Named(j) == Range(j.receipt.serials)
\* The registry with a job under way: every serial held is registered there or about to be,
\* every one registered is held or about to be moved or forgotten.
Registered(ls, at, j) ==
  /\ \A b \in Bin, l \in Lot : IsInjective(SerialsOf(ls[b], l))
  /\ \A b \in Bin, l \in Lot : \A s \in Held(ls, b, l) :
       \/ s \in DOMAIN at /\ at[s] = <<b, l>>
       \/ j.at = "register" /\ j.bin = b /\ j.receipt.lot = l /\ s \in Named(j)
  /\ \A s \in DOMAIN at :
       \/ \E b \in Bin, l \in Lot : s \in Held(ls, b, l)
       \/ j.at = "unregister" /\ s \in j.leaving
       \/ j.at \in {"relocate", "arrive"} /\ s \in Named(j)
  /\ j.at \in {"receive", "register"} => Named(j) \intersect DOMAIN at = {}
  /\ j.at \in {"receive", "relocate", "arrive"} => IsInjective(j.receipt.serials)
  /\ j.at = "register" => Named(j) \subseteq Held(ls, j.bin, j.receipt.lot)
  /\ j.at = "unregister" => \A b \in Bin, l \in Lot : \A s \in Held(ls, b, l) : s \notin j.leaving
  /\ j.at \in {"relocate", "arrive"} => \A b \in Bin, l \in Lot : \A s \in Held(ls, b, l) : s \notin Named(j)
  /\ j.at = "arrive" => \A s \in Named(j) : s \in DOMAIN at /\ at[s] = <<j.to, j.receipt.lot>>
\* While no two calls overlapped, the registry is the ledgers' but for the call under way.
Alone(c) == \A d \in Picker : d # c => At(d, "idle")
SerialsStand ==
  /\ ~overlapped => \A c, d \in Picker : c # d => At(c, "idle") \/ At(d, "idle")
  /\ (SerialsNamedOnce /\ ~overlapped /\ torn = {}) =>
       /\ (\A c \in Picker : At(c, "idle")) => Registered(lots, serialAt, Free)
       /\ \A c \in Picker : Alone(c) => Registered(lots, serialAt, job[c])

\* A call takes its next step: the others stay where they are.
LEMMA JobMoves ==
  ASSUME JobsTyped, NEW c \in Picker, NEW k, Sound(k, Len(pallets')), job' = [job EXCEPT ![c] = k],
         Len(pallets) \in Nat, Len(pallets') \in Nat, Len(pallets) <= Len(pallets')
  PROVE  JobsTyped'
<1>1. k \in JobType
  BY DEF Sound
<1>2. job' \in [Picker -> JobType] /\ \A d \in Picker : job'[d] = IF d = c THEN k ELSE job[d]
  BY <1>1 DEF JobsTyped
<1>3. ASSUME NEW d \in Picker PROVE Sound(job'[d], Len(pallets'))
  <2>1. CASE d = c
    BY <1>2, <2>1
  <2>2. CASE d # c
    <3>1. Sound(job[d], Len(pallets)) /\ job'[d] = job[d]
      BY <1>2, <2>2 DEF JobsTyped
    <3>2. Sound(job[d], Len(pallets'))
      <4>1. \A p \in 1..Len(pallets) : p \in 1..Len(pallets')
        OBVIOUS
      <4> QED
        BY <3>1, <4>1 DEF Sound
    <3> QED
      BY <3>1, <3>2
  <2> QED
    BY <2>1, <2>2
<1> QED
  BY <1>2, <1>3 DEF JobsTyped

LEMMA TransitIs ==
  ASSUME NEW j, NEW n, Sound(j, n)
  PROVE  Transit(j) \in Nat
  BY DEF Transit, Sound, Proper, LotDetail

\* One term of a sum moves.
LEMMA TermMoves ==
  ASSUME NEW S, IsFiniteSet(S), NEW f \in [S -> Int], NEW g \in [S -> Int], NEW x \in S,
         \A y \in S \ {x} : g[y] = f[y]
  PROVE  /\ Sum(f, S) \in Int /\ Sum(g, S) \in Int
         /\ Sum(g, S) = Sum(f, S) + (g[x] - f[x])
<1>1. PICK s : s = S
  OBVIOUS
<1>2. s \in SUBSET S /\ x \in s /\ \A y \in s \ {x} : g[y] = f[y]
  BY <1>1
<1>3. Sum(g, s) = Sum(f, s) + (g[x] - f[x])
  BY <1>2, SumChanged
<1>4. Sum(f, s) \in Int /\ Sum(g, s) \in Int
  BY <1>2, SumOne
<1> QED
  BY <1>1, <1>3, <1>4

\* What a step may do to one shard: the rest of the stock stays.
ShardMoves(b, h, ls, rs) ==
  /\ onHand' = [onHand EXCEPT ![b] = h]
  /\ lots' = [lots EXCEPT ![b] = ls] /\ replayed' = [replayed EXCEPT ![b] = rs]
  /\ version' \in [Bin -> Nat] /\ \A x \in Bin : x # b => version'[x] = version[x]

LEMMA ShardSound ==
  ASSUME InventoryAssumption, StockTyped, LotsStand, Conserved, JobsTyped, JobsTyped',
         NEW b \in Bin, NEW h \in Nat, NEW ls \in Ledgers, NEW rs \in Ledgers, ShardMoves(b, h, ls, rs),
         NEW c \in Picker, NEW k, job' = [job EXCEPT ![c] = k],
         torn \subseteq torn', bulk \subseteq bulk', b \notin torn' => Alike(rs, ls),
         b \notin bulk' \union torn' => h = Units(ls), confirmed' \in Int,
         torn' = {} => confirmed' = confirmed + (h - onHand[b]) + (Transit(k) - Transit(job[c])),
         pallets' \in Seq(PalletType), DOMAIN stockCache' \subseteq Bin
  PROVE  StockTyped' /\ LotsStand' /\ Conserved'
<1>1. /\ onHand' \in [Bin -> Nat] /\ onHand'[b] = h /\ \A x \in Bin : x # b => onHand'[x] = onHand[x]
      /\ lots' \in [Bin -> Ledgers] /\ lots'[b] = ls /\ \A x \in Bin : x # b => lots'[x] = lots[x]
      /\ replayed' \in [Bin -> Ledgers] /\ replayed'[b] = rs /\ \A x \in Bin : x # b => replayed'[x] = replayed[x]
  BY DEF StockTyped, ShardMoves
<1>2. StockTyped'
  BY <1>1 DEF StockTyped, ShardMoves
<1>3. LotsStand'
  <2>1. ASSUME NEW x \in Bin, x \notin torn' PROVE Alike(replayed'[x], lots'[x])
    BY <1>1, <2>1 DEF LotsStand
  <2>2. ASSUME NEW x \in Bin, x \notin bulk' \union torn' PROVE onHand'[x] = Units(lots'[x])
    BY <1>1, <2>2 DEF LotsStand
  <2> QED
    BY <2>1, <2>2 DEF LotsStand
<1>4. ASSUME torn' = {}
      PROVE  confirmed' = Sum(onHand', Bin) + Sum([d \in Picker |-> Transit(job'[d])], Picker)
  <2>1. IsFiniteSet(Bin) /\ IsFiniteSet(Picker)
    BY DEF InventoryAssumption
  <2>2. onHand \in [Bin -> Int] /\ h \in Int /\ onHand[b] \in Int
    BY DEF StockTyped
  <2>3. PICK t : t = [d \in Picker |-> Transit(job[d])]
    OBVIOUS
  <2>4. PICK u : u = [d \in Picker |-> Transit(job'[d])]
    OBVIOUS
  <2>5. \A d \in Picker : Transit(job[d]) \in Int /\ Transit(job'[d]) \in Int
    BY TransitIs DEF JobsTyped
  <2>6. job'[c] = k /\ \A y \in Picker : y # c => job'[y] = job[y]
    BY DEF JobsTyped
  <2>7. Transit(k) \in Int /\ t \in [Picker -> Int] /\ t[c] = Transit(job[c])
    BY <2>3, <2>5, <2>6
  <2>8. u = [t EXCEPT ![c] = Transit(k)]
    BY <2>3, <2>4, <2>6
  <2>9. onHand' = [onHand EXCEPT ![b] = h]
    BY DEF ShardMoves
  <2>10. Sum(onHand, Bin) \in Int /\ Sum(onHand', Bin) \in Int /\ Sum(onHand', Bin) = Sum(onHand, Bin) + (h - onHand[b])
    <3>1. onHand' \in [Bin -> Int] /\ onHand'[b] = h /\ \A y \in Bin \ {b} : onHand'[y] = onHand[y]
      BY <2>2, <2>9
    <3> QED
      BY <2>1, <2>2, <3>1, TermMoves
  <2>11. Sum(t, Picker) \in Int /\ Sum(u, Picker) \in Int /\ Sum(u, Picker) = Sum(t, Picker) + (Transit(k) - t[c])
    <3>1. u \in [Picker -> Int] /\ u[c] = Transit(k) /\ \A y \in Picker \ {c} : u[y] = t[y]
      BY <2>7, <2>8
    <3>2. IsFiniteSet(Picker) /\ t \in [Picker -> Int]
      BY <2>1, <2>7
    <3>3. Sum(t, Picker) \in Int /\ Sum(u, Picker) \in Int /\ Sum(u, Picker) = Sum(t, Picker) + (u[c] - t[c])
      BY <3>1, <3>2, TermMoves, SMTT(30)
    <3> QED
      BY <3>1, <3>3
  <2>12. confirmed = Sum(onHand, Bin) + Sum(t, Picker)
    BY <1>4, <2>3 DEF Conserved
  <2>13. confirmed' = confirmed + (h - onHand[b]) + (Transit(k) - Transit(job[c]))
    BY <1>4
  <2>14. PICK was, now, out, left, had, done, gone :
           /\ was = Sum(onHand, Bin) /\ now = Sum(onHand', Bin) /\ out = Sum(t, Picker) /\ left = Sum(u, Picker)
           /\ had = onHand[b] /\ done = Transit(k) /\ gone = Transit(job[c])
    OBVIOUS
  <2>15. was \in Int /\ out \in Int /\ had \in Int /\ done \in Int /\ gone \in Int
    BY <2>2, <2>5, <2>7, <2>10, <2>11, <2>14
  <2>16. now = was + (h - had) /\ left = out + (done - gone) /\ confirmed = was + out
         /\ confirmed' = confirmed + (h - had) + (done - gone)
    BY <2>7, <2>10, <2>11, <2>12, <2>13, <2>14
  <2>17. confirmed' = now + left
    BY <2>15, <2>16
  <2> QED
    BY <2>4, <2>14, <2>17
<1> QED
  BY <1>2, <1>3, <1>4 DEF Conserved

\* A step that leaves the shards alone.
ShardsRest == UNCHANGED <<onHand, lots, version, replayed, confirmed, torn, bulk>>

LEMMA RestSound ==
  ASSUME StockTyped, LotsStand, Conserved, JobsTyped, ShardsRest,
         NEW c \in Picker, NEW k, job' = [job EXCEPT ![c] = k], Transit(k) = Transit(job[c]),
         pallets' \in Seq(PalletType), DOMAIN stockCache' \subseteq Bin
  PROVE  StockTyped' /\ LotsStand' /\ Conserved'
<1>1. StockTyped'
  BY DEF StockTyped, ShardsRest
<1>2. LotsStand'
  BY DEF LotsStand, ShardsRest
<1>3. [d \in Picker |-> Transit(job'[d])] = [d \in Picker |-> Transit(job[d])]
  <2>1. \A d \in Picker : job'[d] = IF d = c THEN k ELSE job[d]
    BY DEF JobsTyped
  <2>2. \A d \in Picker : Transit(job'[d]) = Transit(job[d])
    BY <2>1
  <2> QED
    BY <2>2
<1>4. onHand' = onHand /\ torn' = torn /\ confirmed' = confirmed
  BY DEF ShardsRest
<1>5. Conserved'
  BY <1>3, <1>4 DEF Conserved
<1> QED
  BY <1>1, <1>2, <1>5

LEMMA FreeIs == Free \in JobType
<1>1. Empty \in [{} -> Seq(Nat)]
  BY DEF Empty
<1>2. Empty \in Reads
  BY <1>1 DEF Reads
<1>3. <<>> \in Seq(Line)
  BY EmptySeq
<1> QED
  BY <1>2, <1>3 DEF Free, JobType, Steps

\* A step of the call of c, which becomes k, keeps what the cache says of a bin right.
KeepsUp(c, k, b) ==
  /\ b \in Touched(k) => b \in Touched(job[c]) \/ \A d \in Picker : d # c => b \notin Touched(job[d])
  /\ \/ /\ onHand'[b] = onHand[b] /\ version'[b] = version[b]
        /\ Posting(k, b) => Posting(job[c], b) /\ k.seen = job[c].seen
        /\ Settled(b) => Settled(b)'
        /\ Posting(job[c], b) => Posting(k, b) \/ Settled(b)'
     \/ Posting(k, b) /\ k.seen = onHand'[b]
  /\ (k.at = "copy" /\ b \in DOMAIN k.read) => k.read[b] = IF version'[b] = 0 THEN <<>> ELSE <<onHand'[b]>>

LEMMA PostingTouches ==
  ASSUME InventoryAssumption, NEW b \in Bin, NEW j, Posting(j, b)
  PROVE  b \in Touched(j)
  BY DEF Posting, Target, Touched, InventoryAssumption

LEMMA CacheSound ==
  ASSUME InventoryAssumption, JobsTyped, CacheStands, NEW c \in Picker, NEW k, job' = [job EXCEPT ![c] = k],
         unannounced \subseteq unannounced', \A b \in Bin : b \notin unannounced' => KeepsUp(c, k, b)
  PROVE  CacheStands'
<1>1. \A d \in Picker : job'[d] = IF d = c THEN k ELSE job[d]
  BY DEF JobsTyped
<1>2. ASSUME NEW b \in Bin, b \notin unannounced' PROVE Clear(b)'
  <2>1. Clear(b) /\ KeepsUp(c, k, b)
    BY <1>2 DEF CacheStands
  <2>2. ASSUME NEW d \in Picker, NEW e \in Picker, b \in Touched(job'[d]), b \in Touched(job'[e]) PROVE d = e
    <3>1. CASE d # c /\ e # c
      <4>1. b \in Touched(job[d]) /\ b \in Touched(job[e])
        BY <1>1, <2>2, <3>1
      <4> QED
        BY <2>1, <4>1 DEF Clear
    <3>2. ASSUME NEW f \in Picker, f # c, b \in Touched(job[f]), b \in Touched(k) PROVE FALSE
      BY <2>1, <3>2 DEF KeepsUp, Clear
    <3>3. CASE d = c /\ e # c
      BY <1>1, <2>2, <3>2, <3>3
    <3>4. CASE d # c /\ e = c
      BY <1>1, <2>2, <3>2, <3>4
    <3> QED
      BY <3>1, <3>3, <3>4
  <2>3. CASE Posting(k, b) /\ k.seen = onHand'[b] /\ ~(onHand'[b] = onHand[b] /\ version'[b] = version[b])
    <3>1. b \in Touched(k)
      BY <2>3, PostingTouches
    <3>2. \A d \in Picker : d # c => b \notin Touched(job'[d])
      BY <1>1, <2>2, <3>1
    <3>3. \A d \in Picker : Posting(job'[d], b) => d = c
      BY <3>2, PostingTouches
    <3>4. \A d \in Picker : Posting(job'[d], b) => job'[d].seen = onHand'[b]
      BY <1>1, <2>3, <3>3
    <3>5. \A d \in Picker : job'[d].at = "copy" => b \in Touched(job'[d])
      BY DEF Touched
    <3>6. k.at # "copy"
      BY <2>3 DEF Posting
    <3>7. \A d \in Picker : job'[d].at # "copy"
      BY <1>1, <3>2, <3>5, <3>6
    <3>8. \E d \in Picker : Posting(job'[d], b)
      BY <1>1, <2>3
    <3>9. Clear(b)'
      BY <2>2, <3>4, <3>7, <3>8 DEF Clear
    <3> QED
      BY <3>9
  <2>4. CASE onHand'[b] = onHand[b] /\ version'[b] = version[b]
    <3>1. Posting(k, b) => k.seen = onHand'[b]
      BY <2>1, <2>4 DEF KeepsUp, Clear
    <3>2. \A d \in Picker : Posting(job'[d], b) => job'[d].seen = onHand'[b]
      BY <1>1, <2>1, <2>4, <3>1 DEF Clear
    <3>3. \A d \in Picker : (job'[d].at = "copy" /\ b \in DOMAIN job'[d].read) =>
            job'[d].read[b] = IF version'[b] = 0 THEN <<>> ELSE <<onHand'[b]>>
      <4>1. (k.at = "copy" /\ b \in DOMAIN k.read) => k.read[b] = IF version'[b] = 0 THEN <<>> ELSE <<onHand'[b]>>
        BY <2>1 DEF KeepsUp
      <4>2. \A d \in Picker : (job[d].at = "copy" /\ b \in DOMAIN job[d].read) =>
              job[d].read[b] = IF version'[b] = 0 THEN <<>> ELSE <<onHand'[b]>>
        BY <2>1, <2>4 DEF Clear
      <4> QED
        BY <1>1, <4>1, <4>2
    <3>4. ASSUME version'[b] > 0 PROVE Settled(b)' \/ \E d \in Picker : Posting(job'[d], b)
      <4>1. (Settled(b) => Settled(b)') \/ Posting(k, b)
        BY <2>1 DEF KeepsUp
      <4>2. Posting(job[c], b) => Posting(k, b) \/ Settled(b)'
        BY <2>1 DEF KeepsUp
      <4>3. Settled(b) \/ \E d \in Picker : Posting(job[d], b)
        BY <2>1, <2>4, <3>4 DEF Clear
      <4> QED
        BY <1>1, <4>1, <4>2, <4>3
    <3>5. Clear(b)'
      BY <2>2, <3>2, <3>3, <3>4 DEF Clear
    <3> QED
      BY <3>5
  <2> QED
    BY <2>1, <2>3, <2>4 DEF KeepsUp
<1> QED
  BY <1>2 DEF CacheStands

\* The registry keeps in step when the calls do not overlap.
LEMMA SerialsSound ==
  ASSUME JobsTyped, JobsTyped', SerialsStand, NEW c \in Picker, NEW k, job' = [job EXCEPT ![c] = k],
         overlapped => overlapped', torn' = {} => torn = {}, ~overlapped' => Alone(c),
         (SerialsNamedOnce /\ ~overlapped' /\ torn' = {} /\ Registered(lots, serialAt, job[c])) =>
           Registered(lots', serialAt', k)
  PROVE  SerialsStand'
<1>1. \A d \in Picker : job'[d] = IF d = c THEN k ELSE job[d]
  BY DEF JobsTyped
<1>2. k.at = "idle" => k = Free
  BY <1>1 DEF JobsTyped, Sound
<1>3. ASSUME ~overlapped' PROVE \A d, e \in Picker : d # e => At(d, "idle")' \/ At(e, "idle")'
  BY <1>1, <1>3 DEF Alone, At
<1>4. ASSUME SerialsNamedOnce, ~overlapped', torn' = {}
      PROVE  /\ (\A d \in Picker : At(d, "idle")') => Registered(lots', serialAt', Free)
             /\ \A d \in Picker : Alone(d)' => Registered(lots', serialAt', job'[d])
  <2>1. Alone(c) /\ Registered(lots, serialAt, job[c])
    BY <1>4 DEF SerialsStand
  <2>2. Registered(lots', serialAt', k)
    BY <1>4, <2>1
  <2>3. (\A d \in Picker : At(d, "idle")') => k = Free
    BY <1>1, <1>2 DEF At
  <2>4. ASSUME NEW d \in Picker, Alone(d)' PROVE job'[d] = k
    <3>1. CASE d = c
      BY <1>1, <3>1
    <3>2. CASE d # c
      <4>1. k = Free
        BY <1>1, <1>2, <2>4, <3>2 DEF Alone, At
      <4>2. job[d].at = "idle"
        BY <2>1, <3>2 DEF Alone, At
      <4>3. job[d] = Free
        BY <4>2 DEF JobsTyped, Sound
      <4> QED
        BY <1>1, <3>2, <4>1, <4>3
    <3> QED
      BY <3>1, <3>2
  <2> QED
    BY <2>2, <2>3, <2>4
<1> QED
  BY <1>3, <1>4 DEF SerialsStand

\* The inductive invariant.
StockInv == StockTyped /\ JobsTyped /\ LotsStand /\ Conserved /\ CacheStands /\ SerialsStand

\* A call that begins.
Opens(c, k) ==
  /\ job[c] = Free /\ job' = [job EXCEPT ![c] = k] /\ unannounced \subseteq unannounced'
  /\ \A b \in Bin : (b \notin unannounced' /\ b \in Touched(k)) => \A d \in Picker : d # c => b \notin Touched(job[d])
  /\ overlapped => overlapped'
  /\ ~overlapped' => Alone(c)

LEMMA StartOpens ==
  ASSUME JobsTyped, NEW c \in Picker, NEW k, Starts(c, k)
  PROVE  Opens(c, k)
<1>1. job[c].at = "idle"
  BY DEF Starts, At
<1>2. job[c] = Free
  BY <1>1 DEF JobsTyped, Sound
<1>3. overlapped => overlapped'
  BY DEF Starts
<1>4. ASSUME ~overlapped' PROVE Alone(c)
  BY <1>4 DEF Starts, InFlight, Alone
<1>5. job' = [job EXCEPT ![c] = k] /\ unannounced \subseteq unannounced'
  BY DEF Starts, Does
<1>6. ASSUME NEW b \in Bin, b \notin unannounced', b \in Touched(k), NEW d \in Picker, d # c, b \in Touched(job[d])
      PROVE  FALSE
  BY <1>6 DEF Starts
<1> QED
  BY <1>2, <1>3, <1>4, <1>5, <1>6 DEF Opens

Books == <<lots, replayed, onHand, version, serialAt, stockCache, signalled, unsent, confirmed, torn, bulk>>

\* What a job may wait for: the registry is owed nothing.
Owing == {"register", "unregister", "relocate", "arrive"}
LEMMA NothingOwed ==
  ASSUME NEW ls, NEW at, NEW j, NEW k, Registered(ls, at, j), j.at \notin Owing, k.at \notin Owing,
         k.at = "receive" => Named(k) \intersect DOMAIN at = {} /\ IsInjective(k.receipt.serials)
  PROVE  Registered(ls, at, k)
<1>1. j.at # "register" /\ j.at # "unregister" /\ j.at \notin {"relocate", "arrive"}
  BY DEF Owing
<1>2. k.at # "register" /\ k.at # "unregister" /\ k.at # "relocate" /\ k.at # "arrive"
  BY DEF Owing
<1>3. \A b \in Bin, l \in Lot : IsInjective(SerialsOf(ls[b], l))
  BY DEF Registered
<1>4. \A b \in Bin, l \in Lot : \A s \in Held(ls, b, l) : s \in DOMAIN at /\ at[s] = <<b, l>>
  BY <1>1 DEF Registered
<1>5. \A s \in DOMAIN at : \E b \in Bin, l \in Lot : s \in Held(ls, b, l)
  BY <1>1 DEF Registered
<1> QED
  BY <1>2, <1>3, <1>4, <1>5 DEF Registered

LEMMA FreePosts ==
  ASSUME NEW b
  PROVE  ~Posting(Free, b) /\ Transit(Free) = 0 /\ Free.at \notin Owing
  BY DEF Free, Posting, Transit, Owing

\* A call that begins and leaves the books as they are.
LEMMA OpeningSound ==
  ASSUME InventoryAssumption, StockInv, NEW c \in Picker, NEW k, Opens(c, k), UNCHANGED Books,
         pallets' \in Seq(PalletType), Len(pallets) <= Len(pallets'), Sound(k, Len(pallets')),
         k.at \in {"guarded", "receive", "palletize", "line", "pick", "count", "copy"},
         k.at = "copy" => k.read = Empty,
         k.at = "receive" => /\ Named(k) \intersect DOMAIN serialAt = {}
                             /\ SerialsNamedOnce => IsInjective(k.receipt.serials)
  PROVE  StockInv'
<1>1. pallets \in Seq(PalletType) /\ Len(pallets) \in Nat /\ Len(pallets') \in Nat
  BY DEF StockInv, StockTyped
<1>2. job' = [job EXCEPT ![c] = k] /\ job[c] = Free
  BY DEF Opens
<1>3. JobsTyped'
  BY <1>1, <1>2, JobMoves DEF StockInv
<1>4. ShardsRest
  BY DEF ShardsRest, Books
<1>5. Transit(k) = Transit(job[c])
  BY <1>2 DEF Transit, Free
<1>6. DOMAIN stockCache' \subseteq Bin
  BY DEF Books, StockInv, StockTyped
<1>7. StockTyped' /\ LotsStand' /\ Conserved'
  BY <1>2, <1>4, <1>5, <1>6, RestSound DEF StockInv
<1>8. ASSUME NEW b \in Bin, b \notin unannounced' PROVE KeepsUp(c, k, b)
  <2>1. ~Posting(k, b) /\ ~Posting(job[c], b)
    BY <1>2, FreePosts DEF Posting
  <2>2. Settled(b) => Settled(b)'
    BY DEF Settled, Books
  <2>3. onHand'[b] = onHand[b] /\ version'[b] = version[b]
    BY DEF Books
  <2>4. b \in Touched(k) => \A d \in Picker : d # c => b \notin Touched(job[d])
    BY <1>8 DEF Opens
  <2>5. k.at = "copy" => b \notin DOMAIN k.read
    BY DEF Empty
  <2> QED
    BY <2>1, <2>2, <2>3, <2>4, <2>5 DEF KeepsUp
<1>9. CacheStands'
  BY <1>2, <1>8, CacheSound DEF StockInv, Opens
<1>10. lots' = lots /\ serialAt' = serialAt /\ torn' = torn
  BY DEF Books
<1>11. k.at \notin Owing /\ job[c].at \notin Owing
  BY <1>2, FreePosts DEF Owing
<1>12. (SerialsNamedOnce /\ ~overlapped' /\ torn' = {} /\ Registered(lots, serialAt, job[c])) =>
           Registered(lots', serialAt', k)
  BY <1>10, <1>11, NothingOwed
<1>13. SerialsStand'
  BY <1>2, <1>3, <1>10, <1>12, SerialsSound DEF StockInv, Opens
<1> QED
  BY <1>3, <1>7, <1>9, <1>13 DEF StockInv

LEMMA StockIs ==
  ASSUME StockInv
  PROVE  /\ onHand \in [Bin -> Nat] /\ version \in [Bin -> Nat]
         /\ lots \in [Bin -> Ledgers] /\ replayed \in [Bin -> Ledgers]
         /\ DOMAIN stockCache \subseteq Bin /\ confirmed \in Int
         /\ pallets \in Seq(PalletType) /\ Len(pallets) \in Nat
         /\ job \in [Picker -> JobType] /\ \A c \in Picker : Sound(job[c], Len(pallets))
<1>1. pallets \in Seq(PalletType)
  BY DEF StockInv, StockTyped
<1>2. Len(pallets) \in Nat
  BY <1>1
<1> QED
  BY <1>2 DEF StockInv, StockTyped, JobsTyped

-----------------------------------------------------------------------------
(* Calls that begin and change no stock.                                   *)

LEMMA NoteVersionKeeps ==
  ASSUME InventoryAssumption, StockInv, NEW c \in Picker, NEW b \in Bin, NEW d \in Movements, NoteVersion(c, b, d)
  PROVE  StockInv'
<1>1. PICK k : k = [Free EXCEPT !.at = "guarded", !.bin = b, !.qty = d, !.seen = version[b]]
  OBVIOUS
<1>2. k \in JobType
  <2>1. version[b] \in Int /\ d \in Int
    BY StockIs DEF InventoryAssumption
  <2> QED
    BY <1>1, <2>1, FreeIs DEF JobType, Steps
<1>3. k.at = "guarded" /\ k.bin = b /\ k.to = NoBin
  BY <1>1 DEF Free
<1>4. Sound(k, Len(pallets'))
  BY <1>2, <1>3 DEF Sound
<1>5. Starts(c, k) /\ UNCHANGED Books /\ pallets' = pallets
  BY <1>1 DEF NoteVersion, Books
<1>6. Opens(c, k)
  BY <1>5, StartOpens DEF StockInv
<1>7. Len(pallets) <= Len(pallets') /\ pallets' \in Seq(PalletType)
  BY <1>5, StockIs
<1> QED
  BY <1>3, <1>4, <1>5, <1>6, <1>7, OpeningSound

LEMMA CheckSerialsKeeps ==
  ASSUME InventoryAssumption, StockInv, NEW c \in Picker, NEW b \in Bin, NEW r \in Receipts, CheckSerials(c, b, r)
  PROVE  StockInv'
<1>1. PICK k : k = [Free EXCEPT !.at = "receive", !.bin = b, !.receipt = r]
  OBVIOUS
<1>2. r \in LotDetail /\ Len(r.serials) <= r.qty
  <2>1. r \in LotDetail /\ (r.serials = <<>> \/ Len(r.serials) = r.qty)
    BY DEF InventoryAssumption
  <2>2. r.qty \in Nat /\ Len(<<>>) = 0
    BY <2>1, EmptySeq DEF LotDetail
  <2> QED
    BY <2>1, <2>2
<1>3. k \in JobType
  BY <1>1, <1>2, FreeIs DEF JobType, Steps
<1>4. k.at = "receive" /\ k.bin = b /\ k.to = NoBin /\ k.receipt = r
  BY <1>1 DEF Free
<1>5. Sound(k, Len(pallets'))
  BY <1>2, <1>3, <1>4 DEF Sound, Proper
<1>6. Starts(c, k) /\ UNCHANGED Books /\ pallets' = pallets /\ Range(r.serials) \intersect DOMAIN serialAt = {}
  BY <1>1 DEF CheckSerials, Books
<1>7. Opens(c, k)
  BY <1>6, StartOpens DEF StockInv
<1>8. Len(pallets) <= Len(pallets') /\ pallets' \in Seq(PalletType)
  BY <1>6, StockIs
<1>9. Named(k) \intersect DOMAIN serialAt = {} /\ (SerialsNamedOnce => IsInjective(k.receipt.serials))
  BY <1>4, <1>6 DEF Named, SerialsNamedOnce
<1> QED
  BY <1>4, <1>5, <1>6, <1>7, <1>8, <1>9, OpeningSound

LEMMA StartPalletKeeps ==
  ASSUME InventoryAssumption, StockInv, NEW c \in Picker, NEW b \in Bin, NEW load \in Loads, StartPallet(c, b, load)
  PROVE  StockInv'
<1>1. PICK k : k = [Free EXCEPT !.at = "palletize", !.bin = b, !.todo = load, !.load = load]
  OBVIOUS
<1>2. load \in Seq(Line)
  BY DEF InventoryAssumption
<1>3. k \in JobType
  BY <1>1, <1>2, FreeIs DEF JobType, Steps
<1>4. k.at = "palletize" /\ k.bin = b /\ k.to = NoBin
  BY <1>1 DEF Free
<1>5. Sound(k, Len(pallets'))
  BY <1>3, <1>4 DEF Sound
<1>6. Starts(c, k) /\ UNCHANGED Books /\ pallets' = pallets
  BY <1>1 DEF StartPallet, Books
<1>7. Opens(c, k)
  BY <1>6, StartOpens DEF StockInv
<1>8. Len(pallets) <= Len(pallets') /\ pallets' \in Seq(PalletType)
  BY <1>6, StockIs
<1> QED
  BY <1>4, <1>5, <1>6, <1>7, <1>8, OpeningSound

LEMMA StartCountKeeps ==
  ASSUME InventoryAssumption, StockInv, NEW c \in Picker, NEW b \in Bin, NEW n \in Counts, StartCount(c, b, n)
  PROVE  StockInv'
<1>1. PICK k : k = [Free EXCEPT !.at = "count", !.bin = b, !.qty = n]
  OBVIOUS
<1>2. n \in Int
  BY DEF InventoryAssumption
<1>3. k \in JobType
  BY <1>1, <1>2, FreeIs DEF JobType, Steps
<1>4. k.at = "count" /\ k.bin = b /\ k.to = NoBin
  BY <1>1 DEF Free
<1>5. Sound(k, Len(pallets'))
  BY <1>3, <1>4 DEF Sound
<1>6. Starts(c, k) /\ UNCHANGED Books /\ pallets' = pallets
  BY <1>1 DEF StartCount, Books
<1>7. Opens(c, k)
  BY <1>6, StartOpens DEF StockInv
<1>8. Len(pallets) <= Len(pallets') /\ pallets' \in Seq(PalletType)
  BY <1>6, StockIs
<1> QED
  BY <1>4, <1>5, <1>6, <1>7, <1>8, OpeningSound

LEMMA PalletIs ==
  ASSUME StockInv, NEW p \in DOMAIN pallets
  PROVE  p \in 1..Len(pallets) /\ pallets[p] \in PalletType /\ pallets[p].location \in Bin
         /\ pallets[p].lines \in Seq(Line)
<1>1. pallets \in Seq(PalletType)
  BY StockIs
<1>2. p \in 1..Len(pallets) /\ pallets[p] \in PalletType
  BY <1>1
<1> QED
  BY <1>2 DEF PalletType

LEMMA StartMoveKeeps ==
  ASSUME InventoryAssumption, StockInv, NEW c \in Picker, NEW p \in DOMAIN pallets, NEW b \in Bin, StartMove(c, p, b)
  PROVE  StockInv'
<1>1. PICK k : k = [Free EXCEPT !.at = "line", !.bin = pallets[p].location, !.to = b,
                                !.pallet = p, !.todo = pallets[p].lines]
  OBVIOUS
<1>2. p \in Nat /\ p \in 1..Len(pallets) /\ pallets[p].location \in Bin /\ pallets[p].lines \in Seq(Line)
  BY PalletIs
<1>3. k \in JobType
  BY <1>1, <1>2, FreeIs DEF JobType, Steps
<1>4. k.at = "line" /\ k.bin = pallets[p].location /\ k.to = b /\ k.pallet = p
  BY <1>1 DEF Free
<1>5. Starts(c, k) /\ UNCHANGED Books /\ pallets' = pallets
  BY <1>1 DEF StartMove, Books
<1>6. Sound(k, Len(pallets'))
  BY <1>2, <1>3, <1>4, <1>5 DEF Sound
<1>7. Opens(c, k)
  BY <1>5, StartOpens DEF StockInv
<1>8. Len(pallets) <= Len(pallets') /\ pallets' \in Seq(PalletType)
  BY <1>5, StockIs
<1> QED
  BY <1>4, <1>5, <1>6, <1>7, <1>8, OpeningSound

LEMMA ReduceLineKeeps ==
  ASSUME InventoryAssumption, StockInv, NEW c \in Picker, NEW p \in DOMAIN pallets,
         NEW i \in DOMAIN pallets[p].lines, NEW q \in PickSizes, ReduceLine(c, p, i, q)
  PROVE  StockInv'
<1>1. PICK k : k = [Free EXCEPT !.at = "pick", !.bin = pallets[p].location, !.qty = q]
  OBVIOUS
<1>2. p \in 1..Len(pallets) /\ pallets[p] \in PalletType /\ pallets[p].location \in Bin /\ pallets[p].lines \in Seq(Line)
  BY PalletIs
<1>3. q \in Nat
  BY DEF InventoryAssumption
<1>4. k \in JobType
  <2>1. PICK home : home = pallets[p].location
    OBVIOUS
  <2>2. home \in Bin /\ q \in Int /\ k = [Free EXCEPT !.at = "pick", !.bin = home, !.qty = q]
    BY <1>1, <1>2, <1>3, <2>1
  <2> QED
    BY <2>2, FreeIs DEF JobType, Steps
<1>5. k.at = "pick" /\ k.bin = pallets[p].location /\ k.to = NoBin /\ k.qty = q
  BY <1>1 DEF Free
<1>6. Starts(c, k) /\ UNCHANGED Books /\ pallets[p].lines[i].qty >= q
      /\ pallets' = [pallets EXCEPT ![p].lines[i].qty = @ - q]
  BY <1>1 DEF ReduceLine, Books
<1>7. Sound(k, Len(pallets'))
  BY <1>2, <1>3, <1>4, <1>5 DEF Sound
<1>8. Opens(c, k)
  BY <1>6, StartOpens DEF StockInv
<1>9. Len(pallets) <= Len(pallets') /\ pallets' \in Seq(PalletType)
  <2>1. PICK ln : ln = pallets[p].lines
    OBVIOUS
  <2>2. ln \in Seq(Line) /\ i \in 1..Len(ln) /\ ln[i] \in Line /\ ln[i].qty >= q
    BY <1>2, <1>6, <2>1
  <2>3. PICK d : d = [ln[i] EXCEPT !.qty = @ - q]
    OBVIOUS
  <2>4. d \in Line
    <3>1. PICK e : e = ln[i]
      OBVIOUS
    <3>2. e \in Line /\ e.qty >= q /\ d = [e EXCEPT !.qty = e.qty - q]
      BY <2>2, <2>3, <3>1
    <3>3. e.qty - q \in Nat
      BY <1>3, <3>2 DEF Line
    <3> QED
      BY <3>2, <3>3 DEF Line
  <2>5. PICK new : new = [ln EXCEPT ![i] = d]
    OBVIOUS
  <2>6. new \in Seq(Line)
    BY <2>2, <2>4, <2>5
  <2>7. PICK w : w = [pallets[p] EXCEPT !.lines = new]
    OBVIOUS
  <2>8. w \in PalletType
    BY <1>2, <2>6, <2>7 DEF PalletType
  <2>9. pallets' = [pallets EXCEPT ![p] = w]
    BY <1>6, <2>1, <2>3, <2>5, <2>7
  <2>10. pallets \in Seq(PalletType)
    BY StockIs
  <2>11. pallets' \in Seq(PalletType) /\ Len(pallets') = Len(pallets) /\ Len(pallets) \in Nat
    BY <1>2, <2>8, <2>9, <2>10
  <2> QED
    BY <2>11
<1> QED
  BY <1>5, <1>6, <1>7, <1>8, <1>9, OpeningSound

LEMMA StartRebuildingKeeps ==
  ASSUME InventoryAssumption, StockInv, NEW c \in Picker, StartRebuilding(c)
  PROVE  StockInv'
<1>1. PICK k : k = [Free EXCEPT !.at = "copy"]
  OBVIOUS
<1>2. k \in JobType
  BY <1>1, FreeIs DEF JobType, Steps
<1>3. k.at = "copy" /\ k.bin = NoBin /\ k.to = NoBin /\ k.read = Empty
  BY <1>1 DEF Free
<1>4. Sound(k, Len(pallets'))
  BY <1>2, <1>3 DEF Sound
<1>5. UNCHANGED Books /\ pallets' = pallets
  BY DEF StartRebuilding, Books
<1>6. Opens(c, k)
  <2>1. job[c].at = "idle"
    BY DEF StartRebuilding, At
  <2>2. job[c] = Free
    BY <2>1 DEF StockInv, JobsTyped, Sound
  <2>3. overlapped => overlapped'
    BY DEF StartRebuilding
  <2>4. ASSUME ~overlapped' PROVE Alone(c)
    BY <2>4 DEF StartRebuilding, InFlight, Alone
  <2>5. job' = [job EXCEPT ![c] = k] /\ unannounced \subseteq unannounced'
    BY <1>1 DEF StartRebuilding, Does
  <2>6. ASSUME NEW b \in Bin, b \notin unannounced', b \in Touched(k), NEW d \in Picker, d # c, b \in Touched(job[d])
        PROVE  FALSE
    BY <2>6 DEF StartRebuilding
  <2> QED
    BY <2>2, <2>3, <2>4, <2>5, <2>6 DEF Opens
<1>7. Len(pallets) <= Len(pallets') /\ pallets' \in Seq(PalletType)
  BY <1>5, StockIs
<1> QED
  BY <1>3, <1>4, <1>5, <1>6, <1>7, OpeningSound

\* A call that goes on and leaves the shards as they are.
LEMMA GoingSound ==
  ASSUME InventoryAssumption, StockInv, NEW c \in Picker, NEW k, job[c].at # "idle",
         job' = [job EXCEPT ![c] = k], ShardsRest, overlapped' = overlapped, unannounced' = unannounced,
         pallets' \in Seq(PalletType), Len(pallets) <= Len(pallets'), DOMAIN stockCache' \subseteq Bin,
         Sound(k, Len(pallets')), Transit(k) = Transit(job[c]), Touched(k) \subseteq Touched(job[c]),
         \A b \in Bin : Posting(k, b) => Posting(job[c], b) /\ k.seen = job[c].seen,
         \A b \in Bin : b \notin unannounced =>
           (Settled(b) => Settled(b)') /\ (Posting(job[c], b) => Posting(k, b) \/ Settled(b)'),
         \A b \in Bin : b \notin unannounced => ((k.at = "copy" /\ b \in DOMAIN k.read) =>
           k.read[b] = IF version[b] = 0 THEN <<>> ELSE <<onHand[b]>>),
         Registered(lots, serialAt, job[c]) => Registered(lots, serialAt', k)
  PROVE  StockInv'
<1>1. JobsTyped'
  <2>1. Len(pallets) \in Nat /\ Len(pallets') \in Nat /\ JobsTyped
    BY StockIs DEF StockInv
  <2> QED
    BY <2>1, JobMoves
<1>2. StockTyped' /\ LotsStand' /\ Conserved'
  BY RestSound DEF StockInv
<1>3. ASSUME NEW b \in Bin, b \notin unannounced' PROVE KeepsUp(c, k, b)
  <2>1. b \notin unannounced /\ onHand'[b] = onHand[b] /\ version'[b] = version[b]
    BY <1>3 DEF ShardsRest
  <2>2. b \in Touched(k) => b \in Touched(job[c])
    OBVIOUS
  <2>3. Posting(k, b) => Posting(job[c], b) /\ k.seen = job[c].seen
    OBVIOUS
  <2>4. (Settled(b) => Settled(b)') /\ (Posting(job[c], b) => Posting(k, b) \/ Settled(b)')
    BY <2>1
  <2>5. (k.at = "copy" /\ b \in DOMAIN k.read) => k.read[b] = IF version[b] = 0 THEN <<>> ELSE <<onHand[b]>>
    BY <2>1
  <2> QED
    BY <2>1, <2>2, <2>3, <2>4, <2>5 DEF KeepsUp
<1>4. CacheStands'
  BY <1>3, CacheSound DEF StockInv
<1>5. ~overlapped' => Alone(c)
  BY DEF StockInv, SerialsStand, Alone, At
<1>6. lots' = lots /\ torn' = torn
  BY DEF ShardsRest
<1>7. SerialsStand'
  BY <1>1, <1>5, <1>6, SerialsSound DEF StockInv
<1> QED
  BY <1>1, <1>2, <1>4, <1>7 DEF StockInv

\* One that owes nothing, before or after.
LEMMA PassingSound ==
  ASSUME InventoryAssumption, StockInv, NEW c \in Picker, NEW k, job[c].at # "idle",
         job' = [job EXCEPT ![c] = k], UNCHANGED Books, overlapped' = overlapped, unannounced' = unannounced,
         pallets' \in Seq(PalletType), Len(pallets) <= Len(pallets'),
         Sound(k, Len(pallets')), Touched(k) \subseteq Touched(job[c]),
         job[c].at \notin Owing \union {"announce"}, k.at \notin Owing \union {"announce", "receive", "copy"}
  PROVE  StockInv'
<1>1. ShardsRest /\ serialAt' = serialAt /\ stockCache' = stockCache
      /\ signalled' = signalled /\ unsent' = unsent /\ onHand' = onHand
  BY DEF ShardsRest, Books
<1>2. Transit(k) = 0 /\ Transit(job[c]) = 0
  BY DEF Transit, Owing
<1>3. \A b : ~Posting(k, b) /\ ~Posting(job[c], b)
  BY DEF Posting, Owing
<1>4. \A b : Settled(b) => Settled(b)'
  BY <1>1 DEF Settled
<1>5. Registered(lots, serialAt, job[c]) => Registered(lots, serialAt', k)
  BY <1>1, NothingOwed
<1>6. DOMAIN stockCache' \subseteq Bin
  BY <1>1, StockIs
<1>7. k.at # "copy"
  OBVIOUS
<1> QED
  BY <1>1, <1>2, <1>3, <1>4, <1>5, <1>6, <1>7, GoingSound

LEMMA FreeSound ==
  ASSUME NEW n
  PROVE  Sound(Free, n) /\ Touched(Free) = {} /\ Free.at = "idle"
<1>1. Free.at = "idle" /\ Free.bin = NoBin /\ Free.to = NoBin
  BY DEF Free
<1> QED
  BY <1>1, FreeIs DEF Sound, Touched

\* One that gives up.
LEMMA GivingUpSound ==
  ASSUME InventoryAssumption, StockInv, NEW c \in Picker, job[c].at # "idle",
         job' = [job EXCEPT ![c] = Free], UNCHANGED Books, overlapped' = overlapped, unannounced' = unannounced,
         pallets' \in Seq(PalletType), Len(pallets) <= Len(pallets'),
         job[c].at \notin Owing \union {"announce"}
  PROVE  StockInv'
<1>1. Free.at \notin Owing \union {"announce", "receive", "copy"}
  BY FreeSound DEF Owing
<1>2. Sound(Free, Len(pallets')) /\ Touched(Free) \subseteq Touched(job[c])
  BY FreeSound
<1> QED
  BY <1>1, <1>2, PassingSound

LEMMA CheckLineKeeps ==
  ASSUME InventoryAssumption, StockInv, NEW c \in Picker, CheckLine(c)
  PROVE  StockInv'
<1>1. PICK j : j = job[c]
  OBVIOUS
<1>2. j.at = "palletize" /\ j.todo # <<>> /\ Sound(j, Len(pallets)) /\ j \in JobType
  BY <1>1, StockIs DEF CheckLine, At
<1>3. UNCHANGED Books /\ overlapped' = overlapped /\ unannounced' = unannounced /\ pallets' = pallets
  BY DEF CheckLine, Books, Calling
<1>4. pallets' \in Seq(PalletType) /\ Len(pallets) <= Len(pallets')
  BY <1>3, StockIs
<1>5. job[c].at # "idle" /\ job[c].at \notin Owing \union {"announce"}
  BY <1>1, <1>2 DEF Owing
<1>6. CASE job' = [job EXCEPT ![c] = Free]
  BY <1>3, <1>4, <1>5, <1>6, GivingUpSound
<1>7. CASE job' = [job EXCEPT ![c] = [j EXCEPT !.todo = Tail(@)]]
  <2>1. PICK k : k = [j EXCEPT !.todo = Tail(@)]
    OBVIOUS
  <2>2. k \in JobType
    <3>1. j.todo \in Seq(Line)
      BY <1>2 DEF JobType
    <3>2. Tail(j.todo) \in Seq(Line)
      BY <1>2, <3>1
    <3> QED
      BY <1>2, <2>1, <3>2 DEF JobType
  <2>3. k.at = j.at /\ k.bin = j.bin /\ k.to = j.to
    BY <1>2, <2>1 DEF JobType
  <2>4. Sound(k, Len(pallets')) /\ Touched(k) \subseteq Touched(job[c])
    BY <1>1, <1>2, <2>2, <2>3 DEF Sound, Touched
  <2>5. k.at \notin Owing \union {"announce", "receive", "copy"}
    BY <1>2, <2>3 DEF Owing
  <2> QED
    BY <1>3, <1>4, <1>5, <1>7, <2>1, <2>4, <2>5, PassingSound
<1> QED
  BY <1>1, <1>6, <1>7 DEF CheckLine, Does

LEMMA InsertPalletKeeps ==
  ASSUME InventoryAssumption, StockInv, NEW c \in Picker, InsertPallet(c)
  PROVE  StockInv'
<1>1. PICK j : j = job[c]
  OBVIOUS
<1>2. j.at = "palletize" /\ Sound(j, Len(pallets)) /\ j \in JobType
  BY <1>1, StockIs DEF InsertPallet, At
<1>3. UNCHANGED Books /\ overlapped' = overlapped /\ unannounced' = unannounced
  BY DEF InsertPallet, Books, Calling
<1>4. pallets' \in Seq(PalletType) /\ Len(pallets) <= Len(pallets')
  <2>1. j.bin \in Bin /\ j.load \in Seq(Line)
    BY <1>2 DEF Sound, JobType
  <2>2. PICK w : w = [location |-> j.bin, lines |-> j.load]
    OBVIOUS
  <2>3. w \in PalletType
    BY <2>1, <2>2 DEF PalletType
  <2>4. pallets' = Append(pallets, w) /\ pallets \in Seq(PalletType)
    BY <1>1, <2>2, StockIs DEF InsertPallet
  <2> QED
    BY <2>3, <2>4
<1>5. job[c].at # "idle" /\ job[c].at \notin Owing \union {"announce"}
  BY <1>1, <1>2 DEF Owing
<1>6. job' = [job EXCEPT ![c] = Free]
  BY DEF InsertPallet, Does
<1> QED
  BY <1>3, <1>4, <1>5, <1>6, GivingUpSound

LEMMA EndMoveKeeps ==
  ASSUME InventoryAssumption, StockInv, NEW c \in Picker, EndMove(c)
  PROVE  StockInv'
<1>1. PICK j : j = job[c]
  OBVIOUS
<1>2. j.at = "line" /\ Sound(j, Len(pallets)) /\ j \in JobType
  BY <1>1, StockIs DEF EndMove, At
<1>3. UNCHANGED Books /\ overlapped' = overlapped /\ unannounced' = unannounced
  BY DEF EndMove, Books, Calling
<1>4. pallets' \in Seq(PalletType) /\ Len(pallets) <= Len(pallets')
  <2>1. j.to \in Bin /\ j.to # NoBin
    BY <1>2 DEF Sound, InventoryAssumption
  <2>2. PICK p : p = j.pallet
    OBVIOUS
  <2>3. p \in 1..Len(pallets)
    BY <1>2, <2>1, <2>2 DEF Sound
  <2>4. pallets \in Seq(PalletType)
    BY StockIs
  <2>5. PICK w : w = [pallets[p] EXCEPT !.location = j.to]
    OBVIOUS
  <2>6. w \in PalletType
    <3>1. pallets[p] \in PalletType
      BY <2>3, <2>4
    <3> QED
      BY <2>1, <2>5, <3>1 DEF PalletType
  <2>7. pallets' = [pallets EXCEPT ![p] = w]
    BY <1>1, <2>2, <2>5 DEF EndMove
  <2>8. Len(pallets') = Len(pallets) /\ Len(pallets) \in Nat /\ pallets' \in Seq(PalletType)
    BY <2>3, <2>4, <2>6, <2>7
  <2> QED
    BY <2>8
<1>5. job[c].at # "idle" /\ job[c].at \notin Owing \union {"announce"}
  BY <1>1, <1>2 DEF Owing
<1>6. job' = [job EXCEPT ![c] = Free]
  BY DEF EndMove, Does
<1> QED
  BY <1>3, <1>4, <1>5, <1>6, GivingUpSound

LEMMA ReadExpectedKeeps ==
  ASSUME InventoryAssumption, StockInv, NEW c \in Picker, ReadExpected(c)
  PROVE  StockInv'
<1>1. PICK j : j = job[c]
  OBVIOUS
<1>2. j.at = "count" /\ Sound(j, Len(pallets)) /\ j \in JobType
  BY <1>1, StockIs DEF ReadExpected, At
<1>3. UNCHANGED Books /\ overlapped' = overlapped /\ unannounced' = unannounced /\ pallets' = pallets
  BY DEF ReadExpected, Books, Calling
<1>4. pallets' \in Seq(PalletType) /\ Len(pallets) <= Len(pallets')
  BY <1>3, StockIs
<1>5. job[c].at # "idle" /\ job[c].at \notin Owing \union {"announce"}
  BY <1>1, <1>2 DEF Owing
<1>6. CASE job' = [job EXCEPT ![c] = Free]
  BY <1>3, <1>4, <1>5, <1>6, GivingUpSound
<1>7. CASE job' = [job EXCEPT ![c] = [j EXCEPT !.at = "adjust", !.seen = onHand[j.bin]]]
  <2>1. PICK k : k = [j EXCEPT !.at = "adjust", !.seen = onHand[j.bin]]
    OBVIOUS
  <2>2. k \in JobType
    <3>1. j.bin \in Bin
      BY <1>2 DEF Sound
    <3>2. onHand[j.bin] \in Int
      BY <3>1, StockIs
    <3> QED
      BY <1>2, <2>1, <3>2 DEF JobType, Steps
  <2>3. k.at = "adjust" /\ k.bin = j.bin /\ k.to = j.to
    BY <1>2, <2>1 DEF JobType
  <2>4. Sound(k, Len(pallets')) /\ Touched(k) \subseteq Touched(job[c])
    BY <1>1, <1>2, <2>2, <2>3 DEF Sound, Touched
  <2>5. k.at \notin Owing \union {"announce", "receive", "copy"}
    BY <2>3 DEF Owing
  <2> QED
    BY <1>3, <1>4, <1>5, <1>7, <2>1, <2>4, <2>5, PassingSound
<1> QED
  BY <1>1, <1>6, <1>7 DEF ReadExpected, Does

-----------------------------------------------------------------------------
(* Rebuilds, and the read model after a write.                             *)

LEMMA ReadsIs ==
  ASSUME NEW f \in Reads
  PROVE  \E S \in SUBSET Bin : f \in [S -> Seq(Nat)]
  BY DEF Reads

LEMMA CopyShardKeeps ==
  ASSUME InventoryAssumption, StockInv, NEW c \in Picker, NEW b \in Bin, CopyShard(c, b)
  PROVE  StockInv'
<1>1. PICK j : j = job[c]
  OBVIOUS
<1>2. j.at = "copy" /\ Sound(j, Len(pallets)) /\ j \in JobType
  BY <1>1, StockIs DEF CopyShard, At
<1>3. UNCHANGED Books /\ overlapped' = overlapped /\ unannounced' = unannounced /\ pallets' = pallets
  BY DEF CopyShard, Books, Calling
<1>4. pallets' \in Seq(PalletType) /\ Len(pallets) <= Len(pallets')
  BY <1>3, StockIs
<1>5. PICK v : v = IF version[b] = 0 THEN <<>> ELSE <<onHand[b]>>
  OBVIOUS
<1>6. PICK w : w = Written(j.read, {b}, v)
  OBVIOUS
<1>7. PICK k : k = [j EXCEPT !.read = w]
  OBVIOUS
<1>8. job' = [job EXCEPT ![c] = k]
  BY <1>1, <1>5, <1>6, <1>7 DEF CopyShard, Does
<1>9. DOMAIN w = DOMAIN j.read \union {b} /\ w[b] = v /\ \A x \in DOMAIN j.read : x # b => w[x] = j.read[x]
  BY <1>6 DEF Written
<1>10. w \in Reads
  <2>1. v \in Seq(Nat)
    <3>1. onHand[b] \in Nat
      BY StockIs
    <3>2. <<onHand[b]>> \in Seq(Nat) /\ <<>> \in Seq(Nat)
      BY <3>1, EmptySeq
    <3> QED
      BY <1>5, <3>2
  <2>2. j.read \in Reads
    BY <1>2 DEF JobType
  <2>3. PICK S \in SUBSET Bin : j.read \in [S -> Seq(Nat)]
    BY <2>2, ReadsIs
  <2>4. w = [x \in S \union {b} |-> IF x \in {b} THEN v ELSE j.read[x]]
    BY <1>6, <2>3 DEF Written
  <2>5. w \in [S \union {b} -> Seq(Nat)]
    BY <2>1, <2>3, <2>4
  <2>6. S \union {b} \in SUBSET Bin
    OBVIOUS
  <2> QED
    BY <2>5, <2>6 DEF Reads
<1>11. k \in JobType /\ k.at = "copy" /\ k.bin = j.bin /\ k.to = j.to /\ k.read = w
  BY <1>2, <1>7, <1>10 DEF JobType
<1>12. Sound(k, Len(pallets')) /\ Touched(k) \subseteq Touched(job[c])
  BY <1>1, <1>2, <1>11 DEF Sound, Touched
<1>13. \A x : ~Posting(k, x) /\ ~Posting(job[c], x)
  BY <1>1, <1>2, <1>11 DEF Posting
<1>14. Transit(k) = Transit(job[c])
  BY <1>1, <1>2, <1>11 DEF Transit
<1>15. k.at \notin Owing /\ job[c].at \notin Owing /\ k.at # "receive" /\ job[c].at # "idle"
  BY <1>1, <1>2, <1>11 DEF Owing
<1>16. ASSUME NEW x \in Bin, x \notin unannounced, x \in DOMAIN k.read
       PROVE  k.read[x] = IF version[x] = 0 THEN <<>> ELSE <<onHand[x]>>
  <2>1. CASE x = b
    BY <1>5, <1>9, <1>11, <2>1
  <2>2. CASE x # b
    <3>1. Clear(x) /\ x \in DOMAIN j.read /\ k.read[x] = j.read[x]
      BY <1>9, <1>11, <1>16, <2>2 DEF StockInv, CacheStands
    <3> QED
      BY <1>1, <1>2, <3>1 DEF Clear
  <2> QED
    BY <2>1, <2>2
<1>17. ShardsRest /\ serialAt' = serialAt /\ stockCache' = stockCache
      /\ signalled' = signalled /\ unsent' = unsent /\ onHand' = onHand
  BY <1>3 DEF ShardsRest, Books
<1>18. \A x : Settled(x) => Settled(x)'
  BY <1>17 DEF Settled
<1>19. Registered(lots, serialAt, job[c]) => Registered(lots, serialAt', k)
  BY <1>15, <1>17, NothingOwed
<1>20. DOMAIN stockCache' \subseteq Bin
  BY <1>17, StockIs
<1> QED
  BY <1>3, <1>4, <1>8, <1>12, <1>13, <1>14, <1>15, <1>16, <1>17, <1>18, <1>19, <1>20, GoingSound

LEMMA PutRebuiltKeeps ==
  ASSUME InventoryAssumption, StockInv, NEW c \in Picker, PutRebuilt(c)
  PROVE  StockInv'
<1>1. PICK j : j = job[c]
  OBVIOUS
<1>2. j.at = "copy" /\ Sound(j, Len(pallets)) /\ j \in JobType /\ DOMAIN j.read = Bin
  BY <1>1, StockIs DEF PutRebuilt, At
<1>3. ShardsRest /\ serialAt' = serialAt /\ overlapped' = overlapped /\ unannounced' = unannounced /\ pallets' = pallets
      /\ signalled' = signalled /\ onHand' = onHand
  BY DEF PutRebuilt, ShardsRest, Calling
<1>4. pallets' \in Seq(PalletType) /\ Len(pallets) <= Len(pallets')
  BY <1>3, StockIs
<1>5. job' = [job EXCEPT ![c] = Free]
  BY DEF PutRebuilt, Does
<1>6. PICK found : found = {b \in DOMAIN j.read : j.read[b] # <<>>}
  OBVIOUS
<1>7. PICK done \in SUBSET found :
        /\ stockCache' = [b \in done \union DOMAIN stockCache |-> IF b \in done THEN j.read[b][1] ELSE stockCache[b]]
        /\ unsent' = unsent \ ({"put"} \X done)
  BY <1>1, <1>6 DEF PutRebuilt
<1>8. DOMAIN stockCache' \subseteq Bin
  BY <1>2, <1>6, <1>7, StockIs
<1>9. ASSUME NEW b \in Bin, b \notin unannounced, Settled(b) PROVE Settled(b)'
  <2>1. j.read[b] = IF version[b] = 0 THEN <<>> ELSE <<onHand[b]>>
    BY <1>1, <1>2, <1>9 DEF StockInv, CacheStands, Clear
  <2>2. b \in found => j.read[b] = <<onHand[b]>>
    BY <1>6, <2>1
  <2>3. b \in done => j.read[b][1] = onHand[b]
    BY <1>7, <2>2
  <2>4. <<"put", b>> \in unsent' \/ (b \in DOMAIN stockCache' /\ stockCache'[b] = onHand[b])
    <3>1. CASE b \in done
      BY <1>7, <2>3, <3>1
    <3>2. CASE b \notin done
      <4>1. <<"put", b>> \in unsent \/ (b \in DOMAIN stockCache /\ stockCache[b] = onHand[b])
        BY <1>9 DEF Settled
      <4>2. <<"put", b>> \in unsent => <<"put", b>> \in unsent'
        BY <1>7, <3>2
      <4>3. b \in DOMAIN stockCache => b \in DOMAIN stockCache' /\ stockCache'[b] = stockCache[b]
        BY <1>7, <3>2
      <4> QED
        BY <4>1, <4>2, <4>3
    <3> QED
      BY <3>1, <3>2
  <2>5. <<"job", b>> \in unsent => <<"job", b>> \in unsent'
    BY <1>7
  <2>6. onHand[b] < ReorderPoint => b \in signalled \/ <<"job", b>> \in unsent
    BY <1>9 DEF Settled
  <2> QED
    BY <1>3, <2>4, <2>5, <2>6 DEF Settled
<1>10. \A x : ~Posting(Free, x) /\ ~Posting(job[c], x)
  BY <1>1, <1>2, FreePosts DEF Posting
<1>11. Transit(Free) = Transit(job[c])
  BY <1>1, <1>2, FreePosts DEF Transit
<1>12. Free.at \notin Owing /\ job[c].at \notin Owing /\ Free.at # "receive" /\ job[c].at # "idle" /\ Free.at # "copy"
  BY <1>1, <1>2, FreeSound DEF Owing
<1>13. Registered(lots, serialAt, job[c]) => Registered(lots, serialAt', Free)
  BY <1>3, <1>12, NothingOwed
<1>14. Sound(Free, Len(pallets')) /\ Touched(Free) \subseteq Touched(job[c])
  BY FreeSound
<1> QED
  BY <1>3, <1>4, <1>5, <1>8, <1>9, <1>10, <1>11, <1>12, <1>13, <1>14, GoingSound

LEMMA AfterWriteKeeps ==
  ASSUME InventoryAssumption, StockInv, NEW c \in Picker, AfterWrite(c)
  PROVE  StockInv'
<1>1. PICK j : j = job[c]
  OBVIOUS
<1>2. j.at = "announce" /\ Sound(j, Len(pallets)) /\ j \in JobType
  BY <1>1, StockIs DEF AfterWrite, At
<1>3. ShardsRest /\ serialAt' = serialAt /\ overlapped' = overlapped /\ unannounced' = unannounced /\ pallets' = pallets
      /\ onHand' = onHand
  BY DEF AfterWrite, ShardsRest, Calling
<1>4. pallets' \in Seq(PalletType) /\ Len(pallets) <= Len(pallets')
  BY <1>3, StockIs
<1>5. PICK b : b = Target(j)
  OBVIOUS
<1>6. b \in Bin
  BY <1>2, <1>5 DEF Target, Sound, JobType
<1>7. PICK k : k = IF j.to = NoBin THEN Free ELSE [j EXCEPT !.at = "line"]
  OBVIOUS
<1>8. job' = [job EXCEPT ![c] = k]
  BY <1>1, <1>7 DEF AfterWrite, Does
<1>9. PICK lost \in SUBSET ({"put"} \union (IF j.seen < ReorderPoint THEN {"job"} ELSE {})) :
        /\ signalled' = IF j.seen < ReorderPoint /\ "job" \notin lost THEN signalled \union {b} ELSE signalled
        /\ stockCache' = IF "put" \in lost THEN stockCache ELSE Written(stockCache, {b}, j.seen)
        /\ unsent' = (unsent \ ({"put", "job"} \X {b})) \union (lost \X {b})
  BY <1>1, <1>5 DEF AfterWrite, Target
<1>10. DOMAIN stockCache' \subseteq DOMAIN stockCache \union {b}
       /\ ("put" \notin lost => b \in DOMAIN stockCache' /\ stockCache'[b] = j.seen)
       /\ \A x \in DOMAIN stockCache : x # b => x \in DOMAIN stockCache' /\ stockCache'[x] = stockCache[x]
  BY <1>9 DEF Written
<1>11. DOMAIN stockCache' \subseteq Bin
  BY <1>6, <1>10, StockIs
<1>12. Sound(k, Len(pallets')) /\ Touched(k) \subseteq Touched(job[c]) /\ k.at \in {"idle", "line"}
  <2>1. CASE j.to = NoBin
    BY <1>7, <2>1, FreeSound
  <2>2. CASE j.to # NoBin
    <3>1. k \in JobType /\ k.at = "line" /\ k.bin = j.bin /\ k.to = j.to /\ k.pallet = j.pallet
      BY <1>2, <1>7, <2>2 DEF JobType, Steps
    <3>2. j.to \in Bin /\ j.bin \in Bin /\ j.pallet \in 1..Len(pallets)
      BY <1>2, <2>2 DEF Sound, JobType
    <3> QED
      BY <1>1, <1>2, <1>3, <3>1, <3>2 DEF Sound, Touched
  <2> QED
    BY <2>1, <2>2
<1>13. \A x : ~Posting(k, x)
  BY <1>12 DEF Posting
<1>14. k.at \notin Owing /\ job[c].at \notin Owing /\ k.at # "receive" /\ job[c].at # "idle" /\ k.at # "copy"
  BY <1>1, <1>2, <1>12 DEF Owing
<1>15. Transit(k) = Transit(job[c])
  BY <1>14 DEF Transit, Owing
<1>16. Registered(lots, serialAt, job[c]) => Registered(lots, serialAt', k)
  BY <1>3, <1>14, NothingOwed
<1>17. ASSUME NEW x \in Bin, x \notin unannounced
       PROVE  (Settled(x) => Settled(x)') /\ (Posting(job[c], x) => Posting(k, x) \/ Settled(x)')
  <2>1. CASE x = b
    <3>1. Posting(job[c], x)
      BY <1>1, <1>2, <1>5, <2>1 DEF Posting
    <3>2. j.seen = onHand[x]
      BY <1>1, <1>17, <3>1 DEF StockInv, CacheStands, Clear
    <3>3. "put" \in lost => <<"put", x>> \in unsent'
      BY <1>9, <2>1
    <3>4. <<"put", x>> \in unsent' \/ (x \in DOMAIN stockCache' /\ stockCache'[x] = onHand[x])
      BY <1>10, <2>1, <3>2, <3>3
    <3>5. "job" \in lost => <<"job", x>> \in unsent'
      BY <1>9, <2>1
    <3>6. onHand[x] < ReorderPoint => x \in signalled' \/ <<"job", x>> \in unsent'
      BY <1>9, <2>1, <3>2, <3>5
    <3> QED
      BY <1>3, <3>4, <3>6 DEF Settled
  <2>2. CASE x # b
    <3>1. ~Posting(job[c], x)
      BY <1>1, <1>5, <2>2 DEF Posting
    <3>2. ASSUME Settled(x) PROVE Settled(x)'
      <4>1. <<"put", x>> \in unsent \/ (x \in DOMAIN stockCache /\ stockCache[x] = onHand[x])
        BY <3>2 DEF Settled
      <4>2. onHand[x] < ReorderPoint => x \in signalled \/ <<"job", x>> \in unsent
        BY <3>2 DEF Settled
      <4>3. \A what : <<what, x>> \in unsent => <<what, x>> \in unsent'
        BY <1>9, <2>2
      <4>4. x \in signalled => x \in signalled'
        BY <1>9
      <4>5. <<"put", x>> \in unsent' \/ (x \in DOMAIN stockCache' /\ stockCache'[x] = onHand[x])
        BY <1>10, <2>2, <4>1, <4>3
      <4>6. onHand[x] < ReorderPoint => x \in signalled' \/ <<"job", x>> \in unsent'
        BY <4>2, <4>3, <4>4
      <4> QED
        BY <1>3, <4>5, <4>6 DEF Settled
    <3> QED
      BY <3>1, <3>2
  <2> QED
    BY <2>1, <2>2
<1> QED
  BY <1>3, <1>4, <1>8, <1>11, <1>12, <1>13, <1>14, <1>15, <1>16, <1>17, GoingSound

-----------------------------------------------------------------------------
(* The registry of serial numbers.                                         *)

LEMMA RegisterKeeps ==
  ASSUME InventoryAssumption, StockInv, NEW c \in Picker, Register(c)
  PROVE  StockInv'
<1>1. PICK j : j = job[c]
  OBVIOUS
<1>2. j.at = "register" /\ Sound(j, Len(pallets)) /\ j \in JobType
  BY <1>1, StockIs DEF Register, At
<1>3. ShardsRest /\ overlapped' = overlapped /\ unannounced' = unannounced /\ pallets' = pallets
      /\ onHand' = onHand /\ stockCache' = stockCache /\ signalled' = signalled /\ unsent' = unsent
  BY DEF Register, ShardsRest, Calling
<1>4. pallets' \in Seq(PalletType) /\ Len(pallets) <= Len(pallets') /\ DOMAIN stockCache' \subseteq Bin
  BY <1>3, StockIs
<1>5. PICK k : k = [j EXCEPT !.at = "announce"]
  OBVIOUS
<1>6. job' = [job EXCEPT ![c] = k]
  BY <1>1, <1>5 DEF Register, Does
<1>7. k \in JobType /\ k.at = "announce" /\ k.bin = j.bin /\ k.to = j.to /\ k.seen = j.seen
  BY <1>2, <1>5 DEF JobType, Steps
<1>8. Sound(k, Len(pallets')) /\ Touched(k) \subseteq Touched(job[c])
  BY <1>1, <1>2, <1>7 DEF Sound, Touched
<1>9. \A b : Posting(k, b) <=> Posting(job[c], b)
  BY <1>1, <1>2, <1>7 DEF Posting, Target
<1>10. Transit(k) = Transit(job[c])
  BY <1>1, <1>2, <1>7 DEF Transit
<1>11. \A b : Settled(b) => Settled(b)'
  BY <1>3 DEF Settled
<1>12. serialAt' = Written(serialAt, Named(j), <<j.bin, j.receipt.lot>>)
  BY <1>1 DEF Register, Named
<1>13. ASSUME Registered(lots, serialAt, job[c]) PROVE Registered(lots, serialAt', k)
  <2>1. PICK N, home, at, new : N = Named(j) /\ home = <<j.bin, j.receipt.lot>> /\ at = serialAt /\ new = serialAt'
    OBVIOUS
  <2>2. DOMAIN new = DOMAIN at \union N /\ (\A s \in N : new[s] = home)
        /\ \A s \in DOMAIN at : s \notin N => new[s] = at[s]
    BY <1>12, <2>1 DEF Written
  <2>3. N \intersect DOMAIN at = {} /\ N \subseteq Held(lots, j.bin, j.receipt.lot)
    BY <1>1, <1>2, <1>13, <2>1 DEF Registered
  <2>4. j.bin \in Bin /\ j.receipt.lot \in Lot
    BY <1>2 DEF Sound, Proper, LotDetail
  <2>5. \A b \in Bin, l \in Lot : IsInjective(SerialsOf(lots[b], l))
    BY <1>13 DEF Registered
  <2>6. \A b \in Bin, l \in Lot : \A s \in Held(lots, b, l) :
          (s \in DOMAIN at /\ at[s] = <<b, l>>) \/ (j.bin = b /\ j.receipt.lot = l /\ s \in N)
    BY <1>1, <1>13, <2>1 DEF Registered
  <2>7. \A s \in DOMAIN at : \E b \in Bin, l \in Lot : s \in Held(lots, b, l)
    BY <1>1, <1>2, <1>13, <2>1 DEF Registered
  <2>8. ASSUME NEW b \in Bin, NEW l \in Lot, NEW s \in Held(lots, b, l)
        PROVE  s \in DOMAIN new /\ new[s] = <<b, l>>
    <3>1. CASE s \in N
      <4>1. s \notin DOMAIN at
        BY <2>3, <3>1
      <4>2. j.bin = b /\ j.receipt.lot = l
        BY <2>6, <2>8, <4>1
      <4> QED
        BY <2>1, <2>2, <3>1, <4>2
    <3>2. CASE s \notin N
      BY <2>2, <2>6, <2>8, <3>2
    <3> QED
      BY <3>1, <3>2
  <2>9. \A s \in DOMAIN new : \E b \in Bin, l \in Lot : s \in Held(lots, b, l)
    BY <2>2, <2>3, <2>4, <2>7
  <2> QED
    BY <1>7, <2>1, <2>5, <2>8, <2>9 DEF Registered
<1>14. Registered(lots, serialAt, job[c]) => Registered(lots, serialAt', k)
  BY <1>13
<1>15. job[c].at # "idle" /\ k.at # "copy" /\ k.seen = job[c].seen
  BY <1>1, <1>2, <1>7
<1> QED
  BY <1>3, <1>4, <1>6, <1>8, <1>9, <1>10, <1>11, <1>14, <1>15, GoingSound

LEMMA UnregisterKeeps ==
  ASSUME InventoryAssumption, StockInv, NEW c \in Picker, Unregister(c)
  PROVE  StockInv'
<1>1. PICK j : j = job[c]
  OBVIOUS
<1>2. j.at = "unregister" /\ Sound(j, Len(pallets)) /\ j \in JobType
  BY <1>1, StockIs DEF Unregister, At
<1>3. ShardsRest /\ overlapped' = overlapped /\ unannounced' = unannounced /\ pallets' = pallets
      /\ onHand' = onHand /\ stockCache' = stockCache /\ signalled' = signalled /\ unsent' = unsent
  BY DEF Unregister, ShardsRest, Calling
<1>4. pallets' \in Seq(PalletType) /\ Len(pallets) <= Len(pallets') /\ DOMAIN stockCache' \subseteq Bin
  BY <1>3, StockIs
<1>5. PICK k : k = [j EXCEPT !.at = "announce", !.leaving = {}]
  OBVIOUS
<1>6. job' = [job EXCEPT ![c] = k]
  BY <1>1, <1>5 DEF Unregister, Does
<1>7. k \in JobType /\ k.at = "announce" /\ k.bin = j.bin /\ k.to = j.to /\ k.seen = j.seen
  BY <1>2, <1>5 DEF JobType, Steps
<1>8. Sound(k, Len(pallets')) /\ Touched(k) \subseteq Touched(job[c])
  BY <1>1, <1>2, <1>7 DEF Sound, Touched
<1>9. \A b : Posting(k, b) <=> Posting(job[c], b)
  BY <1>1, <1>2, <1>7 DEF Posting, Target
<1>10. Transit(k) = Transit(job[c])
  BY <1>1, <1>2, <1>7 DEF Transit
<1>11. \A b : Settled(b) => Settled(b)'
  BY <1>3 DEF Settled
<1>12. serialAt' = Restrict(serialAt, DOMAIN serialAt \ j.leaving)
  BY <1>1 DEF Unregister
<1>13. ASSUME Registered(lots, serialAt, job[c]) PROVE Registered(lots, serialAt', k)
  <2>1. PICK N, at, new : N = j.leaving /\ at = serialAt /\ new = serialAt'
    OBVIOUS
  <2>2. DOMAIN new = DOMAIN at \ N /\ \A s \in DOMAIN new : new[s] = at[s]
    BY <1>12, <2>1 DEF Restrict
  <2>3. \A b \in Bin, l \in Lot : \A s \in Held(lots, b, l) : s \notin N
    BY <1>1, <1>2, <1>13, <2>1 DEF Registered
  <2>4. \A b \in Bin, l \in Lot : IsInjective(SerialsOf(lots[b], l))
    BY <1>13 DEF Registered
  <2>5. \A b \in Bin, l \in Lot : \A s \in Held(lots, b, l) : s \in DOMAIN at /\ at[s] = <<b, l>>
    BY <1>1, <1>2, <1>13, <2>1 DEF Registered
  <2>6. \A s \in DOMAIN at : s \notin N => \E b \in Bin, l \in Lot : s \in Held(lots, b, l)
    BY <1>1, <1>2, <1>13, <2>1 DEF Registered
  <2>7. \A b \in Bin, l \in Lot : \A s \in Held(lots, b, l) : s \in DOMAIN new /\ new[s] = <<b, l>>
    BY <2>2, <2>3, <2>5
  <2>8. \A s \in DOMAIN new : \E b \in Bin, l \in Lot : s \in Held(lots, b, l)
    BY <2>2, <2>6
  <2> QED
    BY <1>7, <2>1, <2>4, <2>7, <2>8 DEF Registered
<1>14. Registered(lots, serialAt, job[c]) => Registered(lots, serialAt', k)
  BY <1>13
<1>15. job[c].at # "idle" /\ k.at # "copy" /\ k.seen = job[c].seen
  BY <1>1, <1>2, <1>7
<1> QED
  BY <1>3, <1>4, <1>6, <1>8, <1>9, <1>10, <1>11, <1>14, <1>15, GoingSound

LEMMA RelocateKeeps ==
  ASSUME InventoryAssumption, StockInv, NEW c \in Picker, Relocate(c)
  PROVE  StockInv'
<1>1. PICK j : j = job[c]
  OBVIOUS
<1>2. j.at = "relocate" /\ Sound(j, Len(pallets)) /\ j \in JobType
  BY <1>1, StockIs DEF Relocate, At
<1>3. ShardsRest /\ overlapped' = overlapped /\ unannounced' = unannounced /\ pallets' = pallets
      /\ onHand' = onHand /\ stockCache' = stockCache /\ signalled' = signalled /\ unsent' = unsent
  BY DEF Relocate, ShardsRest, Calling
<1>4. pallets' \in Seq(PalletType) /\ Len(pallets) <= Len(pallets') /\ DOMAIN stockCache' \subseteq Bin
  BY <1>3, StockIs
<1>5. PICK k : k = [j EXCEPT !.at = "arrive"]
  OBVIOUS
<1>6. job' = [job EXCEPT ![c] = k]
  BY <1>1, <1>5 DEF Relocate, Does
<1>7. k \in JobType /\ k.at = "arrive" /\ k.bin = j.bin /\ k.to = j.to /\ k.receipt = j.receipt
      /\ k.todo = j.todo /\ k.pallet = j.pallet
  BY <1>2, <1>5 DEF JobType, Steps
<1>8. Sound(k, Len(pallets')) /\ Touched(k) \subseteq Touched(job[c])
  BY <1>1, <1>2, <1>3, <1>7 DEF Sound, Touched
<1>9. \A b : ~Posting(k, b) /\ ~Posting(job[c], b)
  BY <1>1, <1>2, <1>7 DEF Posting
<1>10. Transit(k) = Transit(job[c])
  BY <1>1, <1>2, <1>7 DEF Transit
<1>11. \A b : Settled(b) => Settled(b)'
  BY <1>3 DEF Settled
<1>12. serialAt' = Written(serialAt, Named(j), <<j.to, j.receipt.lot>>)
  BY <1>1 DEF Relocate, Named
<1>13. ASSUME Registered(lots, serialAt, job[c]) PROVE Registered(lots, serialAt', k)
  <2>1. PICK N, home, at, new : N = Named(j) /\ home = <<j.to, j.receipt.lot>> /\ at = serialAt /\ new = serialAt'
    OBVIOUS
  <2>2. DOMAIN new = DOMAIN at \union N /\ (\A s \in N : new[s] = home)
        /\ \A s \in DOMAIN at : s \notin N => new[s] = at[s]
    BY <1>12, <2>1 DEF Written
  <2>3. \A b \in Bin, l \in Lot : \A s \in Held(lots, b, l) : s \notin N
    BY <1>1, <1>2, <1>13, <2>1 DEF Registered
  <2>4. Named(k) = N /\ IsInjective(k.receipt.serials) /\ home = <<k.to, k.receipt.lot>>
    BY <1>1, <1>2, <1>7, <1>13, <2>1 DEF Registered, Named
  <2>5. \A b \in Bin, l \in Lot : IsInjective(SerialsOf(lots[b], l))
    BY <1>13 DEF Registered
  <2>6. \A b \in Bin, l \in Lot : \A s \in Held(lots, b, l) : s \in DOMAIN at /\ at[s] = <<b, l>>
    BY <1>1, <1>2, <1>13, <2>1 DEF Registered
  <2>7. \A s \in DOMAIN at : s \in N \/ \E b \in Bin, l \in Lot : s \in Held(lots, b, l)
    BY <1>1, <1>2, <1>13, <2>1 DEF Registered
  <2>8. \A b \in Bin, l \in Lot : \A s \in Held(lots, b, l) : s \in DOMAIN new /\ new[s] = <<b, l>>
    BY <2>2, <2>3, <2>6
  <2>9. \A s \in DOMAIN new : s \in N \/ \E b \in Bin, l \in Lot : s \in Held(lots, b, l)
    BY <2>2, <2>7
  <2>10. \A s \in N : s \in DOMAIN new /\ new[s] = <<k.to, k.receipt.lot>>
    BY <2>2, <2>4
  <2> QED
    BY <1>7, <2>1, <2>3, <2>4, <2>5, <2>8, <2>9, <2>10 DEF Registered
<1>14. Registered(lots, serialAt, job[c]) => Registered(lots, serialAt', k)
  BY <1>13
<1>15. job[c].at # "idle" /\ k.at # "copy"
  BY <1>1, <1>2, <1>7
<1> QED
  BY <1>3, <1>4, <1>6, <1>8, <1>9, <1>10, <1>11, <1>14, <1>15, GoingSound

\* Where another call is at work the cache is given up.
Reaches(c, k) ==
  \A x \in Bin : (x \notin unannounced' /\ x \in Touched(k)) =>
    x \in Touched(job[c]) \/ \A d \in Picker : d # c => x \notin Touched(job[d])

\* That calls overlap is not forgotten, and noticed.
Overlaps(c) == (overlapped => overlapped') /\ (~overlapped' => Alone(c))

\* A call that writes to the shard of b.
LEMMA StirringSound ==
  ASSUME InventoryAssumption, StockInv, NEW c \in Picker, NEW k, job' = [job EXCEPT ![c] = k],
         NEW b \in Bin, NEW h \in Nat, NEW ls \in Ledgers, NEW rs \in Ledgers, ShardMoves(b, h, ls, rs),
         torn \subseteq torn', bulk \subseteq bulk', unannounced \subseteq unannounced',
         b \notin torn' => Alike(rs, ls), b \notin bulk' \union torn' => h = Units(ls), confirmed' \in Int,
         torn' = {} => confirmed' = confirmed + (h - onHand[b]) + (Transit(k) - Transit(job[c])),
         pallets' = pallets, stockCache' = stockCache, signalled' = signalled, unsent' = unsent,
         Sound(k, Len(pallets)), Overlaps(c),
         Reaches(c, k),
         b \notin unannounced' => Posting(k, b) /\ k.seen = h, k.at # "copy",
         \A x \in Bin : x # b => ~Posting(k, x) /\ ~Posting(job[c], x),
         (SerialsNamedOnce /\ ~overlapped' /\ torn' = {} /\ Registered(lots, serialAt, job[c])) =>
           Registered(lots', serialAt', k)
  PROVE  StockInv'
<1>1. pallets' \in Seq(PalletType) /\ Len(pallets) \in Nat /\ Len(pallets') = Len(pallets)
      /\ DOMAIN stockCache' \subseteq Bin /\ onHand \in [Bin -> Nat]
  BY StockIs
<1>2. JobsTyped'
  <2>1. Sound(k, Len(pallets'))
    OBVIOUS
  <2>2. JobsTyped
    BY DEF StockInv
  <2>3. Len(pallets') \in Nat /\ Len(pallets) <= Len(pallets')
    BY <1>1
  <2> QED
    BY <1>1, <2>1, <2>2, <2>3, JobMoves
<1>3. StockTyped' /\ LotsStand' /\ Conserved'
  <2>1. StockTyped /\ LotsStand /\ Conserved /\ JobsTyped
    BY DEF StockInv
  <2> QED
    BY <1>1, <1>2, <2>1, ShardSound
<1>4. onHand'[b] = h /\ \A x \in Bin : x # b => onHand'[x] = onHand[x] /\ version'[x] = version[x]
  BY <1>1 DEF ShardMoves
<1>5. ASSUME NEW x \in Bin, x \notin unannounced' PROVE KeepsUp(c, k, x)
  <2>1. x \in Touched(k) => x \in Touched(job[c]) \/ \A d \in Picker : d # c => x \notin Touched(job[d])
    BY <1>5 DEF Reaches
  <2>2. CASE x = b
    BY <1>4, <1>5, <2>1, <2>2 DEF KeepsUp
  <2>3. CASE x # b
    <3>1. ~Posting(k, x) /\ ~Posting(job[c], x)
      BY <2>3
    <3>2. onHand'[x] = onHand[x] /\ version'[x] = version[x]
      BY <1>4, <2>3
    <3>3. Settled(x) => Settled(x)'
      BY <3>2 DEF Settled
    <3> QED
      BY <2>1, <3>1, <3>2, <3>3 DEF KeepsUp
  <2> QED
    BY <2>2, <2>3
<1>6. CacheStands'
  BY <1>5, CacheSound DEF StockInv
<1>7. SerialsStand'
  <2>1. JobsTyped /\ SerialsStand /\ (torn' = {} => torn = {})
    BY DEF StockInv
  <2>2. (overlapped => overlapped') /\ (~overlapped' => Alone(c))
    BY DEF Overlaps
  <2> QED
    BY <1>2, <2>1, <2>2, SerialsSound
<1> QED
  BY <1>2, <1>3, <1>6, <1>7 DEF StockInv

\* append_movement_locked alone: the lots stay.
LEMMA MovementIs ==
  ASSUME StockInv, NEW b \in Bin, NEW d \in Int, Appends(b, d, 1), UNCHANGED <<lots, replayed>>
  PROVE  /\ onHand[b] + d \in Nat /\ lots[b] \in Ledgers /\ replayed[b] \in Ledgers
         /\ ShardMoves(b, onHand[b] + d, lots[b], replayed[b])
<1>1. onHand \in [Bin -> Nat] /\ version \in [Bin -> Nat] /\ lots \in [Bin -> Ledgers] /\ replayed \in [Bin -> Ledgers]
  BY StockIs
<1>2. onHand[b] + d \in Nat
  BY <1>1 DEF Appends
<1>3. version' = [version EXCEPT ![b] = version[b] + 1] /\ onHand' = [onHand EXCEPT ![b] = onHand[b] + d]
  BY DEF Appends
<1>4. version' \in [Bin -> Nat] /\ \A x \in Bin : x # b => version'[x] = version[x]
  BY <1>1, <1>3
<1>5. lots' = [lots EXCEPT ![b] = lots[b]] /\ replayed' = [replayed EXCEPT ![b] = replayed[b]]
  BY <1>1
<1> QED
  BY <1>1, <1>2, <1>3, <1>4, <1>5 DEF ShardMoves

\* A movement of the aggregate by a call that then has it announced.
LEMMA AnnouncingSound ==
  ASSUME InventoryAssumption, StockInv, NEW c \in Picker, NEW k, job' = [job EXCEPT ![c] = k],
         NEW b \in Bin, NEW d \in Int, Appends(b, d, 1), UNCHANGED <<lots, replayed, serialAt, torn>>,
         bulk' = bulk \union {b}, unannounced \subseteq unannounced', confirmed' = confirmed + d,
         pallets' = pallets, stockCache' = stockCache, signalled' = signalled, unsent' = unsent,
         k \in JobType, k.at = "announce", k.bin = b, k.to = NoBin, k.seen = onHand[b] + d,
         Overlaps(c),
         Reaches(c, k),
         job[c].at \notin Owing \union {"announce"}
  PROVE  StockInv'
<1>1. PICK h, ls, rs : h = onHand[b] + d /\ ls = lots[b] /\ rs = replayed[b]
  OBVIOUS
<1>2. h \in Nat /\ ls \in Ledgers /\ rs \in Ledgers /\ ShardMoves(b, h, ls, rs) /\ onHand[b] \in Int /\ confirmed \in Int
  BY <1>1, MovementIs, StockIs
<1>3. Sound(k, Len(pallets))
  BY DEF Sound
<1>4. Transit(k) = 0 /\ Transit(job[c]) = 0
  BY DEF Transit, Owing
<1>5. confirmed' \in Int /\ confirmed' = confirmed + (h - onHand[b]) + (Transit(k) - Transit(job[c]))
  BY <1>1, <1>2, <1>4
<1>6. b \notin torn' => Alike(rs, ls)
  BY <1>1 DEF StockInv, LotsStand
<1>7. b \in bulk' /\ bulk \subseteq bulk' /\ torn \subseteq torn'
  OBVIOUS
<1>8. Posting(k, b) /\ k.seen = h /\ k.at # "copy" /\ k.at \notin Owing /\ k.at # "receive" /\ job[c].at \notin Owing
  BY <1>1 DEF Posting, Target, Owing
<1>9. \A x \in Bin : x # b => ~Posting(k, x) /\ ~Posting(job[c], x)
  BY DEF Posting, Target, Owing
<1>10. Registered(lots, serialAt, job[c]) => Registered(lots', serialAt', k)
  BY <1>8, NothingOwed
<1> QED
  BY <1>2, <1>3, <1>5, <1>6, <1>7, <1>8, <1>9, <1>10, StirringSound

LEMMA ApplyKeeps ==
  ASSUME InventoryAssumption, StockInv, NEW c \in Picker, NEW b \in Bin, NEW d \in Movements, Apply(c, b, d)
  PROVE  StockInv'
<1>1. PICK k : k = [Free EXCEPT !.at = "announce", !.bin = b, !.seen = onHand[b] + d]
  OBVIOUS
<1>2. d \in Int /\ onHand[b] \in Int /\ onHand[b] + d \in Int
  <2>1. onHand \in [Bin -> Nat]
    BY StockIs
  <2> QED
    BY <2>1 DEF InventoryAssumption
<1>3. k \in JobType /\ k.at = "announce" /\ k.bin = b /\ k.to = NoBin /\ k.seen = onHand[b] + d
  BY <1>1, <1>2, FreeIs DEF JobType, Steps, Free
<1>4. Starts(c, k) /\ Appends(b, d, 1) /\ UNCHANGED <<lots, replayed, serialAt, torn>> /\ bulk' = bulk \union {b}
      /\ confirmed' = confirmed + d /\ pallets' = pallets /\ stockCache' = stockCache
      /\ signalled' = signalled /\ unsent' = unsent
  BY <1>1 DEF Apply
<1>5. Opens(c, k)
  BY <1>4, StartOpens DEF StockInv
<1>6. job[c].at \notin Owing \union {"announce"}
  BY <1>5, FreeSound DEF Opens, Owing
<1>7. Reaches(c, k)
  BY <1>5 DEF Opens, Reaches
<1>8. /\ job' = [job EXCEPT ![c] = k] /\ unannounced \subseteq unannounced'
      /\ (overlapped => overlapped') /\ (~overlapped' => Alone(c))
  BY <1>5 DEF Opens
<1>9. Overlaps(c)
  BY <1>5 DEF Opens, Overlaps
<1>10. job' = [job EXCEPT ![c] = k] /\ unannounced \subseteq unannounced'
  BY <1>8
<1> QED
  BY <1>2, <1>3, <1>4, <1>6, <1>7, <1>9, <1>10, AnnouncingSound

\* A call under way announces the movement it makes.
LEMMA AnnouncedIs ==
  ASSUME StockInv, NEW c \in Picker, NEW j, j = job[c], j.at \notin {"idle", "copy"}, j.to = NoBin,
         NEW d \in Int, Appends(j.bin, d, 1), Announces(c, j.bin)
  PROVE  \E k \in JobType : /\ job' = [job EXCEPT ![c] = k] /\ k.at = "announce" /\ k.bin = j.bin /\ k.to = NoBin
                            /\ k.seen = onHand[j.bin] + d /\ Touched(k) = Touched(j)
<1>1. j \in JobType /\ j.bin \in Bin
  BY StockIs DEF Sound
<1>2. onHand[j.bin] \in Nat /\ onHand'[j.bin] = onHand[j.bin] + d
  BY <1>1, StockIs DEF Appends
<1>3. PICK k : k = [j EXCEPT !.at = "announce", !.seen = onHand[j.bin] + d]
  OBVIOUS
<1>4. job' = [job EXCEPT ![c] = k]
  BY <1>2, <1>3 DEF Announces, Does
<1>5. k \in JobType /\ k.at = "announce" /\ k.bin = j.bin /\ k.to = j.to /\ k.seen = onHand[j.bin] + d
  <2>1. PICK h : h = onHand[j.bin] + d
    OBVIOUS
  <2>2. h \in Int
    BY <1>2, <2>1
  <2> QED
    BY <1>1, <1>3, <2>1, <2>2 DEF JobType, Steps
<1>6. Touched(k) = Touched(j)
  BY <1>5 DEF Touched
<1> QED
  BY <1>4, <1>5, <1>6

LEMMA AloneNow ==
  ASSUME StockInv, NEW c \in Picker, job[c].at # "idle", ~overlapped
  PROVE  Alone(c)
  BY DEF StockInv, SerialsStand, Alone, At

LEMMA ApplyVersionedKeeps ==
  ASSUME InventoryAssumption, StockInv, NEW c \in Picker, ApplyVersioned(c)
  PROVE  StockInv'
<1>1. PICK j : j = job[c]
  OBVIOUS
<1>2. j.at = "guarded" /\ Sound(j, Len(pallets)) /\ j \in JobType
  BY <1>1, StockIs DEF ApplyVersioned, At
<1>3. UNCHANGED <<lots, replayed, serialAt, torn>> /\ pallets' = pallets /\ stockCache' = stockCache
      /\ signalled' = signalled /\ unsent' = unsent /\ unannounced' = unannounced /\ overlapped' = overlapped
  BY DEF ApplyVersioned, Calling
<1>4. j.to = NoBin /\ j.bin \in Bin /\ j.qty \in Int
  BY <1>2 DEF Sound, JobType
<1>5. job[c].at # "idle" /\ job[c].at \notin Owing \union {"announce"}
  BY <1>1, <1>2 DEF Owing
<1>6. CASE Does(c, Free) /\ UNCHANGED <<onHand, version, confirmed, bulk>>
  <2>1. UNCHANGED Books /\ job' = [job EXCEPT ![c] = Free]
    BY <1>3, <1>6 DEF Books, Does
  <2>2. pallets' \in Seq(PalletType) /\ Len(pallets) <= Len(pallets')
    BY <1>3, StockIs
  <2> QED
    BY <1>3, <1>5, <2>1, <2>2, GivingUpSound
<1>7. CASE Appends(j.bin, j.qty, 1) /\ Announces(c, j.bin) /\ confirmed' = confirmed + j.qty /\ bulk' = bulk \union {j.bin}
  <2>1. PICK k \in JobType : /\ job' = [job EXCEPT ![c] = k] /\ k.at = "announce" /\ k.bin = j.bin /\ k.to = NoBin
                             /\ k.seen = onHand[j.bin] + j.qty /\ Touched(k) = Touched(j)
    BY <1>1, <1>2, <1>4, <1>7, AnnouncedIs
  <2>2. Reaches(c, k)
    BY <1>1, <2>1 DEF Reaches
  <2>3. Overlaps(c)
    BY <1>3, <1>5, AloneNow DEF Overlaps
  <2>4. PICK b, d : b = j.bin /\ d = j.qty
    OBVIOUS
  <2> QED
    BY <1>3, <1>4, <1>5, <1>7, <2>1, <2>2, <2>3, <2>4, AnnouncingSound
<1> QED
  BY <1>1, <1>6, <1>7 DEF ApplyVersioned

LEMMA ApplyVarianceKeeps ==
  ASSUME InventoryAssumption, StockInv, NEW c \in Picker, ApplyVariance(c)
  PROVE  StockInv'
<1>1. PICK j : j = job[c]
  OBVIOUS
<1>2. j.at = "adjust" /\ Sound(j, Len(pallets)) /\ j \in JobType
  BY <1>1, StockIs DEF ApplyVariance, At
<1>3. UNCHANGED <<lots, replayed, serialAt, torn>> /\ pallets' = pallets /\ stockCache' = stockCache
      /\ signalled' = signalled /\ unsent' = unsent /\ unannounced' = unannounced /\ overlapped' = overlapped
  BY DEF ApplyVariance, Calling
<1>4. j.to = NoBin /\ j.bin \in Bin /\ j.qty \in Int /\ j.seen \in Int
  BY <1>2 DEF Sound, JobType
<1>5. job[c].at # "idle" /\ job[c].at \notin Owing \union {"announce"}
  BY <1>1, <1>2 DEF Owing
<1>6. PICK d : d = j.qty - j.seen
  OBVIOUS
<1>7. d \in Int
  BY <1>4, <1>6
<1>8. CASE Does(c, Free) /\ UNCHANGED <<onHand, version, confirmed, bulk>>
  <2>1. UNCHANGED Books /\ job' = [job EXCEPT ![c] = Free]
    BY <1>3, <1>8 DEF Books, Does
  <2>2. pallets' \in Seq(PalletType) /\ Len(pallets) <= Len(pallets')
    BY <1>3, StockIs
  <2> QED
    BY <1>3, <1>5, <2>1, <2>2, GivingUpSound
<1>9. CASE Appends(j.bin, d, 1) /\ Announces(c, j.bin) /\ confirmed' = confirmed + d /\ bulk' = bulk \union {j.bin}
  <2>1. PICK k \in JobType : /\ job' = [job EXCEPT ![c] = k] /\ k.at = "announce" /\ k.bin = j.bin /\ k.to = NoBin
                             /\ k.seen = onHand[j.bin] + d /\ Touched(k) = Touched(j)
    BY <1>1, <1>2, <1>4, <1>7, <1>9, AnnouncedIs
  <2>2. Reaches(c, k)
    BY <1>1, <2>1 DEF Reaches
  <2>3. Overlaps(c)
    BY <1>3, <1>5, AloneNow DEF Overlaps
  <2>4. PICK b : b = j.bin
    OBVIOUS
  <2> QED
    BY <1>3, <1>4, <1>5, <1>7, <1>9, <2>1, <2>2, <2>3, <2>4, AnnouncingSound
<1> QED
  BY <1>1, <1>6, <1>8, <1>9 DEF ApplyVariance

-----------------------------------------------------------------------------
(* What a draw takes from the front of a lot, and what it leaves.          *)

FrontOf(s, d) == SubSeq(s, 1, Min({Len(s), d}))

LEMMA SplitIs ==
  ASSUME NEW s \in Seq(Serial), NEW d \in Nat
  PROVE  /\ FrontOf(s, d) \in Seq(Serial) /\ Len(FrontOf(s, d)) <= d
         /\ Range(s) = Range(FrontOf(s, d)) \union Range(Kept(s, d))
         /\ IsInjective(s) => /\ IsInjective(FrontOf(s, d)) /\ IsInjective(Kept(s, d))
                              /\ Range(FrontOf(s, d)) \intersect Range(Kept(s, d)) = {}
<1>1. PICK n \in Nat : n = Len(s)
  OBVIOUS
<1>2. PICK m : m = Min({Len(s), d})
  OBVIOUS
<1>3. m \in Nat /\ m <= n /\ m <= d /\ (m = n \/ m = d)
  BY <1>1, <1>2, LesserOfTwo
<1>4. PICK f, k : f = FrontOf(s, d) /\ k = Kept(s, d)
  OBVIOUS
<1>5. f = SubSeq(s, 1, m)
  BY <1>2, <1>4 DEF FrontOf
<1>6. f \in Seq(Serial) /\ Len(f) = m /\ \A i \in 1..m : f[i] = s[i]
  BY <1>1, <1>3, <1>5
<1>7. Len(k) = n - m /\ \A i \in 1..(n - m) : k[i] = s[i + m]
  <2>1. CASE d <= n
    <3>1. k = SubSeq(s, d + 1, n) /\ m = d
      BY <1>1, <1>3, <1>4, <2>1 DEF Kept
    <3>2. Len(SubSeq(s, d + 1, n)) = n - d /\ \A i \in 1..(n - d) : SubSeq(s, d + 1, n)[i] = s[i + d]
      BY <1>1, <2>1
    <3> QED
      BY <3>1, <3>2
  <2>2. CASE ~(d <= n)
    <3>1. k = <<>> /\ m = n
      BY <1>1, <1>3, <1>4, <2>2 DEF Kept
    <3>2. Len(k) = 0
      BY <3>1, EmptySeq
    <3> QED
      BY <1>1, <3>1, <3>2
  <2> QED
    BY <2>1, <2>2
<1>8. DOMAIN s = 1..n /\ DOMAIN f = 1..m
  BY <1>1, <1>6
<1>9. DOMAIN k = 1..(n - m)
  <2>1. k \in Seq(Serial)
    <3>1. CASE d <= n
      BY <1>1, <1>4, <3>1 DEF Kept
    <3>2. CASE ~(d <= n)
      BY <1>1, <1>4, <3>2, EmptySeq DEF Kept
    <3> QED
      BY <3>1, <3>2
  <2> QED
    BY <1>7, <2>1
<1>10. Range(f) \subseteq Range(s) /\ Range(k) \subseteq Range(s)
  <2>1. ASSUME NEW i \in 1..m PROVE f[i] \in Range(s)
    <3>1. i \in 1..n /\ f[i] = s[i]
      BY <1>3, <1>6
    <3> QED
      BY <1>8, <3>1 DEF Range
  <2>2. ASSUME NEW i \in 1..(n - m) PROVE k[i] \in Range(s)
    <3>1. i + m \in 1..n /\ k[i] = s[i + m]
      BY <1>3, <1>7
    <3> QED
      BY <1>8, <3>1 DEF Range
  <2> QED
    BY <1>8, <1>9, <2>1, <2>2 DEF Range
<1>11. ASSUME NEW x \in Range(s) PROVE x \in Range(f) \union Range(k)
  <2>1. PICK i \in 1..n : x = s[i]
    BY <1>8 DEF Range
  <2>2. CASE i <= m
    <3>1. i \in 1..m /\ x = f[i]
      BY <1>3, <1>6, <2>1, <2>2
    <3> QED
      BY <1>8, <3>1 DEF Range
  <2>3. CASE ~(i <= m)
    <3>1. i - m \in 1..(n - m) /\ (i - m) + m = i
      BY <1>3, <2>3
    <3>2. x = k[i - m]
      BY <1>7, <2>1, <3>1
    <3> QED
      BY <1>9, <3>1, <3>2 DEF Range
  <2> QED
    BY <2>2, <2>3
<1>12. ASSUME IsInjective(s)
       PROVE  IsInjective(f) /\ IsInjective(k) /\ Range(f) \intersect Range(k) = {}
  <2>1. \A i, j \in 1..n : s[i] = s[j] => i = j
    BY <1>8, <1>12 DEF IsInjective
  <2>2. IsInjective(f)
    <3>1. ASSUME NEW i \in 1..m, NEW j \in 1..m, f[i] = f[j] PROVE i = j
      <4>1. i \in 1..n /\ j \in 1..n /\ s[i] = s[j]
        BY <1>3, <1>6, <3>1
      <4> QED
        BY <2>1, <4>1
    <3> QED
      BY <1>8, <3>1 DEF IsInjective
  <2>3. IsInjective(k)
    <3>1. ASSUME NEW i \in 1..(n - m), NEW j \in 1..(n - m), k[i] = k[j] PROVE i = j
      <4>1. i + m \in 1..n /\ j + m \in 1..n /\ s[i + m] = s[j + m]
        BY <1>3, <1>7, <3>1
      <4>2. i + m = j + m
        BY <2>1, <4>1
      <4> QED
        BY <1>3, <4>2
    <3> QED
      BY <1>9, <3>1 DEF IsInjective
  <2>4. ASSUME NEW i \in 1..m, NEW j \in 1..(n - m), f[i] = k[j] PROVE FALSE
    <3>1. i \in 1..n /\ j + m \in 1..n /\ s[i] = s[j + m]
      BY <1>3, <1>6, <1>7, <2>4
    <3>2. i = j + m
      BY <2>1, <3>1
    <3> QED
      BY <1>3, <3>2
  <2>5. Range(f) \intersect Range(k) = {}
    BY <1>8, <1>9, <2>4 DEF Range
  <2> QED
    BY <2>2, <2>3, <2>5
<1> QED
  BY <1>3, <1>4, <1>6, <1>10, <1>11, <1>12

\* The serials a plan takes, and those of one lot.
Gone(ls, plan) == UNION {Range(DrawnSerials(ls[PlaceOf(ls, plan[i].lot)], plan[i].qty)) : i \in DOMAIN plan}
TakenFrom(ls, plan, l) ==
  UNION {Range(FrontOf(SerialsOf(ls, l), plan[i].qty)) : i \in {m \in DOMAIN plan : plan[m].lot = l}}

LEMMA DrawnFront ==
  ASSUME NEW ls \in Ledgers, NEW d \in Line, HasLot(ls, d.lot)
  PROVE  DrawnSerials(ls[PlaceOf(ls, d.lot)], d.qty) = FrontOf(SerialsOf(ls, d.lot), d.qty)
  BY LotPlace DEF DrawnSerials, FrontOf, HasLot

LEMMA GoneIs ==
  ASSUME NEW ls \in Ledgers, NEW plan \in Seq(Line), Fits(ls, plan), NEW s
  PROVE  s \in Gone(ls, plan) <=> \E l \in Lot : s \in TakenFrom(ls, plan, l)
<1>1. \A i \in DOMAIN plan : plan[i] \in Line /\ plan[i].lot \in Lot /\ HasLot(ls, plan[i].lot)
  <2>1. \A i \in DOMAIN plan : plan[i] \in Line
    OBVIOUS
  <2> QED
    BY <2>1 DEF Fits, Line
<1>2. \A i \in DOMAIN plan :
        DrawnSerials(ls[PlaceOf(ls, plan[i].lot)], plan[i].qty) = FrontOf(SerialsOf(ls, plan[i].lot), plan[i].qty)
  BY <1>1, DrawnFront
<1>3. s \in Gone(ls, plan) <=> \E i \in DOMAIN plan : s \in Range(DrawnSerials(ls[PlaceOf(ls, plan[i].lot)], plan[i].qty))
  BY DEF Gone
<1>4. \A l : s \in TakenFrom(ls, plan, l) <=>
        \E i \in DOMAIN plan : plan[i].lot = l /\ s \in Range(FrontOf(SerialsOf(ls, l), plan[i].qty))
  BY DEF TakenFrom
<1> QED
  BY <1>1, <1>2, <1>3, <1>4

\* A lot holds what it held but what was taken.
LEMMA DrawnHeld ==
  ASSUME NEW old \in Ledgers, NEW plan \in Seq(Line), Fits(old, plan), NEW new,
         DrawnSoFar(new, old, plan, Len(plan)), NEW l, IsInjective(SerialsOf(old, l))
  PROVE  /\ IsInjective(SerialsOf(new, l))
         /\ Range(SerialsOf(old, l)) = Range(SerialsOf(new, l)) \union TakenFrom(old, plan, l)
         /\ Range(SerialsOf(new, l)) \intersect TakenFrom(old, plan, l) = {}
<1>1. Len(plan) \in Nat /\ DOMAIN plan = 1..Len(plan)
  BY LinesWeigh
<1>2. SerialsOf(old, l) \in Seq(Serial)
  BY HeldIs
<1>3. CASE \E i \in 1..Len(plan) : plan[i].lot = l /\ SerialsOf(new, l) = Kept(SerialsOf(old, l), plan[i].qty)
  <2>1. PICK i \in 1..Len(plan) : plan[i].lot = l /\ SerialsOf(new, l) = Kept(SerialsOf(old, l), plan[i].qty)
    BY <1>3
  <2>2. plan[i] \in Line /\ plan[i].qty \in Nat
    <3>1. plan[i] \in Line
      BY <1>1
    <3> QED
      BY <3>1 DEF Line
  <2>3. \A k \in DOMAIN plan : plan[k].lot = l => k = i
    BY <1>1, <2>1 DEF Fits
  <2>4. {m \in DOMAIN plan : plan[m].lot = l} = {i}
    BY <1>1, <2>1, <2>3
  <2>5. TakenFrom(old, plan, l) = Range(FrontOf(SerialsOf(old, l), plan[i].qty))
    BY <2>4 DEF TakenFrom
  <2> QED
    BY <1>2, <2>1, <2>2, <2>5, SplitIs
<1>4. CASE (\A i \in 1..Len(plan) : plan[i].lot # l) /\ SerialsOf(new, l) = SerialsOf(old, l)
  <2>1. TakenFrom(old, plan, l) = {}
    BY <1>1, <1>4 DEF TakenFrom
  <2> QED
    BY <1>4, <2>1
<1> QED
  BY <1>3, <1>4 DEF DrawnSoFar

\* What is held is registered and not in G, and what is registered is held or in G.
LeftRegistered(ls, at, G) ==
  /\ \A x \in Bin, l \in Lot : IsInjective(SerialsOf(ls[x], l))
  /\ \A x \in Bin, l \in Lot : \A s \in Held(ls, x, l) : s \in DOMAIN at /\ at[s] = <<x, l>> /\ s \notin G
  /\ \A s \in DOMAIN at : s \in G \/ \E x \in Bin, l \in Lot : s \in Held(ls, x, l)

\* After a plan was drawn: what is left is registered, and what was taken is left nowhere.
LEMMA DrawnRegistered ==
  ASSUME NEW ls \in [Bin -> Ledgers], NEW b \in Bin, NEW plan \in Seq(Line), Fits(ls[b], plan),
         NEW new, DrawnSoFar(new, ls[b], plan, Len(plan)), NEW after, after = [ls EXCEPT ![b] = new],
         NEW at, NEW j, Registered(ls, at, j), j.at \notin Owing, NEW G, G = Gone(ls[b], plan)
  PROVE  LeftRegistered(after, at, G)
<1>1. j.at # "register" /\ j.at # "unregister" /\ j.at \notin {"relocate", "arrive"}
  BY DEF Owing
<1>2. \A x \in Bin, l \in Lot : IsInjective(SerialsOf(ls[x], l))
  BY DEF Registered
<1>3. \A x \in Bin, l \in Lot : \A s \in Held(ls, x, l) : s \in DOMAIN at /\ at[s] = <<x, l>>
  BY <1>1 DEF Registered
<1>4. \A s \in DOMAIN at : \E x \in Bin, l \in Lot : s \in Held(ls, x, l)
  BY <1>1 DEF Registered
<1>5. after[b] = new /\ \A x \in Bin : x # b => after[x] = ls[x]
  OBVIOUS
<1>6. ls[b] \in Ledgers
  OBVIOUS
<1>7. ASSUME NEW l \in Lot
      PROVE  /\ IsInjective(SerialsOf(new, l))
             /\ Held(ls, b, l) = Held(after, b, l) \union TakenFrom(ls[b], plan, l)
             /\ Held(after, b, l) \intersect TakenFrom(ls[b], plan, l) = {}
  <2>1. IsInjective(SerialsOf(ls[b], l))
    BY <1>2
  <2> QED
    BY <1>5, <1>6, <2>1, DrawnHeld DEF Held
<1>8. \A s : s \in G <=> \E l \in Lot : s \in TakenFrom(ls[b], plan, l)
  BY <1>6, GoneIs
<1>9. \A x \in Bin, l \in Lot : IsInjective(SerialsOf(after[x], l))
  BY <1>2, <1>5, <1>7
<1>10. ASSUME NEW x \in Bin, NEW l \in Lot, NEW s \in Held(after, x, l)
       PROVE  s \in DOMAIN at /\ at[s] = <<x, l>> /\ s \notin G
  <2>1. s \in Held(ls, x, l)
    BY <1>5, <1>7, <1>10 DEF Held
  <2>2. s \in DOMAIN at /\ at[s] = <<x, l>>
    BY <1>3, <2>1
  <2>3. ASSUME s \in G PROVE FALSE
    <3>1. PICK m \in Lot : s \in TakenFrom(ls[b], plan, m)
      BY <1>8, <2>3
    <3>2. s \in Held(ls, b, m)
      BY <1>7, <3>1
    <3>3. at[s] = <<b, m>>
      BY <1>3, <3>2
    <3>4. x = b /\ l = m
      BY <2>2, <3>3
    <3> QED
      BY <1>7, <1>10, <3>1, <3>4
  <2> QED
    BY <2>2, <2>3
<1>11. ASSUME NEW s \in DOMAIN at, s \notin G PROVE \E x \in Bin, l \in Lot : s \in Held(after, x, l)
  <2>1. PICK x \in Bin, l \in Lot : s \in Held(ls, x, l)
    BY <1>4
  <2>2. CASE x = b
    <3>1. s \in Held(after, b, l)
      BY <1>7, <1>8, <1>11, <2>1, <2>2
    <3> QED
      BY <3>1
  <2>3. CASE x # b
    <3>1. s \in Held(after, x, l)
      BY <1>5, <2>1, <2>3 DEF Held
    <3> QED
      BY <3>1
  <2> QED
    BY <2>2, <2>3
<1> QED
  BY <1>9, <1>10, <1>11 DEF LeftRegistered

-----------------------------------------------------------------------------
(* Picks.                                                                  *)

\* The draws that the aggregate covers do not take it below zero.
LEMMA CoveredIs ==
  ASSUME NEW b \in Bin, onHand[b] \in Nat, NEW plan \in Seq(Line), NEW n, n = Covered(b, plan),
         NEW logged, logged = SubSeq(plan, 1, n)
  PROVE  /\ n \in Nat /\ n <= Len(plan) /\ logged \in Seq(Line)
         /\ Units(logged) \in Nat /\ Units(logged) <= onHand[b]
         /\ n = Len(plan) => logged = plan
<1>1. PICK m \in Nat : m = Len(plan)
  OBVIOUS
<1>2. PICK S : S = {0} \union {i \in DOMAIN plan : Units(SubSeq(plan, 1, i)) <= onHand[b]}
  OBVIOUS
<1>3. n = Max(S) /\ S \subseteq 0..m /\ S # {}
  BY <1>1, <1>2, LinesWeigh DEF Covered
<1>4. n \in S
  BY <1>3, Greatest
<1>5. n \in Nat /\ n <= m
  BY <1>3, <1>4
<1>6. logged \in Seq(Line)
  BY <1>1, <1>5
<1>7. Units(logged) \in Nat
  BY <1>6, LinesWeigh
<1>8. Units(logged) <= onHand[b]
  <2>1. CASE n = 0
    <3>1. logged = <<>>
      BY <2>1
    <3>2. Units(logged) = 0
      BY <3>1, AmountOfNone
    <3> QED
      BY <3>2
  <2>2. CASE n # 0
    BY <1>2, <1>4, <2>2
  <2> QED
    BY <2>1, <2>2
<1>9. n = Len(plan) => logged = plan
  OBVIOUS
<1> QED
  BY <1>1, <1>5, <1>6, <1>7, <1>8, <1>9

\* What the locked part of a pick does to its shard.
PickMoves(b, plan, h, ls, rs) ==
  /\ ShardMoves(b, h, ls, rs) /\ confirmed' \in Int
  /\ b \notin torn' => Alike(rs, ls)
  /\ b \notin bulk \union torn' => h = Units(ls)
  /\ Covered(b, plan) = Len(plan) =>
       /\ torn' = torn /\ h = onHand[b] - Units(plan) /\ confirmed' = confirmed - Units(plan)
       /\ DrawnSoFar(ls, lots[b], plan, Len(plan))
  /\ Covered(b, plan) # Len(plan) => torn' = torn \union {b}

LEMMA PickLockedIs ==
  ASSUME StockInv, NEW b \in Bin, NEW plan \in Seq(Line), Fits(lots[b], plan), PickLocked(b, plan)
  PROVE  \E h \in Nat, ls \in Ledgers, rs \in Ledgers : PickMoves(b, plan, h, ls, rs)
<1>1. /\ onHand \in [Bin -> Nat] /\ version \in [Bin -> Nat]
      /\ lots \in [Bin -> Ledgers] /\ replayed \in [Bin -> Ledgers] /\ confirmed \in Int
  BY StockIs
<1>2. PICK old, was : old = lots[b] /\ was = replayed[b]
  OBVIOUS
<1>3. old \in Ledgers /\ was \in Ledgers /\ onHand[b] \in Nat
  BY <1>1, <1>2
<1>4. PICK n, logged, drawn : n = Covered(b, plan) /\ logged = SubSeq(plan, 1, n) /\ drawn = AfterDraws(old, plan)
  OBVIOUS
<1>5. n \in Nat /\ n <= Len(plan) /\ logged \in Seq(Line) /\ Units(logged) \in Nat /\ Units(logged) <= onHand[b]
      /\ (n = Len(plan) => logged = plan)
  BY <1>3, <1>4, CoveredIs
<1>6. PICK h, ls, rs : h = onHand[b] - Units(logged) /\ ls = (IF n = Len(plan) THEN WithoutEmpty(drawn) ELSE drawn)
                       /\ rs = AfterDraws(was, logged)
  OBVIOUS
<1>7. /\ onHand' = [onHand EXCEPT ![b] = h] /\ lots' = [lots EXCEPT ![b] = ls] /\ replayed' = [replayed EXCEPT ![b] = rs]
      /\ version' = [version EXCEPT ![b] = @ + 2 * n]
      /\ confirmed' = (IF n = Len(plan) THEN confirmed - Units(plan) ELSE confirmed)
      /\ torn' = (IF n = Len(plan) THEN torn ELSE torn \union {b})
  BY <1>2, <1>4, <1>6 DEF PickLocked
<1>8. drawn \in Ledgers /\ DrawnSoFar(drawn, old, plan, Len(plan)) /\ Units(drawn) = Units(old) - Units(plan)
  BY <1>2, <1>3, <1>4, DrawsTake
<1>9. Alike(was, was)
  BY DEF Alike
<1>10. rs \in Ledgers
  BY <1>3, <1>5, <1>6, <1>9, DrawsAlike
<1>11. h \in Nat
  BY <1>3, <1>5, <1>6
<1>12. WithoutEmpty(drawn) \in Ledgers /\ Alike(WithoutEmpty(drawn), drawn) /\ Units(WithoutEmpty(drawn)) = Units(drawn)
  BY <1>8, PrunedIs
<1>13. ls \in Ledgers /\ Alike(ls, drawn) /\ Units(ls) = Units(drawn)
  BY <1>6, <1>8, <1>12 DEF Alike
<1>14. ShardMoves(b, h, ls, rs)
  <2>1. version' \in [Bin -> Nat] /\ \A x \in Bin : x # b => version'[x] = version[x]
    BY <1>1, <1>5, <1>7
  <2> QED
    BY <1>7, <2>1 DEF ShardMoves
<1>15. confirmed' \in Int
  <2>1. Units(plan) \in Nat
    BY LinesWeigh
  <2> QED
    BY <1>1, <1>7, <2>1
<1>16. ASSUME b \notin torn' PROVE Alike(rs, ls)
  <2>1. n = Len(plan) /\ b \notin torn
    BY <1>7, <1>16
  <2>2. Alike(was, old)
    BY <1>2, <2>1 DEF StockInv, LotsStand
  <2>3. rs = AfterDraws(was, plan)
    BY <1>5, <1>6, <2>1
  <2>4. Alike(rs, drawn)
    BY <1>3, <1>4, <2>2, <2>3, DrawsAlike
  <2> QED
    BY <1>13, <2>4 DEF Alike
<1>17. ASSUME b \notin bulk \union torn' PROVE h = Units(ls)
  <2>1. n = Len(plan) /\ b \notin torn
    BY <1>7, <1>17
  <2>2. onHand[b] = Units(old)
    BY <1>2, <1>17, <2>1 DEF StockInv, LotsStand
  <2> QED
    BY <1>5, <1>6, <1>8, <1>13, <2>1, <2>2
<1>18. ASSUME n = Len(plan)
       PROVE  /\ torn' = torn /\ h = onHand[b] - Units(plan) /\ confirmed' = confirmed - Units(plan)
              /\ DrawnSoFar(ls, lots[b], plan, Len(plan))
  <2>1. torn' = torn /\ h = onHand[b] - Units(plan) /\ confirmed' = confirmed - Units(plan)
    BY <1>5, <1>6, <1>7, <1>18
  <2>2. DrawnSoFar(ls, old, plan, Len(plan))
    BY <1>8, <1>13 DEF DrawnSoFar, Alike
  <2> QED
    BY <1>2, <2>1, <2>2
<1>19. n # Len(plan) => torn' = torn \union {b}
  BY <1>7
<1>20. PickMoves(b, plan, h, ls, rs)
  BY <1>4, <1>14, <1>15, <1>16, <1>17, <1>18, <1>19 DEF PickMoves
<1> QED
  BY <1>10, <1>11, <1>13, <1>20

\* The serials a plan takes are of the shard.
LEMMA TakenIs ==
  ASSUME StockInv, NEW b \in Bin, NEW plan \in Seq(Line), Fits(lots[b], plan)
  PROVE  SerialsDrawn(b, plan) = Gone(lots[b], plan) /\ Gone(lots[b], plan) \subseteq Serial
<1>1. lots[b] \in Ledgers
  BY StockIs
<1>2. SerialsDrawn(b, plan) = Gone(lots[b], plan)
  BY DEF SerialsDrawn, Gone
<1>3. ASSUME NEW s \in Gone(lots[b], plan) PROVE s \in Serial
  <2>1. PICK l \in Lot : s \in TakenFrom(lots[b], plan, l)
    BY <1>1, GoneIs
  <2>2. PICK i \in DOMAIN plan : s \in Range(FrontOf(SerialsOf(lots[b], l), plan[i].qty))
    BY <2>1 DEF TakenFrom
  <2>3. plan[i] \in Line
    OBVIOUS
  <2>4. plan[i].qty \in Nat /\ SerialsOf(lots[b], l) \in Seq(Serial)
    BY <1>1, <2>3, HeldIs DEF Line
  <2>5. FrontOf(SerialsOf(lots[b], l), plan[i].qty) \in Seq(Serial)
    BY <2>4, SplitIs
  <2> QED
    BY <2>2, <2>5 DEF Range
<1> QED
  BY <1>2, <1>3

\* A pick that drew its whole plan has its serials forgotten next.
LEMMA PickedSound ==
  ASSUME InventoryAssumption, StockInv, NEW c \in Picker, NEW b \in Bin, NEW plan \in Seq(Line), Fits(lots[b], plan),
         NEW h \in Nat, NEW ls \in Ledgers, NEW rs \in Ledgers, ShardMoves(b, h, ls, rs), UNCHANGED <<torn, bulk>>,
         b \notin torn => Alike(rs, ls), b \notin bulk \union torn => h = Units(ls),
         h = onHand[b] - Units(plan), confirmed' = confirmed - Units(plan),
         DrawnSoFar(ls, lots[b], plan, Len(plan)),
         NEW k, k = [Free EXCEPT !.at = "unregister", !.bin = b, !.leaving = SerialsDrawn(b, plan),
                                 !.seen = onHand[b] - Units(plan)],
         job' = [job EXCEPT ![c] = k], unannounced \subseteq unannounced',
         UNCHANGED <<serialAt, pallets, stockCache, signalled, unsent>>, Overlaps(c), Reaches(c, k),
         job[c].at \notin Owing \union {"announce"}
  PROVE  StockInv'
<1>1. /\ onHand \in [Bin -> Nat] /\ lots \in [Bin -> Ledgers] /\ confirmed \in Int /\ Units(plan) \in Nat
  BY StockIs, LinesWeigh
<1>2. SerialsDrawn(b, plan) = Gone(lots[b], plan) /\ Gone(lots[b], plan) \subseteq Serial
  BY TakenIs
<1>3. PICK G : G = Gone(lots[b], plan)
  OBVIOUS
<1>4. k = [Free EXCEPT !.at = "unregister", !.bin = b, !.leaving = G, !.seen = h] /\ h \in Int /\ G \subseteq Serial
  BY <1>2, <1>3
<1>5. k \in JobType /\ k.at = "unregister" /\ k.bin = b /\ k.to = NoBin /\ k.seen = h /\ k.leaving = G
  <2>1. k \in JobType
    BY <1>4, FreeIs DEF JobType, Steps
  <2>2. k.at = "unregister" /\ k.bin = b /\ k.to = NoBin /\ k.seen = h /\ k.leaving = G
    BY <1>4 DEF Free
  <2> QED
    BY <2>1, <2>2
<1>6. Sound(k, Len(pallets))
  BY <1>5 DEF Sound
<1>7. Transit(k) = 0 /\ Transit(job[c]) = 0
  BY <1>5 DEF Transit, Owing
<1>8. confirmed' \in Int /\ confirmed' = confirmed + (h - onHand[b]) + (Transit(k) - Transit(job[c]))
  BY <1>1, <1>7
<1>9. Posting(k, b) /\ k.at # "copy"
  BY <1>5 DEF Posting, Target
<1>10. \A x \in Bin : x # b => ~Posting(k, x) /\ ~Posting(job[c], x)
  BY <1>5 DEF Posting, Target, Owing
<1>11. ASSUME Registered(lots, serialAt, job[c]) PROVE Registered(lots', serialAt', k)
  <2>1. PICK old, after, at, j : old = lots /\ after = lots' /\ at = serialAt /\ j = job[c]
    OBVIOUS
  <2>2. old \in [Bin -> Ledgers] /\ after = [old EXCEPT ![b] = ls] /\ Registered(old, at, j) /\ j.at \notin Owing
        /\ Fits(old[b], plan) /\ DrawnSoFar(ls, old[b], plan, Len(plan)) /\ G = Gone(old[b], plan)
    BY <1>1, <1>3, <1>11, <2>1 DEF ShardMoves
  <2>3. LeftRegistered(after, at, G)
    BY <2>2, DrawnRegistered
  <2>4. Registered(after, at, k)
    BY <1>5, <2>3 DEF Registered, LeftRegistered
  <2> QED
    BY <2>1, <2>4
<1>12. /\ torn \subseteq torn' /\ bulk \subseteq bulk'
       /\ (b \notin torn' => Alike(rs, ls)) /\ (b \notin bulk' \union torn' => h = Units(ls))
  OBVIOUS
<1>13. pallets' = pallets /\ stockCache' = stockCache /\ signalled' = signalled /\ unsent' = unsent
  OBVIOUS
<1>14. (SerialsNamedOnce /\ ~overlapped' /\ torn' = {} /\ Registered(lots, serialAt, job[c])) => Registered(lots', serialAt', k)
  BY <1>11
<1> QED
  BY <1>5, <1>6, <1>8, <1>9, <1>10, <1>12, <1>13, <1>14, StirringSound

\* A pick that stops after its first lots leaves the bin torn.
LEMMA TornSound ==
  ASSUME InventoryAssumption, StockInv, NEW c \in Picker, NEW b \in Bin,
         NEW h \in Nat, NEW ls \in Ledgers, NEW rs \in Ledgers, ShardMoves(b, h, ls, rs),
         torn' = torn \union {b}, confirmed' \in Int, job' = [job EXCEPT ![c] = Free],
         unannounced \subseteq unannounced', b \in unannounced',
         UNCHANGED <<bulk, serialAt, pallets, stockCache, signalled, unsent>>, Overlaps(c),
         job[c].at \notin Owing \union {"announce"}
  PROVE  StockInv'
<1>1. Sound(Free, Len(pallets)) /\ Reaches(c, Free) /\ Free.at # "copy"
  BY FreeSound DEF Reaches
<1>2. \A x \in Bin : x # b => ~Posting(Free, x) /\ ~Posting(job[c], x)
  BY FreePosts DEF Posting, Owing
<1>3. torn \subseteq torn' /\ bulk \subseteq bulk' /\ b \in torn' /\ torn' # {}
  OBVIOUS
<1>4. pallets' = pallets /\ stockCache' = stockCache /\ signalled' = signalled /\ unsent' = unsent
  OBVIOUS
<1> QED
  BY <1>1, <1>2, <1>3, <1>4, StirringSound

LEMMA OpeningReaches ==
  ASSUME NEW c \in Picker, NEW k, Opens(c, k)
  PROVE  Overlaps(c) /\ Reaches(c, k) /\ job' = [job EXCEPT ![c] = k] /\ unannounced \subseteq unannounced'
         /\ job[c].at \notin Owing \union {"announce"}
<1>1. job[c].at = "idle"
  BY FreeSound DEF Opens
<1> QED
  BY <1>1 DEF Opens, Overlaps, Reaches, Owing

LEMMA PickKeeps ==
  ASSUME InventoryAssumption, StockInv, NEW c \in Picker, NEW b \in Bin, NEW q \in PickSizes, Pick(c, b, q)
  PROVE  StockInv'
<1>1. PICK plan, k : plan = PickPlan(lots[b], q) /\ k = AfterPick(b, plan)
  OBVIOUS
<1>2. q \in Nat /\ lots[b] \in Ledgers
  BY StockIs DEF InventoryAssumption
<1>3. plan \in Seq(Line) /\ Fits(lots[b], plan)
  BY <1>1, <1>2, PlanIs
<1>4. PickLocked(b, plan) /\ UNCHANGED <<serialAt, pallets, stockCache, signalled, unsent, bulk>>
  BY <1>1 DEF Pick
<1>5. PICK h \in Nat, ls \in Ledgers, rs \in Ledgers : PickMoves(b, plan, h, ls, rs)
  BY <1>3, <1>4, PickLockedIs
<1>6. CASE Covered(b, plan) = Len(plan)
  <2>1. k = [Free EXCEPT !.at = "unregister", !.bin = b, !.leaving = SerialsDrawn(b, plan),
                         !.seen = onHand[b] - Units(plan)]
    BY <1>1, <1>6 DEF AfterPick
  <2>2. k.at # "idle"
    BY <2>1 DEF Free
  <2>3. Starts(c, k)
    BY <1>1, <2>2 DEF Pick
  <2>4. Opens(c, k)
    BY <2>3, StartOpens DEF StockInv
  <2>5. Overlaps(c) /\ Reaches(c, k) /\ job' = [job EXCEPT ![c] = k] /\ unannounced \subseteq unannounced'
        /\ job[c].at \notin Owing \union {"announce"}
    BY <2>4, OpeningReaches
  <2>6. /\ ShardMoves(b, h, ls, rs) /\ torn' = torn
        /\ (b \notin torn => Alike(rs, ls)) /\ (b \notin bulk \union torn => h = Units(ls))
        /\ h = onHand[b] - Units(plan) /\ confirmed' = confirmed - Units(plan)
        /\ DrawnSoFar(ls, lots[b], plan, Len(plan))
    BY <1>5, <1>6 DEF PickMoves
  <2>7. UNCHANGED <<torn, bulk>> /\ UNCHANGED <<serialAt, pallets, stockCache, signalled, unsent>>
    BY <1>4, <2>6
  <2> QED
    BY <1>3, <2>1, <2>5, <2>6, <2>7, PickedSound
<1>7. CASE Covered(b, plan) # Len(plan)
  <2>1. k = Free /\ k.at = "idle"
    BY <1>1, <1>7, FreeSound DEF AfterPick
  <2>2. At(c, "idle") /\ unannounced' = unannounced \union {b} /\ overlapped' = (overlapped \/ InFlight(c)) /\ job' = job
    BY <1>1, <2>1 DEF Pick
  <2>3. job[c] = Free
    BY <2>2 DEF StockInv, JobsTyped, Sound, At
  <2>4. job' = [job EXCEPT ![c] = Free]
    <3>1. job \in [Picker -> JobType]
      BY StockIs
    <3> QED
      BY <2>2, <2>3, <3>1
  <2>5. Overlaps(c)
    BY <2>2 DEF Overlaps, InFlight, Alone
  <2>6. job[c].at \notin Owing \union {"announce"}
    BY <2>3, FreeSound DEF Owing
  <2>7. ShardMoves(b, h, ls, rs) /\ torn' = torn \union {b} /\ confirmed' \in Int
    BY <1>5, <1>7 DEF PickMoves
  <2> QED
    BY <1>4, <2>2, <2>4, <2>5, <2>6, <2>7, TornSound
<1> QED
  BY <1>6, <1>7

LEMMA PickReducedKeeps ==
  ASSUME InventoryAssumption, StockInv, NEW c \in Picker, PickReduced(c)
  PROVE  StockInv'
<1>1. PICK j, b, plan : j = job[c] /\ b = j.bin /\ plan = PickPlan(lots[b], j.qty)
  OBVIOUS
<1>2. j.at = "pick" /\ Sound(j, Len(pallets)) /\ j \in JobType
  BY <1>1, StockIs DEF PickReduced, At
<1>3. b \in Bin /\ j.qty \in Nat /\ j.to = NoBin
  BY <1>1, <1>2 DEF Sound
<1>4. lots[b] \in Ledgers
  BY <1>3, StockIs
<1>5. plan \in Seq(Line) /\ Fits(lots[b], plan)
  BY <1>1, <1>3, <1>4, PlanIs
<1>6. UNCHANGED <<serialAt, pallets, stockCache, signalled, unsent, bulk>> /\ overlapped' = overlapped
  BY DEF PickReduced, Calling
<1>7. job[c].at # "idle" /\ job[c].at \notin Owing \union {"announce"}
  BY <1>1, <1>2 DEF Owing
<1>8. Overlaps(c)
  BY <1>6, <1>7, AloneNow DEF Overlaps
<1>9. CASE Does(c, Free) /\ UNCHANGED <<onHand, version, replayed, lots, confirmed, torn, unannounced>>
  <2>1. UNCHANGED Books /\ job' = [job EXCEPT ![c] = Free]
    BY <1>6, <1>9 DEF Books, Does
  <2>2. pallets' \in Seq(PalletType) /\ Len(pallets) <= Len(pallets')
    BY <1>6, StockIs
  <2> QED
    BY <1>6, <1>7, <1>9, <2>1, <2>2, GivingUpSound
<1>10. CASE /\ PickLocked(b, plan) /\ Does(c, AfterPick(b, plan))
            /\ unannounced' = IF b \in torn' THEN unannounced \union {b} ELSE unannounced
  <2>1. PICK h \in Nat, ls \in Ledgers, rs \in Ledgers : PickMoves(b, plan, h, ls, rs)
    BY <1>3, <1>5, <1>10, PickLockedIs
  <2>2. PICK k : k = AfterPick(b, plan)
    OBVIOUS
  <2>3. job' = [job EXCEPT ![c] = k] /\ unannounced \subseteq unannounced'
    BY <1>10, <2>2 DEF Does
  <2>4. CASE Covered(b, plan) = Len(plan)
    <3>1. k = [Free EXCEPT !.at = "unregister", !.bin = b, !.leaving = SerialsDrawn(b, plan),
                           !.seen = onHand[b] - Units(plan)]
      BY <2>2, <2>4 DEF AfterPick
    <3>2. k.at = "unregister" /\ k.bin = b /\ k.to = NoBin
      BY <3>1 DEF Free
    <3>3. Reaches(c, k)
      BY <1>1, <1>2, <1>3, <3>2 DEF Reaches, Touched
    <3>4. /\ ShardMoves(b, h, ls, rs) /\ torn' = torn
          /\ (b \notin torn => Alike(rs, ls)) /\ (b \notin bulk \union torn => h = Units(ls))
          /\ h = onHand[b] - Units(plan) /\ confirmed' = confirmed - Units(plan)
          /\ DrawnSoFar(ls, lots[b], plan, Len(plan))
      BY <2>1, <2>4 DEF PickMoves
    <3>5. UNCHANGED <<torn, bulk>> /\ UNCHANGED <<serialAt, pallets, stockCache, signalled, unsent>>
      BY <1>6, <3>4
    <3> QED
      BY <1>3, <1>5, <1>7, <1>8, <2>3, <3>1, <3>3, <3>4, <3>5, PickedSound
  <2>5. CASE Covered(b, plan) # Len(plan)
    <3>1. k = Free
      BY <2>2, <2>5 DEF AfterPick
    <3>2. ShardMoves(b, h, ls, rs) /\ torn' = torn \union {b} /\ confirmed' \in Int
      BY <2>1, <2>5 DEF PickMoves
    <3>3. b \in unannounced' /\ job' = [job EXCEPT ![c] = Free]
      BY <1>10, <2>3, <3>1, <3>2
    <3> QED
      BY <1>3, <1>6, <1>7, <1>8, <2>3, <3>2, <3>3, TornSound
  <2> QED
    BY <2>4, <2>5
<1> QED
  BY <1>1, <1>9, <1>10 DEF PickReduced

LEMMA OneDraw ==
  ASSUME NEW ls \in Ledgers, NEW d \in Line, HasLot(ls, d.lot), d.qty <= QtyOf(ls, d.lot), NEW plan, plan = <<d>>
  PROVE  plan \in Seq(Line) /\ Fits(ls, plan) /\ Units(plan) = d.qty /\ Len(plan) = 1
<1>1. plan \in Seq(Line) /\ Len(plan) = 1 /\ DOMAIN plan = {1} /\ plan[1] = d
  OBVIOUS
<1> QED
  BY <1>1, AmountOfOne DEF Fits

LEMMA PickFromLotKeeps ==
  ASSUME InventoryAssumption, StockInv, NEW c \in Picker, NEW b \in Bin, NEW q \in PickSizes, NEW lot \in Lot,
         PickFromLot(c, b, lot, q)
  PROVE  StockInv'
<1>1. PICK d, plan, k : d = [lot |-> lot, qty |-> q] /\ plan = <<d>> /\ k = AfterPick(b, plan)
  OBVIOUS
<1>2. /\ onHand \in [Bin -> Nat] /\ version \in [Bin -> Nat]
      /\ lots \in [Bin -> Ledgers] /\ replayed \in [Bin -> Ledgers] /\ confirmed \in Int
  BY StockIs
<1>3. q \in Nat /\ lots[b] \in Ledgers /\ replayed[b] \in Ledgers /\ onHand[b] \in Nat
  BY <1>2 DEF InventoryAssumption
<1>4. d \in Line /\ d.lot = lot /\ d.qty = q
  BY <1>1, <1>3 DEF Line
<1>5. PlaceOf(lots[b], lot) # 0 /\ lots[b][PlaceOf(lots[b], lot)].qty >= q
  BY DEF PickFromLot
<1>6. HasLot(lots[b], lot) /\ q <= QtyOf(lots[b], lot)
  <2>1. HasLot(lots[b], lot) /\ QtyOf(lots[b], lot) = lots[b][PlaceOf(lots[b], lot)].qty
    BY <1>5 DEF HasLot, QtyOf
  <2>2. QtyOf(lots[b], lot) \in Nat
    BY <1>3, HeldIs
  <2> QED
    BY <1>3, <1>5, <2>1, <2>2
<1>7. plan \in Seq(Line) /\ Fits(lots[b], plan) /\ Units(plan) = q /\ Len(plan) = 1
  BY <1>1, <1>3, <1>4, <1>6, OneDraw
<1>8. Appends(b, -q, 2) /\ lots' = [lots EXCEPT ![b] = AfterDraws(@, plan)]
      /\ replayed' = [replayed EXCEPT ![b] = AfterDraws(@, plan)] /\ confirmed' = confirmed - q
      /\ Starts(c, k) /\ UNCHANGED <<serialAt, pallets, stockCache, signalled, unsent, torn, bulk>>
  BY <1>1 DEF PickFromLot
<1>9. PICK h, ls, rs : h = onHand[b] - q /\ ls = AfterDraws(lots[b], plan) /\ rs = AfterDraws(replayed[b], plan)
  OBVIOUS
<1>10. h \in Nat /\ onHand' = [onHand EXCEPT ![b] = h] /\ version' = [version EXCEPT ![b] = version[b] + 2]
  <2>1. onHand[b] + (-q) = h
    BY <1>3, <1>9
  <2>2. onHand[b] + (-q) >= 0 /\ onHand' = [onHand EXCEPT ![b] = onHand[b] + (-q)]
        /\ version' = [version EXCEPT ![b] = version[b] + 2]
    BY <1>8 DEF Appends
  <2>3. h \in Nat
    BY <1>3, <2>1, <2>2
  <2> QED
    BY <2>1, <2>2, <2>3
<1>11. ls \in Ledgers /\ DrawnSoFar(ls, lots[b], plan, Len(plan)) /\ Units(ls) = Units(lots[b]) - Units(plan)
  BY <1>3, <1>7, <1>9, DrawsTake
<1>12. rs \in Ledgers
  <2>1. Alike(replayed[b], replayed[b])
    BY DEF Alike
  <2> QED
    BY <1>3, <1>7, <1>9, <2>1, DrawsAlike
<1>13. ShardMoves(b, h, ls, rs)
  <2>1. version' \in [Bin -> Nat] /\ \A x \in Bin : x # b => version'[x] = version[x]
    BY <1>2, <1>10
  <2> QED
    BY <1>8, <1>9, <1>10, <2>1 DEF ShardMoves
<1>14. ASSUME b \notin torn PROVE Alike(rs, ls)
  <2>1. Alike(replayed[b], lots[b])
    BY <1>14 DEF StockInv, LotsStand
  <2> QED
    BY <1>3, <1>7, <1>9, <2>1, DrawsAlike
<1>15. ASSUME b \notin bulk \union torn PROVE h = Units(ls)
  <2>1. onHand[b] = Units(lots[b])
    BY <1>15 DEF StockInv, LotsStand
  <2> QED
    BY <1>7, <1>9, <1>11, <2>1
<1>16. Covered(b, plan) = Len(plan)
  <2>1. PICK S : S = {0} \union {i \in DOMAIN plan : Units(SubSeq(plan, 1, i)) <= onHand[b]}
    OBVIOUS
  <2>2. SubSeq(plan, 1, 1) = plan /\ DOMAIN plan = {1}
    <3>1. DOMAIN plan = {1}
      BY <1>1
    <3>2. SubSeq(plan, 1, 1) = plan
      <4>1. SubSeq(plan, 1, Len(plan)) = plan
        BY <1>7
      <4> QED
        BY <1>7, <4>1
    <3> QED
      BY <3>1, <3>2
  <2>3. Units(plan) <= onHand[b]
    BY <1>3, <1>7, <1>9, <1>10
  <2>4. S \subseteq 0..1 /\ 1 \in S
    <3>1. 1 \in S
      BY <2>1, <2>2, <2>3
    <3>2. S \subseteq {0, 1}
      BY <2>1, <2>2
    <3>3. {0, 1} \subseteq 0..1
      OBVIOUS
    <3> QED
      BY <3>1, <3>2, <3>3
  <2>5. Max(S) \in S /\ 1 <= Max(S)
    BY <2>4, Greatest
  <2>6. Max(S) = 1
    <3>1. Max(S) \in 0..1 /\ 1 <= Max(S)
      BY <2>4, <2>5
    <3> QED
      BY <3>1
  <2> QED
    BY <1>7, <2>1, <2>6 DEF Covered
<1>17. k = [Free EXCEPT !.at = "unregister", !.bin = b, !.leaving = SerialsDrawn(b, plan),
                        !.seen = onHand[b] - Units(plan)]
  BY <1>1, <1>16 DEF AfterPick
<1>18. Opens(c, k)
  BY <1>8, StartOpens DEF StockInv
<1>19. Overlaps(c) /\ Reaches(c, k) /\ job' = [job EXCEPT ![c] = k] /\ unannounced \subseteq unannounced'
       /\ job[c].at \notin Owing \union {"announce"}
  BY <1>18, OpeningReaches
<1>20. UNCHANGED <<torn, bulk>> /\ UNCHANGED <<serialAt, pallets, stockCache, signalled, unsent>>
       /\ h = onHand[b] - Units(plan) /\ confirmed' = confirmed - Units(plan)
  BY <1>7, <1>8, <1>9
<1> QED
  BY <1>7, <1>10, <1>11, <1>12, <1>13, <1>14, <1>15, <1>17, <1>19, <1>20, PickedSound

-----------------------------------------------------------------------------
(* Receipts and transfers.                                                 *)

LEMMA JoinedOnce ==
  ASSUME NEW s \in Seq(Serial), NEW t \in Seq(Serial)
  PROVE  /\ Range(s \o t) = Range(s) \union Range(t)
         /\ (IsInjective(s) /\ IsInjective(t) /\ Range(s) \intersect Range(t) = {}) => IsInjective(s \o t)
<1>1. PICK m \in Nat, n \in Nat, u \in Seq(Serial) : m = Len(s) /\ n = Len(t) /\ u = s \o t
  <2>1. Len(s) \in Nat /\ Len(t) \in Nat /\ s \o t \in Seq(Serial)
    OBVIOUS
  <2> QED
    BY <2>1
<1>2. u \in Seq(Serial) /\ Len(u) = m + n
      /\ \A i \in 1..(m + n) : u[i] = IF i <= m THEN s[i] ELSE t[i - m]
  BY <1>1
<1>3. DOMAIN s = 1..m /\ DOMAIN t = 1..n /\ DOMAIN u = 1..(m + n)
  BY <1>1, <1>2
<1>4. Range(u) \subseteq Range(s) \union Range(t)
  <2>1. ASSUME NEW i \in 1..(m + n) PROVE u[i] \in Range(s) \union Range(t)
    <3>1. CASE i <= m
      <4>1. i \in 1..m /\ u[i] = s[i]
        BY <1>2, <3>1
      <4> QED
        BY <1>3, <4>1 DEF Range
    <3>2. CASE ~(i <= m)
      <4>1. i - m \in 1..n /\ u[i] = t[i - m]
        BY <1>2, <3>2
      <4> QED
        BY <1>3, <4>1 DEF Range
    <3> QED
      BY <3>1, <3>2
  <2> QED
    BY <1>3, <2>1 DEF Range
<1>5. Range(s) \subseteq Range(u)
  <2>1. ASSUME NEW i \in 1..m PROVE s[i] \in Range(u)
    <3>1. i \in 1..(m + n) /\ u[i] = s[i]
      BY <1>2
    <3> QED
      BY <1>3, <3>1 DEF Range
  <2> QED
    BY <1>3, <2>1 DEF Range
<1>6. Range(t) \subseteq Range(u)
  <2>1. ASSUME NEW i \in 1..n PROVE t[i] \in Range(u)
    <3>1. i + m \in 1..(m + n) /\ ~(i + m <= m) /\ (i + m) - m = i
      OBVIOUS
    <3>2. u[i + m] = t[i]
      BY <1>2, <3>1
    <3> QED
      BY <1>3, <3>1, <3>2 DEF Range
  <2> QED
    BY <1>3, <2>1 DEF Range
<1>7. ASSUME IsInjective(s), IsInjective(t), Range(s) \intersect Range(t) = {} PROVE IsInjective(u)
  <2>1. \A i, j \in 1..m : s[i] = s[j] => i = j
    BY <1>3, <1>7 DEF IsInjective
  <2>2. \A i, j \in 1..n : t[i] = t[j] => i = j
    BY <1>3, <1>7 DEF IsInjective
  <2>3. \A i \in 1..m, j \in 1..n : s[i] # t[j]
    BY <1>3, <1>7 DEF Range
  <2>4. ASSUME NEW i \in 1..(m + n), NEW j \in 1..(m + n), u[i] = u[j] PROVE i = j
    <3>1. CASE i <= m /\ j <= m
      <4>1. i \in 1..m /\ j \in 1..m /\ s[i] = s[j]
        BY <1>2, <2>4, <3>1
      <4> QED
        BY <2>1, <4>1
    <3>2. CASE ~(i <= m) /\ ~(j <= m)
      <4>1. i - m \in 1..n /\ j - m \in 1..n /\ t[i - m] = t[j - m]
        BY <1>2, <2>4, <3>2
      <4>2. i - m = j - m
        BY <2>2, <4>1
      <4> QED
        BY <4>2
    <3>3. CASE i <= m /\ ~(j <= m)
      <4>1. i \in 1..m /\ j - m \in 1..n /\ s[i] = t[j - m]
        BY <1>2, <2>4, <3>3
      <4> QED
        BY <2>3, <4>1
    <3>4. CASE ~(i <= m) /\ j <= m
      <4>1. j \in 1..m /\ i - m \in 1..n /\ s[j] = t[i - m]
        BY <1>2, <2>4, <3>4
      <4> QED
        BY <2>3, <4>1
    <3> QED
      BY <3>1, <3>2, <3>3, <3>4
  <2> QED
    BY <1>3, <2>4 DEF IsInjective
<1> QED
  BY <1>1, <1>4, <1>5, <1>6, <1>7

\* Lots that hold the same hold the same after a receipt.
LEMMA ReceiptAlike ==
  ASSUME NEW a \in Ledgers, NEW b \in Ledgers, Alike(a, b), NEW r, Proper(r)
  PROVE  Alike(WithReceipt(a, r), WithReceipt(b, r))
<1>1. r \in LotDetail /\ Len(r.serials) <= r.qty
  BY DEF Proper
<1>2. HoldsNow(WithReceipt(a, r), a, r.lot, QtyOf(a, r.lot) + r.qty, SerialsOf(a, r.lot) \o r.serials)
  BY <1>1, ReceiptIs
<1>3. HoldsNow(WithReceipt(b, r), b, r.lot, QtyOf(b, r.lot) + r.qty, SerialsOf(b, r.lot) \o r.serials)
  BY <1>1, ReceiptIs
<1>4. QtyOf(a, r.lot) = QtyOf(b, r.lot) /\ SerialsOf(a, r.lot) = SerialsOf(b, r.lot)
  BY DEF Alike
<1>5. ASSUME NEW x
      PROVE  /\ QtyOf(WithReceipt(a, r), x) = QtyOf(WithReceipt(b, r), x)
             /\ SerialsOf(WithReceipt(a, r), x) = SerialsOf(WithReceipt(b, r), x)
  <2>1. CASE x = r.lot
    BY <1>2, <1>3, <1>4, <2>1 DEF HoldsNow
  <2>2. CASE x # r.lot
    BY <1>2, <1>3, <2>2 DEF HoldsNow, Alike
  <2> QED
    BY <2>1, <2>2
<1> QED
  BY <1>5 DEF Alike

\* A receipt puts its serials at its lot.
Puts(after, ls, b, l, N) ==
  /\ \A x \in Bin, m \in Lot : IsInjective(SerialsOf(after[x], m))
  /\ \A x \in Bin, m \in Lot :
       Held(after, x, m) = Held(ls, x, m) \union (IF x = b /\ m = l THEN N ELSE {})

LEMMA ReceiptPuts ==
  ASSUME NEW ls \in [Bin -> Ledgers], NEW b \in Bin, NEW r, Proper(r), IsInjective(r.serials),
         NEW after, after = [ls EXCEPT ![b] = WithReceipt(ls[b], r)], NEW N, N = Range(r.serials),
         \A x \in Bin, m \in Lot : IsInjective(SerialsOf(ls[x], m)),
         \A x \in Bin, m \in Lot : \A s \in Held(ls, x, m) : s \notin N
  PROVE  Puts(after, ls, b, r.lot, N)
<1>1. r \in LotDetail /\ Len(r.serials) <= r.qty /\ r.lot \in Lot /\ r.serials \in Seq(Serial) /\ ls[b] \in Ledgers
  BY DEF Proper, LotDetail
<1>2. PICK old, new : old = ls[b] /\ new = WithReceipt(ls[b], r)
  OBVIOUS
<1>3. HoldsNow(new, old, r.lot, QtyOf(old, r.lot) + r.qty, SerialsOf(old, r.lot) \o r.serials)
  BY <1>1, <1>2, ReceiptIs
<1>4. after[b] = new /\ \A x \in Bin : x # b => after[x] = ls[x]
  BY <1>2
<1>5. SerialsOf(new, r.lot) = SerialsOf(old, r.lot) \o r.serials /\ \A m : m # r.lot => SerialsOf(new, m) = SerialsOf(old, m)
  BY <1>3 DEF HoldsNow
<1>6. SerialsOf(old, r.lot) \in Seq(Serial)
  BY <1>1, <1>2, HeldIs
<1>7. IsInjective(SerialsOf(old, r.lot)) /\ Range(SerialsOf(old, r.lot)) \intersect Range(r.serials) = {}
  BY <1>1, <1>2 DEF Held
<1>8. IsInjective(SerialsOf(new, r.lot)) /\ Range(SerialsOf(new, r.lot)) = Range(SerialsOf(old, r.lot)) \union N
  BY <1>1, <1>5, <1>6, <1>7, JoinedOnce
<1>9. ASSUME NEW x \in Bin, NEW m \in Lot
      PROVE  /\ IsInjective(SerialsOf(after[x], m))
             /\ Held(after, x, m) = Held(ls, x, m) \union (IF x = b /\ m = r.lot THEN N ELSE {})
  <2>1. CASE x = b /\ m = r.lot
    BY <1>2, <1>4, <1>8, <2>1 DEF Held
  <2>2. CASE x = b /\ m # r.lot
    <3>1. SerialsOf(after[x], m) = SerialsOf(ls[x], m)
      BY <1>2, <1>4, <1>5, <2>2
    <3> QED
      BY <2>2, <3>1 DEF Held
  <2>3. CASE x # b
    <3>1. SerialsOf(after[x], m) = SerialsOf(ls[x], m)
      BY <1>4, <2>3
    <3> QED
      BY <2>3, <3>1 DEF Held
  <2> QED
    BY <2>1, <2>2, <2>3
<1> QED
  BY <1>9 DEF Puts

\* What a receipt does to its shard.
LEMMA ReceiptMoves ==
  ASSUME StockInv, NEW b \in Bin, NEW r, Proper(r), Appends(b, r.qty, 2),
         lots' = [lots EXCEPT ![b] = WithReceipt(@, r)], replayed' = [replayed EXCEPT ![b] = WithReceipt(@, r)],
         NEW h, NEW ls, NEW rs, h = onHand[b] + r.qty, ls = WithReceipt(lots[b], r), rs = WithReceipt(replayed[b], r)
  PROVE  /\ h \in Nat /\ ls \in Ledgers /\ rs \in Ledgers /\ ShardMoves(b, h, ls, rs)
         /\ b \notin torn => Alike(rs, ls)
         /\ b \notin bulk \union torn => h = Units(ls)
         /\ onHand'[b] = h /\ onHand[b] \in Nat /\ r.qty \in Nat
<1>1. /\ onHand \in [Bin -> Nat] /\ version \in [Bin -> Nat]
      /\ lots \in [Bin -> Ledgers] /\ replayed \in [Bin -> Ledgers]
  BY StockIs
<1>2. r \in LotDetail /\ Len(r.serials) <= r.qty /\ r.qty \in Nat
  BY DEF Proper, LotDetail
<1>3. PICK old, was : old = lots[b] /\ was = replayed[b]
  OBVIOUS
<1>4. old \in Ledgers /\ was \in Ledgers /\ onHand[b] \in Nat
  BY <1>1, <1>3
<1>5. HoldsNow(ls, old, r.lot, QtyOf(old, r.lot) + r.qty, SerialsOf(old, r.lot) \o r.serials)
  BY <1>2, <1>3, <1>4, ReceiptIs
<1>6. HoldsNow(rs, was, r.lot, QtyOf(was, r.lot) + r.qty, SerialsOf(was, r.lot) \o r.serials)
  BY <1>2, <1>3, <1>4, ReceiptIs
<1>7. ls \in Ledgers /\ rs \in Ledgers /\ h \in Nat
  BY <1>2, <1>4, <1>5, <1>6 DEF HoldsNow
<1>8. onHand' = [onHand EXCEPT ![b] = h] /\ version' = [version EXCEPT ![b] = version[b] + 2]
  BY DEF Appends
<1>9. ShardMoves(b, h, ls, rs) /\ onHand'[b] = h
  <2>1. version' \in [Bin -> Nat] /\ \A x \in Bin : x # b => version'[x] = version[x]
    BY <1>1, <1>8
  <2>2. lots' = [lots EXCEPT ![b] = ls] /\ replayed' = [replayed EXCEPT ![b] = rs]
    OBVIOUS
  <2> QED
    BY <1>1, <1>8, <2>1, <2>2 DEF ShardMoves
<1>10. ASSUME b \notin torn PROVE Alike(rs, ls)
  <2>1. Alike(was, old)
    BY <1>3, <1>10 DEF StockInv, LotsStand
  <2> QED
    BY <1>3, <1>4, <2>1, ReceiptAlike
<1>11. ASSUME b \notin bulk \union torn PROVE h = Units(ls)
  <2>1. onHand[b] = Units(old)
    BY <1>3, <1>11 DEF StockInv, LotsStand
  <2>2. Units(ls) = Units(old) + ((QtyOf(old, r.lot) + r.qty) - QtyOf(old, r.lot))
    BY <1>5 DEF HoldsNow
  <2>3. QtyOf(old, r.lot) \in Nat
    BY <1>4, HeldIs
  <2> QED
    BY <1>2, <1>4, <2>1, <2>2, <2>3
<1> QED
  BY <1>2, <1>4, <1>7, <1>9, <1>10, <1>11

LEMMA AppendReceiptKeeps ==
  ASSUME InventoryAssumption, StockInv, NEW c \in Picker, AppendReceipt(c)
  PROVE  StockInv'
<1>1. PICK j, r, b : j = job[c] /\ r = j.receipt /\ b = j.bin
  OBVIOUS
<1>2. j.at = "receive" /\ Sound(j, Len(pallets)) /\ j \in JobType
  BY <1>1, StockIs DEF AppendReceipt, At
<1>3. b \in Bin /\ Proper(r) /\ j.to = NoBin
  BY <1>1, <1>2 DEF Sound
<1>4. /\ Appends(b, r.qty, 2) /\ lots' = [lots EXCEPT ![b] = WithReceipt(@, r)]
      /\ replayed' = [replayed EXCEPT ![b] = WithReceipt(@, r)] /\ confirmed' = confirmed + r.qty
      /\ Does(c, [j EXCEPT !.at = "register", !.seen = onHand'[b]])
      /\ UNCHANGED <<serialAt, pallets, stockCache, signalled, unsent, torn, bulk, unannounced, overlapped>>
  BY <1>1 DEF AppendReceipt, Calling
<1>5. PICK h, ls, rs : h = onHand[b] + r.qty /\ ls = WithReceipt(lots[b], r) /\ rs = WithReceipt(replayed[b], r)
  OBVIOUS
<1>6. /\ h \in Nat /\ ls \in Ledgers /\ rs \in Ledgers /\ ShardMoves(b, h, ls, rs)
      /\ b \notin torn => Alike(rs, ls)
      /\ b \notin bulk \union torn => h = Units(ls)
      /\ onHand'[b] = h /\ onHand[b] \in Nat /\ r.qty \in Nat
  BY <1>3, <1>4, <1>5, ReceiptMoves
<1>7. PICK k : k = [j EXCEPT !.at = "register", !.seen = h]
  OBVIOUS
<1>8. job' = [job EXCEPT ![c] = k]
  BY <1>4, <1>6, <1>7 DEF Does
<1>9. k \in JobType /\ k.at = "register" /\ k.bin = b /\ k.to = NoBin /\ k.receipt = r /\ k.seen = h
  <2>1. h \in Int
    BY <1>6
  <2> QED
    BY <1>1, <1>2, <1>3, <1>7, <2>1 DEF JobType, Steps
<1>10. Sound(k, Len(pallets))
  BY <1>3, <1>9 DEF Sound
<1>11. Transit(k) = 0 /\ Transit(job[c]) = 0
  BY <1>1, <1>2, <1>9 DEF Transit
<1>12. confirmed' \in Int /\ confirmed' = confirmed + (h - onHand[b]) + (Transit(k) - Transit(job[c]))
  <2>1. confirmed \in Int
    BY StockIs
  <2> QED
    BY <1>4, <1>5, <1>6, <1>11, <2>1
<1>13. Overlaps(c)
  <2>1. job[c].at # "idle" /\ overlapped' = overlapped
    BY <1>1, <1>2, <1>4
  <2> QED
    BY <2>1, AloneNow DEF Overlaps
<1>14. Reaches(c, k)
  BY <1>1, <1>2, <1>3, <1>9 DEF Reaches, Touched
<1>15. Posting(k, b) /\ k.at # "copy"
  BY <1>9 DEF Posting, Target
<1>16. \A x \in Bin : x # b => ~Posting(k, x) /\ ~Posting(job[c], x)
  BY <1>1, <1>2, <1>9 DEF Posting, Target
<1>17. ASSUME Registered(lots, serialAt, job[c]) PROVE Registered(lots', serialAt', k)
  <2>1. PICK old, after, at, N, home : old = lots /\ after = lots' /\ at = serialAt /\ N = Range(r.serials) /\ home = r.lot
    OBVIOUS
  <2>2. \A x \in Bin, m \in Lot : IsInjective(SerialsOf(old[x], m))
    BY <1>17, <2>1 DEF Registered
  <2>3. \A x \in Bin, m \in Lot : \A s \in Held(old, x, m) : s \in DOMAIN at /\ at[s] = <<x, m>>
    BY <1>1, <1>2, <1>17, <2>1 DEF Registered
  <2>4. \A s \in DOMAIN at : \E x \in Bin, m \in Lot : s \in Held(old, x, m)
    BY <1>1, <1>2, <1>17, <2>1 DEF Registered
  <2>5. N \intersect DOMAIN at = {} /\ IsInjective(r.serials)
    BY <1>1, <1>2, <1>17, <2>1 DEF Registered, Named
  <2>6. \A x \in Bin, m \in Lot : \A s \in Held(old, x, m) : s \notin N
    BY <2>3, <2>5
  <2>7. old \in [Bin -> Ledgers] /\ after = [old EXCEPT ![b] = WithReceipt(old[b], r)]
    BY <1>4, <2>1, StockIs
  <2>8. Puts(after, old, b, home, N)
    BY <1>3, <2>1, <2>2, <2>5, <2>6, <2>7, ReceiptPuts
  <2>9. home \in Lot
    BY <1>3, <2>1 DEF Proper, LotDetail
  <2>10. \A x \in Bin, m \in Lot : IsInjective(SerialsOf(after[x], m))
    BY <2>8 DEF Puts
  <2>11. ASSUME NEW x \in Bin, NEW m \in Lot, NEW s \in Held(after, x, m)
         PROVE  (s \in DOMAIN at /\ at[s] = <<x, m>>) \/ (b = x /\ home = m /\ s \in N)
    <3>1. s \in Held(old, x, m) \/ (x = b /\ m = home /\ s \in N)
      BY <2>8, <2>11 DEF Puts
    <3> QED
      BY <2>3, <3>1
  <2>12. \A s \in DOMAIN at : \E x \in Bin, m \in Lot : s \in Held(after, x, m)
    BY <2>4, <2>8 DEF Puts
  <2>13. N \subseteq Held(after, b, home)
    BY <1>3, <2>8, <2>9 DEF Puts
  <2>14. Named(k) = N /\ k.receipt.lot = home
    BY <1>9, <2>1 DEF Named
  <2>15. Registered(after, at, k)
    BY <1>9, <2>5, <2>10, <2>11, <2>12, <2>13, <2>14 DEF Registered
  <2>16. serialAt' = serialAt
    BY <1>4
  <2> QED
    BY <2>1, <2>15, <2>16
<1>18. /\ torn \subseteq torn' /\ bulk \subseteq bulk'
       /\ (b \notin torn' => Alike(rs, ls)) /\ (b \notin bulk' \union torn' => h = Units(ls))
  BY <1>4, <1>6
<1>19. pallets' = pallets /\ stockCache' = stockCache
      /\ signalled' = signalled /\ unsent' = unsent /\ unannounced \subseteq unannounced'
  BY <1>4
<1>20. (SerialsNamedOnce /\ ~overlapped' /\ torn' = {} /\ Registered(lots, serialAt, job[c])) => Registered(lots', serialAt', k)
  BY <1>17
<1> QED
  BY <1>3, <1>6, <1>8, <1>9, <1>10, <1>12, <1>13, <1>14, <1>15, <1>16, <1>18, <1>19, <1>20, StirringSound

LEMMA TransferInKeeps ==
  ASSUME InventoryAssumption, StockInv, NEW c \in Picker, TransferIn(c)
  PROVE  StockInv'
<1>1. PICK j, r, b : j = job[c] /\ r = j.receipt /\ b = j.to
  OBVIOUS
<1>2. j.at = "arrive" /\ Sound(j, Len(pallets)) /\ j \in JobType
  BY <1>1, StockIs DEF TransferIn, At
<1>3. b \in Bin /\ b # NoBin /\ Proper(r) /\ j.bin \in Bin /\ j.pallet \in 1..Len(pallets) /\ j.todo # <<>>
  BY <1>1, <1>2 DEF Sound, InventoryAssumption
<1>4. /\ Appends(b, r.qty, 2) /\ lots' = [lots EXCEPT ![b] = WithReceipt(@, r)]
      /\ replayed' = [replayed EXCEPT ![b] = WithReceipt(@, r)]
      /\ Does(c, [j EXCEPT !.at = "announce", !.seen = onHand'[b], !.todo = Tail(@)])
      /\ UNCHANGED <<serialAt, pallets, stockCache, signalled, unsent, confirmed, torn, bulk, unannounced, overlapped>>
  BY <1>1 DEF TransferIn, Calling
<1>5. PICK h, ls, rs : h = onHand[b] + r.qty /\ ls = WithReceipt(lots[b], r) /\ rs = WithReceipt(replayed[b], r)
  OBVIOUS
<1>6. /\ h \in Nat /\ ls \in Ledgers /\ rs \in Ledgers /\ ShardMoves(b, h, ls, rs)
      /\ b \notin torn => Alike(rs, ls)
      /\ b \notin bulk \union torn => h = Units(ls)
      /\ onHand'[b] = h /\ onHand[b] \in Nat /\ r.qty \in Nat
  <2>1. Appends(b, r.qty, 2) /\ b \in Bin /\ Proper(r)
    BY <1>3, <1>4
  <2>2. lots' = [lots EXCEPT ![b] = WithReceipt(@, r)] /\ replayed' = [replayed EXCEPT ![b] = WithReceipt(@, r)]
    BY <1>4
  <2> QED
    BY <1>5, <2>1, <2>2, ReceiptMoves
<1>7. PICK k : k = [j EXCEPT !.at = "announce", !.seen = h, !.todo = Tail(j.todo)]
  OBVIOUS
<1>8. job' = [job EXCEPT ![c] = k]
  BY <1>4, <1>6, <1>7 DEF Does
<1>9. k \in JobType /\ k.at = "announce" /\ k.bin = j.bin /\ k.to = b /\ k.pallet = j.pallet /\ k.seen = h
  <2>1. h \in Int
    BY <1>6
  <2>2. Tail(j.todo) \in Seq(Line)
    <3>1. j.todo \in Seq(Line)
      BY <1>2 DEF JobType
    <3> QED
      BY <1>3, <3>1
  <2> QED
    BY <1>1, <1>2, <1>3, <1>7, <2>1, <2>2 DEF JobType, Steps
<1>10. Sound(k, Len(pallets))
  BY <1>3, <1>9 DEF Sound
<1>11. Transit(k) = 0 /\ Transit(job[c]) = r.qty
  BY <1>1, <1>2, <1>9 DEF Transit
<1>12. confirmed' \in Int /\ confirmed' = confirmed + (h - onHand[b]) + (Transit(k) - Transit(job[c]))
  <2>1. confirmed \in Int
    BY StockIs
  <2> QED
    BY <1>4, <1>5, <1>6, <1>11, <2>1
<1>13. Overlaps(c)
  <2>1. job[c].at # "idle" /\ overlapped' = overlapped
    BY <1>1, <1>2, <1>4
  <2> QED
    BY <2>1, AloneNow DEF Overlaps
<1>14. Reaches(c, k)
  BY <1>1, <1>2, <1>3, <1>9 DEF Reaches, Touched
<1>15. Posting(k, b) /\ k.at # "copy"
  BY <1>3, <1>9 DEF Posting, Target
<1>16. \A x \in Bin : x # b => ~Posting(k, x) /\ ~Posting(job[c], x)
  BY <1>1, <1>2, <1>3, <1>9 DEF Posting, Target
<1>17. ASSUME Registered(lots, serialAt, job[c]) PROVE Registered(lots', serialAt', k)
  <2>1. PICK old, after, at, N, home : old = lots /\ after = lots' /\ at = serialAt /\ N = Range(r.serials) /\ home = r.lot
    OBVIOUS
  <2>2. \A x \in Bin, m \in Lot : IsInjective(SerialsOf(old[x], m))
    BY <1>17, <2>1 DEF Registered
  <2>3. \A x \in Bin, m \in Lot : \A s \in Held(old, x, m) : s \in DOMAIN at /\ at[s] = <<x, m>>
    BY <1>1, <1>2, <1>17, <2>1 DEF Registered
  <2>4. \A s \in DOMAIN at : s \in N \/ \E x \in Bin, m \in Lot : s \in Held(old, x, m)
    BY <1>1, <1>2, <1>17, <2>1 DEF Registered, Named
  <2>5. IsInjective(r.serials) /\ \A s \in N : s \in DOMAIN at /\ at[s] = <<b, home>>
    BY <1>1, <1>2, <1>17, <2>1 DEF Registered, Named
  <2>6. \A x \in Bin, m \in Lot : \A s \in Held(old, x, m) : s \notin N
    BY <1>1, <1>2, <1>17, <2>1 DEF Registered, Named
  <2>7. old \in [Bin -> Ledgers] /\ after = [old EXCEPT ![b] = WithReceipt(old[b], r)]
    BY <1>4, <2>1, StockIs
  <2>8. Puts(after, old, b, home, N)
    BY <1>3, <2>1, <2>2, <2>5, <2>6, <2>7, ReceiptPuts
  <2>9. home \in Lot
    BY <1>3, <2>1 DEF Proper, LotDetail
  <2>10. \A x \in Bin, m \in Lot : IsInjective(SerialsOf(after[x], m))
    BY <2>8 DEF Puts
  <2>11. ASSUME NEW x \in Bin, NEW m \in Lot, NEW s \in Held(after, x, m)
         PROVE  s \in DOMAIN at /\ at[s] = <<x, m>>
    <3>1. s \in Held(old, x, m) \/ (x = b /\ m = home /\ s \in N)
      BY <2>8, <2>11 DEF Puts
    <3> QED
      BY <2>3, <2>5, <3>1
  <2>12. N \subseteq Held(after, b, home)
    BY <1>3, <2>8, <2>9 DEF Puts
  <2>13. \A s \in DOMAIN at : \E x \in Bin, m \in Lot : s \in Held(after, x, m)
    BY <1>3, <2>4, <2>8, <2>9, <2>12 DEF Puts
  <2>14. Registered(after, at, k)
    BY <1>9, <2>10, <2>11, <2>13 DEF Registered
  <2>15. serialAt' = serialAt
    BY <1>4
  <2> QED
    BY <2>1, <2>14, <2>15
<1>18. /\ torn \subseteq torn' /\ bulk \subseteq bulk'
       /\ (b \notin torn' => Alike(rs, ls)) /\ (b \notin bulk' \union torn' => h = Units(ls))
  BY <1>4, <1>6
<1>19. pallets' = pallets /\ stockCache' = stockCache
      /\ signalled' = signalled /\ unsent' = unsent /\ unannounced \subseteq unannounced'
  BY <1>4
<1>20. (SerialsNamedOnce /\ ~overlapped' /\ torn' = {} /\ Registered(lots, serialAt, job[c])) => Registered(lots', serialAt', k)
  BY <1>17
<1> QED
  BY <1>3, <1>6, <1>8, <1>9, <1>10, <1>12, <1>13, <1>14, <1>15, <1>16, <1>18, <1>19, <1>20, StirringSound

LEMMA TransferOutKeeps ==
  ASSUME InventoryAssumption, StockInv, NEW c \in Picker, TransferOut(c)
  PROVE  StockInv'
<1>1. PICK j, b, d, plan : j = job[c] /\ b = j.bin /\ d = Head(j.todo) /\ plan = <<d>>
  OBVIOUS
<1>2. j.at = "line" /\ Sound(j, Len(pallets)) /\ j \in JobType /\ j.todo # <<>>
  BY <1>1, StockIs DEF TransferOut, At
<1>3. b \in Bin /\ j.to \in Bin /\ j.to # NoBin /\ j.pallet \in 1..Len(pallets)
  BY <1>1, <1>2 DEF Sound, InventoryAssumption
<1>4. d \in Line /\ d.lot \in Lot /\ d.qty \in Nat
  <2>1. j.todo \in Seq(Line)
    BY <1>2 DEF JobType
  <2>2. d \in Line
    BY <1>1, <1>2, <2>1
  <2> QED
    BY <2>2 DEF Line
<1>5. /\ onHand \in [Bin -> Nat] /\ version \in [Bin -> Nat]
      /\ lots \in [Bin -> Ledgers] /\ replayed \in [Bin -> Ledgers] /\ confirmed \in Int
  BY StockIs
<1>6. PICK old, was : old = lots[b] /\ was = replayed[b]
  OBVIOUS
<1>7. old \in Ledgers /\ was \in Ledgers /\ onHand[b] \in Nat /\ QtyOf(old, d.lot) \in Nat
  BY <1>3, <1>5, <1>6, HeldIs
<1>8. job[c].at # "idle" /\ job[c].at \notin Owing \union {"announce"}
  BY <1>1, <1>2 DEF Owing
<1>9. UNCHANGED <<serialAt, pallets, stockCache, signalled, unsent, confirmed, bulk>> /\ overlapped' = overlapped
  BY DEF TransferOut, Calling
<1>10. Overlaps(c)
  BY <1>8, <1>9, AloneNow DEF Overlaps
<1>11. CASE d.qty = 0 \/ QtyOf(old, d.lot) < d.qty
  <2>1. Does(c, Free) /\ UNCHANGED <<onHand, lots, version, replayed, torn, unannounced>>
    BY <1>1, <1>6, <1>11 DEF TransferOut
  <2>2. UNCHANGED Books /\ job' = [job EXCEPT ![c] = Free]
    BY <1>9, <2>1 DEF Books, Does
  <2>3. pallets' \in Seq(PalletType) /\ Len(pallets) <= Len(pallets') /\ unannounced' = unannounced
    BY <1>9, <2>1, StockIs
  <2> QED
    BY <1>8, <1>9, <2>2, <2>3, GivingUpSound
<1>12. CASE ~(d.qty = 0 \/ QtyOf(old, d.lot) < d.qty)
  <2>1. d.qty <= QtyOf(old, d.lot) /\ HasLot(old, d.lot)
    <3>1. QtyOf(old, d.lot) # 0
      BY <1>4, <1>7, <1>12
    <3>2. HasLot(old, d.lot)
      BY <3>1 DEF QtyOf
    <3> QED
      BY <1>4, <1>7, <1>12, <3>2
  <2>2. plan \in Seq(Line) /\ Fits(old, plan) /\ Units(plan) = d.qty /\ Len(plan) = 1
    BY <1>1, <1>4, <1>7, <2>1, OneDraw
  <2>3. PICK ls, rs : ls = AfterDraws(old, plan) /\ rs = AfterDraws(was, plan)
    OBVIOUS
  <2>4. ls \in Ledgers /\ DrawnSoFar(ls, old, plan, Len(plan)) /\ Units(ls) = Units(old) - Units(plan)
    BY <1>7, <2>2, <2>3, DrawsTake
  <2>5. lots' = [lots EXCEPT ![b] = ls] /\ unannounced' = unannounced \union {b}
    BY <1>1, <1>6, <1>12, <2>3 DEF TransferOut
  <2>6. CASE onHand[b] < d.qty
    <3>1. torn' = torn \union {b} /\ Does(c, Free) /\ UNCHANGED <<onHand, version, replayed>>
      BY <1>1, <1>6, <1>12, <2>6 DEF TransferOut
    <3>2. PICK h : h = onHand[b]
      OBVIOUS
    <3>3. h \in Nat /\ ShardMoves(b, h, ls, was)
      <4>1. onHand' = [onHand EXCEPT ![b] = h] /\ replayed' = [replayed EXCEPT ![b] = was]
        BY <1>5, <1>6, <3>1, <3>2
      <4>2. version' \in [Bin -> Nat] /\ \A x \in Bin : x # b => version'[x] = version[x]
        BY <1>5, <3>1
      <4> QED
        BY <1>7, <2>5, <3>2, <4>1, <4>2 DEF ShardMoves
    <3>4. job' = [job EXCEPT ![c] = Free] /\ confirmed' \in Int /\ b \in unannounced' /\ unannounced \subseteq unannounced'
      BY <1>5, <1>9, <2>5, <3>1 DEF Does
    <3> QED
      BY <1>3, <1>7, <1>8, <1>9, <1>10, <2>4, <3>1, <3>3, <3>4, TornSound
  <2>7. CASE ~(onHand[b] < d.qty)
    <3>1. PICK l, sn : l = old[PlaceOf(old, d.lot)] /\ sn = DrawnSerials(l, d.qty)
      OBVIOUS
    <3>2. PICK r : r = [lot |-> d.lot, qty |-> d.qty, expiry |-> l.expiry, serials |-> sn]
      OBVIOUS
    <3>3. PICK k : k = [j EXCEPT !.at = "relocate", !.receipt = r]
      OBVIOUS
    <3>4. /\ Appends(b, -d.qty, 2) /\ replayed' = [replayed EXCEPT ![b] = rs] /\ torn' = torn
          /\ job' = [job EXCEPT ![c] = k]
      BY <1>1, <1>6, <1>12, <2>3, <2>7, <3>1, <3>2, <3>3 DEF TransferOut, Does
    <3>5. l \in LotDetail
      BY <1>7, <2>1, <3>1, LotPlace, LedgerIs DEF HasLot
    <3>6. PICK kept : kept = SerialsOf(old, d.lot)
      OBVIOUS
    <3>7. sn = FrontOf(kept, d.qty) /\ kept \in Seq(Serial)
      BY <1>4, <1>7, <2>1, <3>1, <3>6, DrawnFront, HeldIs
    <3>8. sn \in Seq(Serial) /\ Len(sn) <= d.qty /\ (IsInjective(kept) => IsInjective(sn))
      BY <1>4, <3>7, SplitIs
    <3>9. Proper(r) /\ r \in LotDetail /\ r.qty = d.qty /\ r.serials = sn
      BY <1>4, <3>2, <3>5, <3>8 DEF Proper, LotDetail
    <3>10. k \in JobType /\ k.at = "relocate" /\ k.bin = b /\ k.to = j.to /\ k.receipt = r /\ k.todo = j.todo
           /\ k.pallet = j.pallet
      BY <1>1, <1>2, <3>3, <3>9 DEF JobType, Steps
    <3>11. Sound(k, Len(pallets))
      BY <1>2, <1>3, <3>9, <3>10 DEF Sound
    <3>12. PICK h : h = onHand[b] - d.qty
      OBVIOUS
    <3>13. h \in Nat /\ ShardMoves(b, h, ls, rs)
      <4>1. h \in Nat
        BY <1>4, <1>7, <2>7, <3>12
      <4>2. onHand[b] + (-d.qty) = h
        BY <1>4, <1>7, <3>12
      <4>3. onHand' = [onHand EXCEPT ![b] = onHand[b] + (-d.qty)] /\ version' = [version EXCEPT ![b] = version[b] + 2]
        BY <3>4 DEF Appends
      <4>4. version' \in [Bin -> Nat] /\ \A x \in Bin : x # b => version'[x] = version[x]
        <5>1. version \in [Bin -> Nat] /\ version' = [version EXCEPT ![b] = version[b] + 2]
          BY <1>5, <4>3
        <5>2. version[b] + 2 \in Nat
          BY <1>3, <5>1
        <5> QED
          BY <5>1, <5>2
      <4> QED
        BY <2>5, <3>4, <4>1, <4>2, <4>3, <4>4 DEF ShardMoves
    <3>14. rs \in Ledgers
      <4>1. Alike(was, was)
        BY DEF Alike
      <4> QED
        BY <1>7, <2>2, <2>3, <4>1, DrawsAlike
    <3>15. ASSUME b \notin torn PROVE Alike(rs, ls)
      <4>1. Alike(was, old)
        BY <1>3, <1>6, <3>15 DEF StockInv, LotsStand
      <4> QED
        BY <1>7, <2>2, <2>3, <4>1, DrawsAlike
    <3>16. ASSUME b \notin bulk \union torn PROVE h = Units(ls)
      <4>1. onHand[b] = Units(old)
        BY <1>3, <1>6, <3>16 DEF StockInv, LotsStand
      <4> QED
        BY <2>2, <2>4, <3>12, <4>1
    <3>17. Transit(k) = d.qty /\ Transit(job[c]) = 0
      BY <1>1, <1>2, <3>9, <3>10 DEF Transit
    <3>18. confirmed' \in Int /\ confirmed' = confirmed + (h - onHand[b]) + (Transit(k) - Transit(job[c]))
      BY <1>4, <1>5, <1>7, <1>9, <3>12, <3>17
    <3>19. Reaches(c, k) /\ b \in unannounced' /\ unannounced \subseteq unannounced' /\ k.at # "copy"
      BY <1>1, <1>2, <2>5, <3>10 DEF Reaches, Touched
    <3>20. \A x \in Bin : x # b => ~Posting(k, x) /\ ~Posting(job[c], x)
      BY <1>1, <1>2, <3>10 DEF Posting
    <3>21. ASSUME Registered(lots, serialAt, job[c]) PROVE Registered(lots', serialAt', k)
      <4>1. PICK shards, after, at, G : shards = lots /\ after = lots' /\ at = serialAt /\ G = Gone(shards[b], plan)
        OBVIOUS
      <4>2. shards \in [Bin -> Ledgers] /\ after = [shards EXCEPT ![b] = ls] /\ Registered(shards, at, j) /\ j.at \notin Owing
            /\ Fits(shards[b], plan) /\ DrawnSoFar(ls, shards[b], plan, Len(plan))
        BY <1>1, <1>5, <1>6, <1>8, <2>2, <2>4, <2>5, <3>21, <4>1
      <4>3. LeftRegistered(after, at, G)
        BY <1>3, <2>2, <4>1, <4>2, DrawnRegistered
      <4>4. DOMAIN plan = {1} /\ plan[1] = d
        BY <1>1
      <4>5. G = Range(sn)
        BY <1>6, <3>1, <4>1, <4>4 DEF Gone
      <4>6. IsInjective(sn)
        BY <1>3, <1>4, <1>6, <3>6, <3>8, <4>1, <4>2 DEF Registered
      <4>7. Named(k) = G /\ IsInjective(k.receipt.serials)
        BY <3>9, <3>10, <4>5, <4>6 DEF Named
      <4>8. Registered(after, at, k)
        BY <3>10, <4>3, <4>7 DEF Registered, LeftRegistered
      <4> QED
        BY <1>9, <4>1, <4>8
    <3>22. /\ torn \subseteq torn' /\ bulk \subseteq bulk'
           /\ (b \notin torn' => Alike(rs, ls)) /\ (b \notin bulk' \union torn' => h = Units(ls))
      BY <1>9, <3>4, <3>15, <3>16
    <3>23. pallets' = pallets /\ stockCache' = stockCache /\ signalled' = signalled /\ unsent' = unsent
      BY <1>9
    <3>24. (SerialsNamedOnce /\ ~overlapped' /\ torn' = {} /\ Registered(lots, serialAt, job[c])) => Registered(lots', serialAt', k)
      BY <3>21
    <3>25. job' = [job EXCEPT ![c] = k] /\ (b \notin unannounced' => Posting(k, b) /\ k.seen = h)
      BY <3>4, <3>19
    <3> QED
      BY <1>3, <1>10, <2>4, <3>11, <3>13, <3>14, <3>18, <3>19, <3>20, <3>22, <3>23, <3>24, <3>25, StirringSound
  <2> QED
    BY <2>6, <2>7
<1> QED
  BY <1>11, <1>12

-----------------------------------------------------------------------------
(* The invariant holds at the start, is kept by every call and gives every *)
(* property.                                                               *)

\* Adding up what the receipts of some jobs carry.
LEMMA ParcelsAdd ==
  ASSUME NEW work, NEW S, IsFiniteSet(S),
         NEW f \in [S -> Int], \A k \in S : f[k] = work[k].receipt.qty
  PROVE  MapThenSumSet(LAMBDA k : work[k].receipt.qty, S) = Sum(f, S)
<1> DEFINE Some(s) == CHOOSE x \in s : TRUE
           Body(w, s) == IF s = {} THEN 0 ELSE work[Some(s)].receipt.qty + w[s \ {Some(s)}]
           iter == CHOOSE w : w = [s \in SUBSET S |-> Body(w, s)]
<1>1. MapThenSumSet(LAMBDA k : work[k].receipt.qty, S) = iter[S]
  BY DEF MapThenSumSet, MapThenFoldSet
<1>2. \A w, s : s \in (SUBSET S) \ {{}} =>
        Some(s) \in s /\ s \ {Some(s)} \in SUBSET S /\ Body(w, s) = f[Some(s)] + w[s \ {Some(s)}]
  OBVIOUS
<1>3. \A w : Body(w, {}) = 0
  OBVIOUS
<1> HIDE DEF Body, iter, Some
<1>4. PICK g \in [SUBSET S -> Int] : SumsUp(g, S, f)
  BY SumExists
<1>5. \E w : w = [s \in SUBSET S |-> Body(w, s)]
  <2>1. PICK w : w = [s \in SUBSET S |-> g[s]]
    OBVIOUS
  <2>2. ASSUME NEW s \in SUBSET S PROVE w[s] = Body(w, s)
    <3>1. CASE s = {}
      BY <1>3, <1>4, <2>1, <3>1 DEF SumsUp
    <3>2. CASE s # {}
      <4>1. PICK x \in s : x = Some(s) /\ s \ {x} \in SUBSET S /\ Body(w, s) = f[x] + w[s \ {x}]
        BY <1>2, <3>2
      <4>2. g[s] = f[x] + g[s \ {x}]
        BY <1>4 DEF SumsUp
      <4> QED
        BY <2>1, <4>1, <4>2
    <3> QED
      BY <3>1, <3>2
  <2>3. w = [s \in SUBSET S |-> Body(w, s)]
    BY <2>1, <2>2
  <2> QED
    BY <2>3
<1>6. iter = [s \in SUBSET S |-> Body(iter, s)]
  BY <1>5 DEF iter
<1>7. Gathers(iter, S, f)
  <2>1. iter[{}] = 0
    BY <1>3, <1>6
  <2>2. ASSUME NEW s \in (SUBSET S) \ {{}} PROVE \E x \in s : iter[s] = f[x] + iter[s \ {x}]
    <3>1. PICK x \in s : x = Some(s) /\ Body(iter, s) = f[x] + iter[s \ {x}]
      BY <1>2
    <3>2. iter[s] = Body(iter, s)
      BY <1>6
    <3> QED
      BY <3>1, <3>2
  <2> QED
    BY <2>1, <2>2 DEF Gathers
<1> QED
  BY <1>1, <1>7, GatheredSum

LEMMA StandConserved ==
  ASSUME InventoryAssumption, StockInv
  PROVE  StockConserved
<1> SUFFICES ASSUME torn = {}
             PROVE  confirmed = MapThenSumSet(LAMBDA b : onHand[b], Bin)
                              + MapThenSumSet(LAMBDA c : job[c].receipt.qty, {c \in Picker : job[c].at \in {"relocate", "arrive"}})
  BY DEF StockConserved, SumOver
<1> DEFINE T == {c \in Picker : job[c].at \in {"relocate", "arrive"}}
           f == [c \in Picker |-> Transit(job[c])]
           h == [c \in T |-> job[c].receipt.qty]
<1>1. IsFiniteSet(Bin) /\ IsFiniteSet(Picker) /\ T \in SUBSET Picker
  BY DEF InventoryAssumption
<1>2. IsFiniteSet(T)
  BY <1>1, FS_Subset
<1>3. onHand \in [Bin -> Int] /\ \A b \in Bin : onHand[b] = onHand[b]
  <2>1. onHand \in [Bin -> Nat]
    BY StockIs
  <2> QED
    BY <2>1
<1>4. \A c \in Picker : (c \in T => job[c].receipt.qty \in Nat /\ Transit(job[c]) = job[c].receipt.qty)
                        /\ (c \notin T => Transit(job[c]) = 0)
  <2>1. \A c \in Picker : Sound(job[c], Len(pallets))
    BY StockIs
  <2>2. \A c \in T : Proper(job[c].receipt)
    BY <2>1 DEF Sound
  <2>3. \A c \in T : job[c].receipt.qty \in Nat
    BY <2>2 DEF Proper, LotDetail
  <2> QED
    BY <2>3 DEF Transit
<1>5. f \in [Picker -> Int] /\ h \in [T -> Int]
  BY <1>4
<1>6. (\A c \in T : h[c] = job[c].receipt.qty) /\ (\A c \in T : h[c] = f[c]) /\ \A c \in Picker \ T : f[c] = 0
  BY <1>4
<1>7. confirmed = Sum(onHand, Bin) + Sum(f, Picker)
  BY DEF StockInv, Conserved
<1> HIDE DEF T, f, h
<1>8. MapThenSumSet(LAMBDA b : onHand[b], Bin) = Sum(onHand, Bin)
  BY <1>1, <1>3, FunctionAdds
<1>9. MapThenSumSet(LAMBDA c : job[c].receipt.qty, T) = Sum(h, T)
  <2>1. PICK work, U, parcels : work = job /\ U = T /\ parcels = h
    OBVIOUS
  <2>2. IsFiniteSet(U) /\ parcels \in [U -> Int]
    BY <1>2, <1>5, <2>1
  <2>3. \A k \in U : parcels[k] = work[k].receipt.qty
    BY <1>6, <2>1
  <2>4. MapThenSumSet(LAMBDA k : work[k].receipt.qty, U) = Sum(parcels, U)
    BY <2>2, <2>3, ParcelsAdd
  <2> QED
    BY <2>1, <2>4
<1>10. Sum(h, T) = Sum(f, T)
  BY <1>1, <1>5, <1>6, SumRestricted
<1>11. Sum(f, Picker) = Sum(f, T) + Sum(f, Picker \ T)
  <2>1. Picker \ T \in SUBSET Picker /\ T \cap (Picker \ T) = {} /\ T \cup (Picker \ T) = Picker
    BY <1>1
  <2>2. Sum(f, T \cup (Picker \ T)) = Sum(f, T) + Sum(f, Picker \ T)
    BY <1>1, <1>5, <2>1, SumOfParts
  <2> QED
    BY <2>1, <2>2
<1>12. Sum(f, Picker \ T) = 0 /\ Sum(f, T) \in Int
  <2>1. Picker \ T \in SUBSET Picker
    OBVIOUS
  <2> QED
    BY <1>1, <1>5, <1>6, <2>1, SumNothing, SumOne
<1>13. confirmed = MapThenSumSet(LAMBDA b : onHand[b], Bin) + MapThenSumSet(LAMBDA c : job[c].receipt.qty, T)
  BY <1>7, <1>8, <1>9, <1>10, <1>11, <1>12
<1> QED
  BY <1>13 DEF T

LEMMA StandTyped ==
  ASSUME InventoryAssumption, StockInv
  PROVE  WTypeOK
<1>1. \A b \in Bin : \A i \in DOMAIN lots[b] : lots[b][i].qty \in Nat /\ lots[b][i].lot \in Lot
  <2> SUFFICES ASSUME NEW b \in Bin, NEW i \in DOMAIN lots[b] PROVE lots[b][i].qty \in Nat /\ lots[b][i].lot \in Lot
    OBVIOUS
  <2>1. lots[b] \in Ledgers
    BY StockIs
  <2> QED
    BY <2>1, LedgerIs
<1>2. \A p \in DOMAIN pallets : pallets[p].location \in Bin
  <2>1. pallets \in Seq(PalletType)
    BY StockIs
  <2>2. \A p \in DOMAIN pallets : pallets[p] \in PalletType
    BY <2>1
  <2> QED
    BY <2>2 DEF PalletType
<1>3. onHand \in [Bin -> Nat] /\ version \in [Bin -> Nat] /\ DOMAIN stockCache \subseteq Bin /\ DOMAIN job = Picker
  BY StockIs
<1> QED
  BY <1>1, <1>2, <1>3 DEF WTypeOK

LEMMA StandCached ==
  ASSUME InventoryAssumption, StockInv
  PROVE  StockCacheFresh
<1> SUFFICES ASSUME NEW b \in Bin \ unannounced, version[b] > 0, WQuiet(b) PROVE Settled(b)
  BY DEF StockCacheFresh, Settled
<1>1. b \in Bin /\ Clear(b)
  BY DEF StockInv, CacheStands
<1>2. ASSUME NEW c \in Picker, Posting(job[c], b) PROVE FALSE
  <2>1. b # NoBin
    BY <1>1 DEF InventoryAssumption
  <2>2. job[c].at # "copy"
    BY <1>2 DEF Posting
  <2>3. b \in {job[c].bin, job[c].to} \ {NoBin}
    BY <1>2, <2>1 DEF Posting, Target
  <2> QED
    BY <2>2, <2>3 DEF WQuiet, Touched
<1> QED
  BY <1>1, <1>2 DEF Clear

LEMMA StandResolved ==
  ASSUME SerialsNamedOnce, StockInv
  PROVE  SerialsResolve
<1> SUFFICES ASSUME ~overlapped, torn = {}, \A c \in Picker : At(c, "idle")
             PROVE  /\ \A b \in Bin, l \in Lot : \A s \in Range(SerialsOf(lots[b], l)) :
                         s \in DOMAIN serialAt /\ serialAt[s] = <<b, l>>
                    /\ \A s \in DOMAIN serialAt : \E b \in Bin, l \in Lot : s \in Range(SerialsOf(lots[b], l))
  BY DEF SerialsResolve
<1>1. Registered(lots, serialAt, Free)
  BY DEF StockInv, SerialsStand
<1>2. Free.at = "idle"
  BY DEF Free
<1> QED
  BY <1>1, <1>2 DEF Registered, Held

LEMMA StandReplayed ==
  ASSUME StockInv
  PROVE  LotsReplay /\ LotsCoverOnHand
BY DEF StockInv, LotsStand, Alike, LotsReplay, LotsCoverOnHand

LEMMA WInitStands ==
  ASSUME InventoryAssumption, WInit
  PROVE  StockInv
<1>1. onHand = [b \in Bin |-> 0] /\ version = [b \in Bin |-> 0] /\ lots = [b \in Bin |-> <<>>] /\ replayed = [b \in Bin |-> <<>>]
      /\ serialAt = Empty /\ pallets = <<>> /\ stockCache = Empty /\ job = [c \in Picker |-> Free] /\ confirmed = 0
  BY DEF WInit
<1>2. <<>> \in Ledgers
  <2>1. <<>> \in Seq(LotDetail) /\ DOMAIN <<>> = {}
    BY EmptySeq
  <2> QED
    BY <2>1 DEF Ledgers
<1>3. StockTyped
  <2>1. DOMAIN Empty = {}
    BY DEF Empty
  <2>2. <<>> \in Seq(PalletType)
    BY EmptySeq
  <2> QED
    BY <1>1, <1>2, <2>1, <2>2 DEF StockTyped
<1>4. JobsTyped
  <2>1. Sound(Free, Len(pallets)) /\ Free \in JobType
    <3>1. Free \in JobType
      BY FreeIs
    <3>2. Free.at = "idle" /\ Free.to = NoBin
      BY DEF Free
    <3> QED
      BY <3>1, <3>2 DEF Sound
  <2> QED
    BY <1>1, <2>1 DEF JobsTyped
<1>5. LotsStand
  <2>1. \A b \in Bin : onHand[b] = Units(lots[b])
    BY <1>1, AmountOfNone
  <2>2. \A b \in Bin : replayed[b] = lots[b]
    BY <1>1
  <2> QED
    BY <2>1, <2>2 DEF LotsStand, Alike
<1>6. Conserved
  <2>1. IsFiniteSet(Bin) /\ IsFiniteSet(Picker)
    BY DEF InventoryAssumption
  <2>2. PICK g, f : g = onHand /\ f = [c \in Picker |-> Transit(job[c])]
    OBVIOUS
  <2>3. g \in [Bin -> Int] /\ \A b \in Bin : g[b] = 0
    BY <1>1, <2>2
  <2>4. \A c \in Picker : Transit(job[c]) = 0
    BY <1>1 DEF Transit, Free
  <2>5. f \in [Picker -> Int] /\ \A c \in Picker : f[c] = 0
    BY <2>2, <2>4
  <2>6. Sum(g, Bin) = 0
    <3>1. Bin \in SUBSET Bin
      OBVIOUS
    <3> QED
      BY <2>1, <2>3, <3>1, SumNothing
  <2>7. Sum(f, Picker) = 0
    <3>1. Picker \in SUBSET Picker
      OBVIOUS
    <3> QED
      BY <2>1, <2>5, <3>1, SumNothing
  <2> QED
    BY <1>1, <2>2, <2>6, <2>7 DEF Conserved
<1>7. CacheStands
  <2> SUFFICES ASSUME NEW b \in Bin PROVE Clear(b)
    BY DEF CacheStands
  <2>1. \A c \in Picker : job[c].at = "idle" /\ job[c].bin = NoBin /\ job[c].to = NoBin
    BY <1>1 DEF Free
  <2>2. \A c \in Picker : Touched(job[c]) = {}
    BY <2>1 DEF Touched
  <2>3. \A c \in Picker : ~Posting(job[c], b)
    BY <2>1 DEF Posting
  <2>4. version[b] = 0
    BY <1>1
  <2> QED
    BY <2>1, <2>2, <2>3, <2>4 DEF Clear
<1>8. SerialsStand
  <2>1. \A b \in Bin, l \in Lot : SerialsOf(lots[b], l) = <<>>
    <3>1. \A l : \A i \in DOMAIN <<>> : <<>>[i].lot # l
      BY EmptySeq
    <3>2. \A l : SerialsOf(<<>>, l) = <<>>
      BY <1>2, <3>1, LotMissing
    <3> QED
      BY <1>1, <3>2
  <2>2. Range(<<>>) = {} /\ IsInjective(<<>>)
    BY EmptySeq DEF Range, IsInjective
  <2>3. DOMAIN serialAt = {}
    BY <1>1 DEF Empty
  <2>4. Free.at = "idle"
    BY DEF Free
  <2>5. Registered(lots, serialAt, Free)
    BY <2>1, <2>2, <2>3, <2>4 DEF Registered, Held
  <2>6. \A c \in Picker : job[c] = Free /\ At(c, "idle")
    BY <1>1, <2>4 DEF At
  <2> QED
    BY <2>5, <2>6 DEF SerialsStand
<1> QED
  BY <1>3, <1>4, <1>5, <1>6, <1>7, <1>8 DEF StockInv

LEMMA WRestStands ==
  ASSUME StockInv, UNCHANGED wvars
  PROVE  StockInv'
<1>1. /\ onHand' = onHand /\ lots' = lots /\ version' = version /\ replayed' = replayed /\ serialAt' = serialAt
      /\ pallets' = pallets /\ stockCache' = stockCache
      /\ signalled' = signalled /\ unsent' = unsent /\ job' = job /\ confirmed' = confirmed
      /\ torn' = torn /\ bulk' = bulk /\ unannounced' = unannounced /\ overlapped' = overlapped
  BY DEF wvars
<1>2. StockTyped' /\ JobsTyped' /\ LotsStand'
  BY <1>1 DEF StockInv, StockTyped, JobsTyped, LotsStand
<1>3. Conserved'
  BY <1>1 DEF StockInv, Conserved
<1>4. CacheStands'
  BY <1>1 DEF StockInv, CacheStands, Clear, Settled
<1>5. SerialsStand'
  BY <1>1 DEF StockInv, SerialsStand, Alone, At
<1> QED
  BY <1>2, <1>3, <1>4, <1>5 DEF StockInv

LEMMA WNextStands ==
  ASSUME InventoryAssumption, StockInv, WNext
  PROVE  StockInv'
<1>1. PICK c \in Picker :
    \/ \E b \in Bin :
         \/ \E d \in Movements : Apply(c, b, d) \/ NoteVersion(c, b, d)
         \/ \E r \in Receipts : CheckSerials(c, b, r)
         \/ \E q \in PickSizes : Pick(c, b, q) \/ \E l \in Lot : PickFromLot(c, b, l, q)
         \/ \E load \in Loads : StartPallet(c, b, load)
         \/ \E n \in Counts : StartCount(c, b, n)
         \/ CopyShard(c, b)
    \/ \E p \in DOMAIN pallets :
         \/ \E b \in Bin : StartMove(c, p, b)
         \/ \E i \in DOMAIN pallets[p].lines, q \in PickSizes : ReduceLine(c, p, i, q)
    \/ ApplyVersioned(c) \/ AppendReceipt(c) \/ Register(c) \/ Unregister(c) \/ AfterWrite(c)
    \/ CheckLine(c) \/ InsertPallet(c) \/ TransferOut(c) \/ Relocate(c) \/ TransferIn(c)
    \/ EndMove(c) \/ PickReduced(c) \/ ReadExpected(c) \/ ApplyVariance(c)
    \/ StartRebuilding(c) \/ PutRebuilt(c)
  BY DEF WNext
<1>2. CASE \E b \in Bin :
         \/ \E d \in Movements : Apply(c, b, d) \/ NoteVersion(c, b, d)
         \/ \E r \in Receipts : CheckSerials(c, b, r)
         \/ \E q \in PickSizes : Pick(c, b, q) \/ \E l \in Lot : PickFromLot(c, b, l, q)
         \/ \E load \in Loads : StartPallet(c, b, load)
         \/ \E n \in Counts : StartCount(c, b, n)
         \/ CopyShard(c, b)
  <2>1. PICK b \in Bin :
         \/ \E d \in Movements : Apply(c, b, d) \/ NoteVersion(c, b, d)
         \/ \E r \in Receipts : CheckSerials(c, b, r)
         \/ \E q \in PickSizes : Pick(c, b, q) \/ \E l \in Lot : PickFromLot(c, b, l, q)
         \/ \E load \in Loads : StartPallet(c, b, load)
         \/ \E n \in Counts : StartCount(c, b, n)
         \/ CopyShard(c, b)
    BY <1>2
  <2>2. CASE \E d \in Movements : Apply(c, b, d) \/ NoteVersion(c, b, d)
    BY <2>2, ApplyKeeps, NoteVersionKeeps
  <2>3. CASE \E r \in Receipts : CheckSerials(c, b, r)
    BY <2>3, CheckSerialsKeeps
  <2>4. CASE \E q \in PickSizes : Pick(c, b, q) \/ \E l \in Lot : PickFromLot(c, b, l, q)
    BY <2>4, PickKeeps, PickFromLotKeeps
  <2>5. CASE \E load \in Loads : StartPallet(c, b, load)
    BY <2>5, StartPalletKeeps
  <2>6. CASE \E n \in Counts : StartCount(c, b, n)
    BY <2>6, StartCountKeeps
  <2>7. CASE CopyShard(c, b)
    BY <2>7, CopyShardKeeps
  <2> QED
    BY <2>1, <2>2, <2>3, <2>4, <2>5, <2>6, <2>7
<1>3. CASE \E p \in DOMAIN pallets :
         \/ \E b \in Bin : StartMove(c, p, b)
         \/ \E i \in DOMAIN pallets[p].lines, q \in PickSizes : ReduceLine(c, p, i, q)
  <2>1. PICK p \in DOMAIN pallets :
         \/ \E b \in Bin : StartMove(c, p, b)
         \/ \E i \in DOMAIN pallets[p].lines, q \in PickSizes : ReduceLine(c, p, i, q)
    BY <1>3
  <2>2. CASE \E b \in Bin : StartMove(c, p, b)
    BY <2>2, StartMoveKeeps
  <2>3. CASE \E i \in DOMAIN pallets[p].lines, q \in PickSizes : ReduceLine(c, p, i, q)
    BY <2>3, ReduceLineKeeps
  <2> QED
    BY <2>1, <2>2, <2>3
<1>4. CASE ApplyVersioned(c) \/ ApplyVariance(c)
  BY <1>4, ApplyVersionedKeeps, ApplyVarianceKeeps
<1>5. CASE AppendReceipt(c) \/ Register(c) \/ Unregister(c) \/ AfterWrite(c)
  BY <1>5, AppendReceiptKeeps, RegisterKeeps, UnregisterKeeps, AfterWriteKeeps
<1>6. CASE CheckLine(c) \/ InsertPallet(c) \/ EndMove(c) \/ PickReduced(c) \/ ReadExpected(c)
  BY <1>6, CheckLineKeeps, InsertPalletKeeps, EndMoveKeeps, PickReducedKeeps, ReadExpectedKeeps
<1>7. CASE TransferOut(c) \/ Relocate(c) \/ TransferIn(c)
  BY <1>7, TransferOutKeeps, RelocateKeeps, TransferInKeeps
<1>8. CASE StartRebuilding(c) \/ PutRebuilt(c)
  BY <1>8, StartRebuildingKeeps, PutRebuiltKeeps
<1> QED
  BY <1>1, <1>2, <1>3, <1>4, <1>5, <1>6, <1>7, <1>8

LEMMA StockInvHolds == WSpec => []StockInv
<1>1. WInit => StockInv
  BY InventoryAssumption, WInitStands
<1>2. StockInv /\ [WNext]_wvars => StockInv'
  BY InventoryAssumption, WNextStands, WRestStands
<1> QED
  BY <1>1, <1>2, PTL DEF WSpec

\* Stock stands, for every set of pickers, bins, lots, receipts, movements and counts and
\* every interleaving of their calls (append_movement_locked, receive_lot, pick, transfer_lot,
\* move_pallet, reconcile_count, after_write of examples/wms/src/inventory.rs): no balance is
\* below zero, no unit is made or lost but by a pick that fails half way, the lots and the
\* replay of their events account for the stock, and the read model settles.
THEOREM StockStands ==
  WSpec => [](WTypeOK /\ StockConserved /\ LotsCoverOnHand /\ LotsReplay /\ StockCacheFresh)
<1>1. StockInv => WTypeOK /\ StockConserved /\ LotsCoverOnHand /\ LotsReplay /\ StockCacheFresh
  BY InventoryAssumption, StandTyped, StandConserved, StandReplayed, StandCached
<1> QED
  BY <1>1, StockInvHolds, PTL

\* The same with the registry of serial numbers, and so the whole of what the engine
\* promises: as long as no two calls overlapped, a serial is registered exactly where a lot
\* holds it.  It needs receipts that name a serial once: receive_lot compares the serials
\* of a receipt with the registry only, so one named twice would be in a lot twice, and
\* the first pick of it would have the registry forget both.
THEOREM StockAccountedHolds ==
  ASSUME SerialsNamedOnce
  PROVE  WSpec => []StockAccounted
<1>1. StockInv => StockAccounted
  BY InventoryAssumption, StandTyped, StandConserved, StandReplayed, StandCached, StandResolved DEF StockAccounted
<1> QED
  BY <1>1, StockInvHolds, PTL
=============================================================================
