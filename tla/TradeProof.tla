----------------------------- MODULE TradeProof -----------------------------
(***************************************************************************)
(* Order sagas over one stock: what the calls of any number of orders      *)
(* keep true, whatever lapses, closes and is promoted between their steps. *)
(* A driver's hours: the accumulated clock and the log it is recomputed    *)
(* from agree after any number of intervals.  The register: a total splits *)
(* exactly, and a captured sale is recorded and applied once.              *)
(***************************************************************************)
EXTENDS OrderSaga, HoursOfService, PointOfSale, FoldLemmas, FiniteSetTheorems, SequenceTheorems, TLAPS

-----------------------------------------------------------------------------
(* Units.                                                                  *)

HoldRow == [id : Nat, sku : Ware, qty : Nat]
Split(S) == UNION {{x} \X (1..x.qty) : x \in S}

LEMMA SplitFinite ==
  ASSUME NEW S, IsFiniteSet(S), \A x \in S : x.qty \in Nat
  PROVE  IsFiniteSet(Split(S)) /\ UnitCount(S) = Cardinality(Split(S)) /\ UnitCount(S) \in Nat
<1> DEFINE P(x) == {x} \X (1..x.qty)
<1>1. IsFiniteSet({P(x) : x \in S})
  <2>1. \E f : f \in Surjection(S, {P(x) : x \in S})
    <3> DEFINE f == [x \in S |-> P(x)]
    <3>1. f \in Surjection(S, {P(x) : x \in S})
      BY Zenon DEF Surjection
    <3> QED
      BY <3>1
  <2> QED
    BY <2>1, FS_Surjection
<1>2. ASSUME NEW x \in S PROVE IsFiniteSet(P(x))
  <2>1. IsFiniteSet({x}) /\ IsFiniteSet(1..x.qty)
    <3>1. x.qty \in Nat
      OBVIOUS
    <3>2. \A q \in Nat : IsFiniteSet(1..q)
      BY FS_Interval
    <3>3. IsFiniteSet({x})
      BY FS_Singleton
    <3> QED
      BY <3>1, <3>2, <3>3
  <2> QED
    BY <2>1, FS_Product
<1>3. IsFiniteSet(UNION {P(x) : x \in S})
  <2> HIDE DEF P
  <2>1. \A T \in {P(x) : x \in S} : IsFiniteSet(T)
    BY <1>2
  <2> QED
    BY <1>1, <2>1, FS_UNION
<1>4. IsFiniteSet(Split(S))
  BY <1>3 DEF Split
<1> QED
  BY <1>4, FS_CardinalityType DEF UnitCount, Split

LEMMA UnitsAdd ==
  ASSUME NEW S, IsFiniteSet(S), \A x \in S : x.qty \in Nat, NEW h, h \notin S, h.qty \in Nat
  PROVE  UnitCount(S \cup {h}) = UnitCount(S) + h.qty
<1> DEFINE mine == {h} \X (1..h.qty)
<1>1. Split(S \cup {h}) = Split(S) \cup mine
  BY DEF Split
<1>2. Split(S) \cap mine = {}
  BY DEF Split
<1>3. IsFiniteSet(mine) /\ Cardinality(mine) = h.qty
  <2>1. IsFiniteSet({h}) /\ Cardinality({h}) = 1
    BY FS_Singleton
  <2>2. IsFiniteSet(1..h.qty) /\ Cardinality(1..h.qty) = h.qty
    BY FS_Interval
  <2>3. IsFiniteSet(mine) /\ Cardinality(mine) = Cardinality({h}) * Cardinality(1..h.qty)
    <3> DEFINE A == {h}
               B == 1..h.qty
    <3>1. IsFiniteSet(A) /\ IsFiniteSet(B)
      BY <2>1, <2>2
    <3> HIDE DEF A, B
    <3>2. IsFiniteSet(A \X B) /\ Cardinality(A \X B) = Cardinality(A) * Cardinality(B)
      BY <3>1, FS_Product
    <3> QED
      BY <3>2 DEF A, B
  <2> QED
    BY <2>1, <2>2, <2>3
<1> HIDE DEF mine
<1>4. IsFiniteSet(Split(S)) /\ UnitCount(S) = Cardinality(Split(S)) /\ UnitCount(S) \in Nat
  BY SplitFinite
<1>5. Cardinality(Split(S) \cup mine) = Cardinality(Split(S)) + Cardinality(mine) - Cardinality({})
  BY <1>2, <1>3, <1>4, FS_Union
<1>6. Cardinality({}) = 0
  BY FS_EmptySet
<1>7. UnitCount(S \cup {h}) = Cardinality(Split(S) \cup mine)
  BY <1>1 DEF UnitCount, Split
<1> QED
  BY <1>3, <1>4, <1>5, <1>6, <1>7

\* A hold more is its quantity more of its own SKU.
LEMMA UnitsOfAdd ==
  ASSUME NEW S, IsFiniteSet(S), \A x \in S : x.qty \in Nat, NEW h, h \notin S, h.qty \in Nat, NEW k
  PROVE  UnitsOf(S \cup {h}, k) = UnitsOf(S, k) + (IF h.sku = k THEN h.qty ELSE 0)
         /\ UnitsOf(S, k) \in Nat
<1> DEFINE T == {x \in S : x.sku = k}
<1>1. IsFiniteSet(T)
  BY FS_Subset
<1>2. {x \in S \cup {h} : x.sku = k} = IF h.sku = k THEN T \cup {h} ELSE T
  OBVIOUS
<1>3. UnitsOf(S, k) = UnitCount(T) /\ \A x \in T : x.qty \in Nat
  BY DEF UnitsOf
<1>4. UnitsOf(S \cup {h}, k) = IF h.sku = k THEN UnitCount(T \cup {h}) ELSE UnitCount(T)
  BY <1>2 DEF UnitsOf
<1>5. h \notin T
  OBVIOUS
<1> HIDE DEF T
<1>6. UnitCount(T) \in Nat
  BY <1>1, <1>3, SplitFinite
<1>7. UnitCount(T \cup {h}) = UnitCount(T) + h.qty
  BY <1>1, <1>3, <1>5, UnitsAdd
<1> QED
  BY <1>3, <1>4, <1>6, <1>7

LEMMA UnitsOfNat ==
  ASSUME NEW S, IsFiniteSet(S), \A x \in S : x.qty \in Nat, NEW k
  PROVE  UnitsOf(S, k) \in Nat
<1> DEFINE T == {x \in S : x.sku = k}
<1>1. IsFiniteSet(T) /\ \A x \in T : x.qty \in Nat
  BY FS_Subset
<1> HIDE DEF T
<1>2. UnitCount(T) \in Nat
  BY <1>1, SplitFinite
<1> QED
  BY <1>2 DEF UnitsOf, T

LEMMA UnitsOfRemove ==
  ASSUME NEW S, IsFiniteSet(S), \A x \in S : x.qty \in Nat, NEW h \in S, NEW k
  PROVE  UnitsOf(S \ {h}, k) = UnitsOf(S, k) - (IF h.sku = k THEN h.qty ELSE 0)
<1>1. IsFiniteSet(S \ {h}) /\ h \notin S \ {h} /\ (S \ {h}) \cup {h} = S
  BY FS_RemoveElement
<1>2. UnitsOf((S \ {h}) \cup {h}, k) = UnitsOf(S \ {h}, k) + (IF h.sku = k THEN h.qty ELSE 0)
      /\ UnitsOf(S \ {h}, k) \in Nat
  BY <1>1, UnitsOfAdd
<1>3. UnitsOf(S, k) = UnitsOf(S \ {h}, k) + (IF h.sku = k THEN h.qty ELSE 0)
  BY <1>1, <1>2
<1>4. h.qty \in Nat
  OBVIOUS
<1> QED
  BY <1>2, <1>3, <1>4

LEMMA SmallerOfTwo ==
  ASSUME NEW a \in Int, NEW b \in Int
  PROVE  /\ Min({a, b}) \in {a, b} /\ Min({a, b}) <= a /\ Min({a, b}) <= b
         /\ Max({a, b}) \in {a, b} /\ Max({a, b}) >= a /\ Max({a, b}) >= b
<1>1. \E x \in {a, b} : \A y \in {a, b} : x <= y
  OBVIOUS
<1>2. \E x \in {a, b} : \A y \in {a, b} : x >= y
  OBVIOUS
<1>3. Min({a, b}) \in {a, b} /\ \A y \in {a, b} : Min({a, b}) <= y
  BY <1>1 DEF Min
<1>4. Max({a, b}) \in {a, b} /\ \A y \in {a, b} : Max({a, b}) >= y
  BY <1>2 DEF Max
<1> QED
  BY <1>3, <1>4

-----------------------------------------------------------------------------
(* The inductive invariant.                                                *)

Stage == {"idle", "reserve", "hold", "short", "confirm", "refund", "release", "promote", "fill"}
Outcome == {"none", "Shipped", "Backordered", "Compensated", "Failed"}
SagaLine == [sku : Ware, qty : Nat, price : Int]
WonLine == [id : Nat, sku : Ware, qty : Nat, price : Int]

\* The amount of a call is left untyped: it is what Value makes of its lines.
CallShape(s) ==
  s = [at |-> s.at, lines |-> s.lines, won |-> s.won, short |-> s.short, total |-> s.total,
       todo |-> s.todo, end |-> s.end]

CallType(s) ==
  /\ CallShape(s)
  /\ s.at \in Stage
  /\ s.end \in Outcome
  /\ s.lines \in Seq(SagaLine) /\ s.short \in Seq(SagaLine)
  /\ s.won \in Seq(WonLine) /\ s.todo \in Seq(WonLine)

SgTypeOK ==
  /\ onShelf \in [Ware -> Nat] /\ committed \in [Ware -> Nat]
  /\ held \subseteq HoldRow /\ IsFiniteSet(held)
  /\ waiting \subseteq HoldRow
  /\ booksOpen \in BOOLEAN /\ nextId \in Nat
  /\ receivable = [o \in Order |-> receivable[o]]
  /\ saga = [o \in Order |-> saga[o]] /\ \A o \in Order : CallType(saga[o])
  /\ rma \in [Order -> {"none", "Requested", "Authorized", "Received", "Refunded"}]
  /\ restocked = [o \in Order |-> restocked[o]]

\* An id names one hold, and is drawn once.
HoldsSound(H, n) ==
  /\ \A h \in H : h.id < n
  /\ \A g, h \in H : g.id = h.id => g = h

\* A call: what it was paid is what it won, a hold of its is as it was won, and
\* what it still has to give back is to be done.
CallSound(s, H, n) ==
  /\ s.at = "confirm" => s.total = Value(s.won)
  /\ s.at # "idle" => s.end = "none"
  /\ \A i \in DOMAIN s.won : s.won[i].id < n
  /\ \A h \in H, i \in DOMAIN s.won :
       h.id = s.won[i].id => h.sku = s.won[i].sku /\ h.qty = s.won[i].qty
  /\ s.at \in {"confirm", "release"} =>
       \A j \in DOMAIN s.todo : \E i \in DOMAIN s.won : s.todo[j] = s.won[i]
  /\ s.at = "release" =>
       \A h \in H, i \in DOMAIN s.won :
         h.id = s.won[i].id => \E j \in DOMAIN s.todo : s.todo[j].id = h.id
  /\ s.at = "idle" /\ s.end = "Compensated" =>
       \A h \in H, i \in DOMAIN s.won : h.id # s.won[i].id
  /\ s.at \in {"hold", "short", "fill"} => s.todo # <<>>
  /\ s.at \in {"hold", "short"} => s.lines # <<>> /\ Head(s.todo).qty <= Head(s.lines).qty

\* What a call has read and is about to hold is still there, unless its reading was
\* crossed by another's hold.
Fits(s) == \A k \in Ware \ crossed : AboutToHold(s, k) => Head(s.todo).qty <= Sellable(k)
Readers == \A o \in Order : Fits(saga[o])

\* A return is of an order that stays as it was shipped.
ReturnSound(s, status, r) ==
  /\ status # "none" => s.at = "idle" /\ s.end = "Shipped"
  /\ r = IF status \in {"Received", "Refunded"} THEN Quantity(s.won) ELSE 0

SagaInv ==
  /\ SgTypeOK
  /\ HoldsSound(held, nextId)
  /\ \A o \in Order : CallSound(saga[o], held, nextId) /\ ReturnSound(saga[o], rma[o], restocked[o])
  /\ NothingPromisedTwice /\ Readers

-----------------------------------------------------------------------------
(* Calls and holds, one change at a time.                                  *)

CallOf(at, lines, won, short, total, todo, end) ==
  [at |-> at, lines |-> lines, won |-> won, short |-> short, total |-> total, todo |-> todo, end |-> end]

\* A call with one field updated.
LEMMA CallUpdates ==
  ASSUME NEW s, CallShape(s), NEW u
  PROVE  /\ [s EXCEPT !.at = u] = CallOf(u, s.lines, s.won, s.short, s.total, s.todo, s.end)
         /\ [s EXCEPT !.lines = u] = CallOf(s.at, u, s.won, s.short, s.total, s.todo, s.end)
         /\ [s EXCEPT !.won = u] = CallOf(s.at, s.lines, u, s.short, s.total, s.todo, s.end)
         /\ [s EXCEPT !.short = u] = CallOf(s.at, s.lines, s.won, u, s.total, s.todo, s.end)
         /\ [s EXCEPT !.total = u] = CallOf(s.at, s.lines, s.won, s.short, u, s.todo, s.end)
         /\ [s EXCEPT !.todo = u] = CallOf(s.at, s.lines, s.won, s.short, s.total, u, s.end)
         /\ [s EXCEPT !.end = u] = CallOf(s.at, s.lines, s.won, s.short, s.total, s.todo, u)
<1>1. PICK a, b, c, d, e, f, g : s = CallOf(a, b, c, d, e, f, g)
  BY DEF CallShape, CallOf
<1> QED
  BY <1>1 DEF CallOf

\* What the actions make of a call.
LEMMA CallBecomes ==
  ASSUME NEW s, CallShape(s), NEW u, NEW v
  PROVE  /\ Enters(s, u) = CallOf(u, s.lines, s.won, s.short, s.total, s.todo, s.end)
         /\ WorksOff(s, u, v) = CallOf(u, s.lines, s.won, s.short, s.total, v, s.end)
         /\ Wins(s, u) = CallOf(s.at, s.lines, Append(s.won, u), s.short, s.total, s.todo, s.end)
         /\ Lacks(s, u) = CallOf(s.at, s.lines, s.won, Append(s.short, u), s.total, s.todo, s.end)
         /\ Billed(s, u) = CallOf(s.at, s.lines, s.won, s.short, u, s.todo, s.end)
<1>1. ASSUME NEW a, NEW b, NEW c, NEW d, NEW e, NEW f, NEW g
      PROVE  LET t == CallOf(a, b, c, d, e, f, g)
             IN  /\ CallShape(t) /\ t.at = a /\ t.lines = b /\ t.won = c /\ t.short = d
                 /\ t.total = e /\ t.todo = f /\ t.end = g
  BY DEF CallShape, CallOf
<1>2. Enters(s, u) = CallOf(u, s.lines, s.won, s.short, s.total, s.todo, s.end)
  BY CallUpdates DEF Enters
<1>3. WorksOff(s, u, v) = CallOf(u, s.lines, s.won, s.short, s.total, v, s.end)
  <2>1. PICK t : t = Enters(s, u)
    OBVIOUS
  <2>2. /\ CallShape(t) /\ t.at = u /\ t.lines = s.lines /\ t.won = s.won /\ t.short = s.short
        /\ t.total = s.total /\ t.todo = s.todo /\ t.end = s.end
    BY <1>1, <1>2, <2>1
  <2>3. [t EXCEPT !.todo = v] = CallOf(t.at, t.lines, t.won, t.short, t.total, v, t.end)
    BY <2>2, CallUpdates
  <2> QED
    BY <2>1, <2>2, <2>3 DEF WorksOff
<1>4. Wins(s, u) = CallOf(s.at, s.lines, Append(s.won, u), s.short, s.total, s.todo, s.end)
  BY CallUpdates DEF Wins
<1>5. Lacks(s, u) = CallOf(s.at, s.lines, s.won, Append(s.short, u), s.total, s.todo, s.end)
  BY CallUpdates DEF Lacks
<1>6. Billed(s, u) = CallOf(s.at, s.lines, s.won, s.short, u, s.todo, s.end)
  BY CallUpdates DEF Billed
<1> QED
  BY <1>2, <1>3, <1>4, <1>5, <1>6

LEMMA EndedCall ==
  ASSUME NEW s, CallShape(s), NEW how
  PROVE  [Enters(s, "idle") EXCEPT !.end = how]
         = CallOf("idle", s.lines, s.won, s.short, s.total, s.todo, how)
<1>1. PICK u : u = Enters(s, "idle")
  OBVIOUS
<1>2. u = CallOf("idle", s.lines, s.won, s.short, s.total, s.todo, s.end)
  BY <1>1, CallBecomes
<1>3. CallShape(u) /\ u.at = "idle" /\ u.lines = s.lines /\ u.won = s.won /\ u.short = s.short
      /\ u.total = s.total /\ u.todo = s.todo
  BY <1>2 DEF CallShape, CallOf
<1>4. CallShape(u)
  BY <1>3
<1>5. [u EXCEPT !.end = how] = CallOf(u.at, u.lines, u.won, u.short, u.total, u.todo, how)
  BY ONLY <1>4, CallUpdates
<1> QED
  BY <1>1, <1>3, <1>5

LEMMA BilledCall ==
  ASSUME NEW s, CallShape(s), NEW amount, NEW stage, NEW todo
  PROVE  WorksOff(Billed(s, amount), stage, todo)
         = CallOf(stage, s.lines, s.won, s.short, amount, todo, s.end)
<1>1. PICK u : u = Billed(s, amount)
  OBVIOUS
<1>2. u = CallOf(s.at, s.lines, s.won, s.short, amount, s.todo, s.end)
  BY <1>1, CallBecomes
<1>3. CallShape(u) /\ u.lines = s.lines /\ u.won = s.won /\ u.short = s.short /\ u.total = amount /\ u.end = s.end
  BY <1>2 DEF CallShape, CallOf
<1>4. WorksOff(u, stage, todo) = CallOf(stage, u.lines, u.won, u.short, u.total, todo, u.end)
  BY <1>3, CallBecomes
<1> QED
  BY <1>1, <1>3, <1>4

LEMMA WonLines ==
  ASSUME NEW w \in Seq(WonLine)
  PROVE  \A i \in DOMAIN w :
           /\ w[i] \in WonLine
           /\ w[i].id \in Nat /\ w[i].sku \in Ware /\ w[i].qty \in Nat /\ w[i].price \in Int
<1>1. \A i \in DOMAIN w : w[i] \in WonLine
  OBVIOUS
<1>2. \A x \in WonLine : x.id \in Nat /\ x.sku \in Ware /\ x.qty \in Nat /\ x.price \in Int
  BY DEF WonLine
<1> QED
  BY <1>1, <1>2

LEMMA CallOfType ==
  ASSUME NEW at \in Stage,
         NEW lines \in Seq(SagaLine), NEW won \in Seq(WonLine), NEW short \in Seq(SagaLine),
         NEW total, NEW todo \in Seq(WonLine),
         NEW end \in Outcome
  PROVE  CallType(CallOf(at, lines, won, short, total, todo, end))
BY DEF CallType, CallShape, CallOf

\* What happens to other holds, and holds with new ids, are no concern of a call.
LEMMA OtherCalls ==
  ASSUME SagaInv, NEW p \in Order, NEW H, NEW n \in Nat, n >= nextId,
         \A h \in H : h \in held \/ (h.id \in Nat /\ h.id >= nextId)
  PROVE  CallSound(saga[p], H, n)
<1>1. /\ CallSound(saga[p], held, nextId) /\ nextId \in Nat
      /\ saga[p].won \in Seq(WonLine)
  BY DEF SagaInv, SgTypeOK, CallType
<1>2. \A i \in DOMAIN saga[p].won : saga[p].won[i].id < nextId /\ saga[p].won[i].id \in Nat
  <2>1. \A i \in DOMAIN saga[p].won : saga[p].won[i].id < nextId
    BY <1>1 DEF CallSound
  <2>2. \A i \in DOMAIN saga[p].won : saga[p].won[i].id \in Nat
    BY <1>1, WonLines
  <2> QED
    BY <2>1, <2>2
<1>3. \A h \in H, i \in DOMAIN saga[p].won : h.id = saga[p].won[i].id => h \in held
  BY <1>1, <1>2
<1> QED
  BY <1>1, <1>2, <1>3 DEF CallSound

LEMMA HoldAdded ==
  ASSUME SagaInv, NEW h \in HoldRow, h.id = nextId, held' = held \cup {h}, NEW n \in Nat, n > nextId
  PROVE  /\ HoldsSound(held', n) /\ held' \subseteq HoldRow /\ IsFiniteSet(held')
         /\ \A g \in held' : g \in held \/ (g.id \in Nat /\ g.id >= nextId)
         /\ \A k : /\ UnitsOf(held', k) = UnitsOf(held, k) + (IF h.sku = k THEN h.qty ELSE 0)
                   /\ UnitsOf(held, k) \in Nat
<1>1. /\ held \subseteq HoldRow /\ IsFiniteSet(held) /\ nextId \in Nat /\ HoldsSound(held, nextId)
      /\ \A x \in held : x.qty \in Nat /\ x.id \in Nat
      /\ h.qty \in Nat
  BY DEF SagaInv, SgTypeOK, HoldRow
<1>2. \A x \in held : x.id < nextId
  BY <1>1 DEF HoldsSound
<1>3. h \notin held
  BY <1>1, <1>2
<1>4. HoldsSound(held', n)
  BY <1>1, <1>2 DEF HoldsSound
<1>5. IsFiniteSet(held')
  BY <1>1, FS_AddElement
<1>6. \A k : /\ UnitsOf(held', k) = UnitsOf(held, k) + (IF h.sku = k THEN h.qty ELSE 0)
             /\ UnitsOf(held, k) \in Nat
  BY <1>1, <1>3, UnitsOfAdd
<1> QED
  BY <1>1, <1>4, <1>5, <1>6

LEMMA HoldsDropped ==
  ASSUME SagaInv, NEW i, held' = {h \in held : h.id # i}
  PROVE  /\ HoldsSound(held', nextId) /\ held' \subseteq held /\ held' \subseteq HoldRow
         /\ IsFiniteSet(held')
         /\ \A k : UnitsOf(held, k) \in Nat /\ UnitsOf(held', k) \in Nat /\ UnitsOf(held', k) <= UnitsOf(held, k)
         /\ \A h \in held : \A k :
              h.id = i => UnitsOf(held', k) = UnitsOf(held, k) - (IF h.sku = k THEN h.qty ELSE 0)
<1>1. /\ held \subseteq HoldRow /\ IsFiniteSet(held) /\ nextId \in Nat /\ HoldsSound(held, nextId)
      /\ \A x \in held : x.qty \in Nat
  BY DEF SagaInv, SgTypeOK, HoldRow
<1>2. HoldsSound(held', nextId)
  BY <1>1 DEF HoldsSound
<1>3. IsFiniteSet(held')
  BY <1>1, FS_Subset
<1>4. ASSUME NEW h \in held, h.id = i
      PROVE  held' = held \ {h}
  BY <1>1, <1>4 DEF HoldsSound
<1>5. ASSUME NEW h \in held, h.id = i, NEW k
      PROVE  UnitsOf(held', k) = UnitsOf(held, k) - (IF h.sku = k THEN h.qty ELSE 0)
  BY <1>1, <1>4, <1>5, UnitsOfRemove
<1>6. ASSUME NEW k PROVE UnitsOf(held, k) \in Nat /\ UnitsOf(held', k) \in Nat
  BY <1>1, <1>3, UnitsOfNat
<1>7. ASSUME NEW k PROVE UnitsOf(held', k) <= UnitsOf(held, k)
  <2>1. CASE \E h \in held : h.id = i
    BY <1>1, <1>5, <1>6, <2>1
  <2>2. CASE ~ \E h \in held : h.id = i
    <3>1. held' = held
      BY <2>2
    <3> QED
      BY <1>6, <3>1
  <2> QED
    BY <2>1, <2>2
<1> QED
  BY <1>1, <1>2, <1>3, <1>5, <1>6, <1>7

\* One call takes a step; the world around it may change too.
LEMMA CallStep ==
  ASSUME SagaInv, NEW o \in Order, NEW t, saga' = [saga EXCEPT ![o] = t],
         CallType(t), CallSound(t, held', nextId'), rma[o] = "none", UNCHANGED <<rma, restocked>>,
         nextId' \in Nat, nextId' >= nextId, HoldsSound(held', nextId'),
         held' \subseteq HoldRow, IsFiniteSet(held'), waiting' \subseteq HoldRow,
         \A h \in held' : h \in held \/ (h.id \in Nat /\ h.id >= nextId),
         onShelf' \in [Ware -> Nat], committed' \in [Ware -> Nat], booksOpen' \in BOOLEAN,
         receivable' = [p \in Order |-> receivable'[p]], NothingPromisedTwice', Readers'
  PROVE  SagaInv'
<1>1. /\ saga'[o] = t /\ \A p \in Order \ {o} : saga'[p] = saga[p]
      /\ saga' = [p \in Order |-> saga'[p]]
  BY DEF SagaInv, SgTypeOK
<1>2. SgTypeOK'
  BY <1>1 DEF SagaInv, SgTypeOK
<1>3. ASSUME NEW p \in Order PROVE CallSound(saga'[p], held', nextId')
  <2>1. CASE p = o
    BY <1>1, <2>1
  <2>2. CASE p # o
    BY <1>1, <2>2, OtherCalls
  <2> QED
    BY <2>1, <2>2
<1>4. ASSUME NEW p \in Order PROVE ReturnSound(saga'[p], rma'[p], restocked'[p])
  BY <1>1 DEF SagaInv, ReturnSound
<1> QED
  BY <1>2, <1>3, <1>4 DEF SagaInv

-----------------------------------------------------------------------------
(* The steps of a run.                                                     *)

\* What is known of a call that is under way.
LEMMA Running ==
  ASSUME SagaInv, NEW o \in Order
  PROVE  /\ CallType(saga[o]) /\ CallShape(saga[o]) /\ CallSound(saga[o], held, nextId)
         /\ saga[o].at # "idle" => saga[o].end = "none"
         /\ saga[o].end # "Shipped" => rma[o] = "none"
BY DEF SagaInv, SgTypeOK, CallType, CallSound, ReturnSound

LEMMA SellableInt ==
  ASSUME SagaInv
  PROVE  \A k \in Ware : /\ Sellable(k) \in Int /\ onShelf[k] \in Nat /\ committed[k] \in Nat
                         /\ UnitsOf(held, k) \in Nat
<1>1. \A k \in Ware : onShelf[k] \in Nat /\ committed[k] \in Nat
  BY DEF SagaInv, SgTypeOK
<1>2. IsFiniteSet(held) /\ \A x \in held : x.qty \in Nat
  BY DEF SagaInv, SgTypeOK, HoldRow
<1>3. \A k \in Ware : UnitsOf(held, k) \in Nat
  BY <1>2, UnitsOfNat
<1> QED
  BY <1>1, <1>3 DEF Sellable

\* A call that is not about to hold what it has read.
LEMMA NotAboutToHold ==
  ASSUME NEW s, s.at \notin {"hold", "fill"}
  PROVE  Fits(s) /\ Fits(s)' /\ \A k : ~AboutToHold(s, k)
BY DEF Fits, AboutToHold

\* Stock that only comes back leaves what was promised, and what was read, covered.
LEMMA StockStays ==
  ASSUME SagaInv, crossed' = crossed,
         \A k \in Ware : Sellable(k)' \in Int /\ Sellable(k)' >= Sellable(k),
         \A p \in Order : saga'[p] = saga[p] \/ saga'[p].at \notin {"hold", "fill"}
  PROVE  NothingPromisedTwice' /\ Readers'
<1>1. \A k \in Ware : Sellable(k) \in Int
  BY SellableInt
<1>2. \A k \in Ware \ crossed : Sellable(k) >= 0
  BY DEF SagaInv, NothingPromisedTwice
<1>3. \A k \in Ware \ crossed' : Sellable(k)' >= 0
  BY <1>1, <1>2
<1>4. ASSUME NEW p \in Order PROVE Fits(saga[p])'
  <2>1. CASE saga'[p] = saga[p]
    <3>1. SUFFICES ASSUME NEW k \in Ware \ crossed', AboutToHold(saga'[p], k)
                   PROVE  Head(saga'[p].todo).qty <= Sellable(k)'
      BY DEF Fits, AboutToHold
    <3>2. PICK s : s = saga[p]
      OBVIOUS
    <3>3. CallType(s) /\ CallSound(s, held, nextId) /\ Fits(s) /\ AboutToHold(s, k)
      BY <2>1, <3>1, <3>2 DEF SagaInv, SgTypeOK, Readers
    <3>4. s.todo \in Seq(WonLine) /\ s.todo # <<>>
      BY <3>3 DEF CallType, CallSound, AboutToHold
    <3>5. Head(s.todo) \in WonLine
      BY <3>4
    <3>6. PICK q \in Nat : q = Head(s.todo).qty
      BY <3>5 DEF WonLine
    <3>7. q <= Sellable(k)
      BY <3>3, <3>6 DEF Fits
    <3>8. q <= Sellable(k)'
      BY <1>1, <3>7
    <3> QED
      BY <2>1, <3>2, <3>6, <3>8
  <2>2. CASE saga'[p].at \notin {"hold", "fill"}
    BY <2>2 DEF Fits, AboutToHold
  <2> QED
    BY <2>1, <2>2
<1> QED
  BY <1>3, <1>4 DEF NothingPromisedTwice, Readers

\* A step that leaves the stock alone.
LEMMA QuietStep ==
  ASSUME SagaInv, NEW o \in Order, NEW t, saga' = [saga EXCEPT ![o] = t],
         CallType(t), CallSound(t, held, nextId), Fits(t), saga[o].end # "Shipped",
         UNCHANGED <<engine, booksOpen, rma, restocked>>,
         \/ UNCHANGED receivable
         \/ \E v : receivable' = [receivable EXCEPT ![o] = v]
  PROVE  SagaInv'
<1>1. /\ UNCHANGED <<onShelf, committed, held, waiting, nextId, crossed, booksOpen, rma, restocked>>
  BY DEF engine
<1>2. /\ HoldsSound(held, nextId) /\ held \subseteq HoldRow /\ IsFiniteSet(held) /\ waiting \subseteq HoldRow
      /\ onShelf \in [Ware -> Nat] /\ committed \in [Ware -> Nat] /\ booksOpen \in BOOLEAN /\ nextId \in Nat
      /\ receivable = [p \in Order |-> receivable[p]] /\ NothingPromisedTwice
  BY DEF SagaInv, SgTypeOK
<1>3. receivable' = [p \in Order |-> receivable'[p]]
  BY <1>2
<1>4. NothingPromisedTwice' /\ Readers'
  <2>1. NothingPromisedTwice'
    BY <1>1, <1>2 DEF NothingPromisedTwice, Sellable, UnitsOf
  <2>2. \A k : Sellable(k)' = Sellable(k)
    BY <1>1 DEF Sellable
  <2>3. \A p \in Order : saga'[p] = IF p = o THEN t ELSE saga[p]
    BY DEF SagaInv, SgTypeOK
  <2>4. \A p \in Order : Fits(saga'[p])
    BY <2>3 DEF SagaInv, Readers
  <2>5. \A p \in Order : Fits(saga[p])'
    BY <1>1, <2>2, <2>4 DEF Fits, AboutToHold
  <2> QED
    BY <2>1, <2>5 DEF Readers
<1>5. rma[o] = "none"
  BY Running
<1>6. /\ nextId' \in Nat /\ nextId' >= nextId /\ HoldsSound(held', nextId') /\ held' \subseteq HoldRow
      /\ IsFiniteSet(held') /\ waiting' \subseteq HoldRow
      /\ \A h \in held' : h \in held \/ (h.id \in Nat /\ h.id >= nextId)
      /\ onShelf' \in [Ware -> Nat] /\ committed' \in [Ware -> Nat] /\ booksOpen' \in BOOLEAN
      /\ CallSound(t, held', nextId')
  BY <1>1, <1>2
<1> QED
  BY <1>1, <1>3, <1>4, <1>5, <1>6, CallStep

LEMMA PricedLines ==
  ASSUME SagaInv, NEW cart \in Carts
  PROVE  [i \in DOMAIN cart |-> PricedLine(cart[i])] \in Seq(SagaLine)
<1>1. cart \in Seq([sku : Ware, qty : Nat, price : Int])
  BY SagaAssumption
<1>2. ASSUME NEW l \in [sku : Ware, qty : Nat, price : Int] PROVE PricedLine(l) \in SagaLine
  <2>1. Sellable(l.sku) \in Int /\ l.qty \in Int /\ l.price \in Int /\ l.sku \in Ware
    BY SellableInt
  <2>2. ASSUME NEW stock \in Int, NEW qty \in Int, NEW price \in Int
        PROVE  PromoPrice(stock, qty, price) \in Int
    <3> DEFINE pct == (IF stock < 0 \/ stock >= Plenty THEN 15 ELSE IF stock >= Some THEN 5 ELSE 0)
                      + (IF qty >= 5 THEN 5 ELSE 0)
    <3>1. pct \in Int
      OBVIOUS
    <3>2. PromoPrice(stock, qty, price) = Max({0, price - (price * pct) \div 100})
      BY DEF PromoPrice
    <3> HIDE DEF pct
    <3>3. PICK y : y = price - (price * pct) \div 100
      OBVIOUS
    <3>4. y \in Int
      BY <3>1, <3>3
    <3>5. Max({0, y}) \in {0, y}
      <4>1. \A x \in Int : Max({x, y}) \in {x, y}
        BY <3>4, SmallerOfTwo
      <4>2. 0 \in Int
        OBVIOUS
      <4> QED
        BY <4>1, <4>2, Zenon
    <3> QED
      BY <3>2, <3>3, <3>4, <3>5
  <2>3. Min({l.price, PromoPrice(Sellable(l.sku), l.qty, l.price)}) \in Int
    <3>1. PICK y \in Int : y = PromoPrice(Sellable(l.sku), l.qty, l.price)
      BY <2>1, <2>2
    <3>2. PICK x \in Int : x = l.price
      BY <2>1
    <3>3. Min({x, y}) \in {x, y}
      BY SmallerOfTwo
    <3> QED
      BY <3>1, <3>2, <3>3
  <2>4. PICK p \in Int : PricedLine(l) = [l EXCEPT !.price = p]
    BY <2>1, <2>3 DEF PricedLine
  <2> QED
    BY <2>4 DEF SagaLine
<1>3. DOMAIN cart = 1..Len(cart) /\ Len(cart) \in Nat
  BY <1>1
<1> DEFINE priced == [i \in DOMAIN cart |-> PricedLine(cart[i])]
<1>4. \A i \in DOMAIN cart : PricedLine(cart[i]) \in SagaLine
  <2>1. \A i \in DOMAIN cart : cart[i] \in [sku : Ware, qty : Nat, price : Int]
    BY <1>1, <1>3, ElementOfSeq, Zenon
  <2> QED
    BY <1>2, <2>1, Zenon
<1>5. priced \in [1..Len(cart) -> SagaLine]
  BY <1>3, <1>4
<1> HIDE DEF priced
<1>6. priced \in Seq(SagaLine)
  BY <1>3, <1>5, SeqDef
<1> QED
  BY <1>6 DEF priced

LEMMA CheckoutSound ==
  ASSUME SagaInv, NEW o \in Order, NEW cart \in Carts, Checkout(o, cart)
  PROVE  SagaInv'
<1> DEFINE priced == [i \in DOMAIN cart |-> PricedLine(cart[i])]
           t == [Enters(NoSaga, "reserve") EXCEPT !.lines = priced]
<1>1. priced \in Seq(SagaLine)
  BY PricedLines
<1>2. /\ saga[o] = NoSaga /\ saga' = [saga EXCEPT ![o] = t]
      /\ UNCHANGED <<engine, booksOpen, receivable, rma, restocked>>
  BY DEF Checkout, SagaBecomes, world
<1> HIDE DEF priced
<1>3. t = CallOf("reserve", priced, <<>>, <<>>, 0, <<>>, "none")
  <2>1. PICK u : u = Enters(NoSaga, "reserve")
    OBVIOUS
  <2>2. u = CallOf("reserve", <<>>, <<>>, <<>>, 0, <<>>, "none")
    BY <2>1 DEF NoSaga, Enters, CallOf
  <2>3. [u EXCEPT !.lines = priced] = CallOf("reserve", priced, <<>>, <<>>, 0, <<>>, "none")
    BY <2>2 DEF CallOf
  <2> QED
    BY <2>1, <2>3
<1> HIDE DEF t
<1>4. CallType(t)
  <2>1. <<>> \in Seq(SagaLine) /\ <<>> \in Seq(WonLine)
    OBVIOUS
  <2> QED
    BY <1>1, <1>3, <2>1, CallOfType DEF Stage, Outcome
<1>5. CallSound(t, held, nextId) /\ Fits(t)
  BY <1>3 DEF CallSound, CallOf, Fits, AboutToHold
<1>6. saga[o].end # "Shipped"
  BY <1>2 DEF NoSaga
<1> QED
  BY <1>2, <1>4, <1>5, <1>6, QuietStep

\* The lines are reserved, and the call pays for them, parks or gives up.
LEMMA PaySound ==
  ASSUME SagaInv, NEW o \in Order, Pay(o) \/ ParkUnbilled(o) \/ PayFails(o)
  PROVE  SagaInv'
<1>0. /\ CallType(saga[o]) /\ CallShape(saga[o]) /\ CallSound(saga[o], held, nextId)
      /\ saga[o].at = "reserve" /\ saga[o].end = "none"
      /\ UNCHANGED <<engine, booksOpen, rma, restocked>>
  BY Running DEF Pay, ParkUnbilled, PayFails, world
<1>1. PICK s : s = saga[o]
  OBVIOUS
<1>2. /\ s.lines \in Seq(SagaLine) /\ s.won \in Seq(WonLine) /\ s.short \in Seq(SagaLine) /\ s.todo \in Seq(WonLine)
  BY <1>0, <1>1 DEF CallType
<1>3. CASE Pay(o)
  <2> DEFINE t == WorksOff(Billed(s, Value(s.won)), "confirm", s.won)
  <2>1. saga' = [saga EXCEPT ![o] = t] /\ \E v : receivable' = [receivable EXCEPT ![o] = v]
    BY <1>1, <1>3 DEF Pay, SagaBecomes, Posts
  <2>2. t = CallOf("confirm", s.lines, s.won, s.short, Value(s.won), s.won, "none")
    BY <1>0, <1>1, BilledCall
  <2> HIDE DEF t
  <2>3. CallType(t)
    BY <1>2, <2>2, CallOfType DEF Stage, Outcome
  <2>4. CallSound(t, held, nextId) /\ Fits(t)
    BY <1>0, <1>1, <2>2 DEF CallSound, CallOf, Fits, AboutToHold
  <2> QED
    BY <1>0, <2>1, <2>3, <2>4, QuietStep
<1>4. CASE ParkUnbilled(o)
  <2> DEFINE t == [Enters(s, "idle") EXCEPT !.end = "Backordered"]
  <2>1. saga' = [saga EXCEPT ![o] = t] /\ UNCHANGED receivable
    BY <1>1, <1>4 DEF ParkUnbilled, SagaBecomes, Ends
  <2>2. t = CallOf("idle", s.lines, s.won, s.short, s.total, s.todo, "Backordered")
    BY <1>0, <1>1, EndedCall
  <2> HIDE DEF t
  <2>3. CallType(t)
    BY <1>2, <2>2, CallOfType DEF Stage, Outcome
  <2>4. CallSound(t, held, nextId) /\ Fits(t)
    BY <1>0, <1>1, <2>2 DEF CallSound, CallOf, Fits, AboutToHold
  <2> QED
    BY <1>0, <2>1, <2>3, <2>4, QuietStep
<1>5. CASE PayFails(o)
  <2> DEFINE t == WorksOff(s, "release", s.won)
  <2>1. saga' = [saga EXCEPT ![o] = t] /\ UNCHANGED receivable
    BY <1>1, <1>5 DEF PayFails, SagaBecomes
  <2>2. t = CallOf("release", s.lines, s.won, s.short, s.total, s.won, s.end)
    BY <1>0, <1>1, CallBecomes
  <2> HIDE DEF t
  <2>3. CallType(t)
    BY <1>0, <1>1, <1>2, <2>2, CallOfType DEF Stage, Outcome
  <2>4. CallSound(t, held, nextId) /\ Fits(t)
    BY <1>0, <1>1, <2>2 DEF CallSound, CallOf, Fits, AboutToHold
  <2> QED
    BY <1>0, <2>1, <2>3, <2>4, QuietStep
<1> QED
  BY <1>3, <1>4, <1>5

\* A call wins a hold with a new id.
LEMMA WinsHold ==
  ASSUME SagaInv, NEW o \in Order, NEW h \in HoldRow, h.id = nextId, held' = held \cup {h},
         NEW n \in Nat, n > nextId,
         NEW new \in WonLine, new.id = nextId, new.sku = h.sku, new.qty = h.qty,
         NEW t, t.at = "promote" \/ (t.at = "short" /\ t.todo # <<>> /\ t.lines # <<>>
                                        /\ Head(t.todo).qty <= Head(t.lines).qty),
         t.end = "none", t.won = Append(saga[o].won, new)
  PROVE  CallSound(t, held', n) /\ t.won \in Seq(WonLine)
<1>1. PICK won : won = saga[o].won
  OBVIOUS
<1>2. /\ won \in Seq(WonLine) /\ CallSound(saga[o], held, nextId) /\ nextId \in Nat
      /\ HoldsSound(held, nextId) /\ \A g \in held : g.id \in Nat
  BY <1>1 DEF SagaInv, SgTypeOK, CallType, HoldRow
<1>4. /\ t.won = Append(won, new) /\ DOMAIN t.won = 1..Len(won) + 1 /\ Len(won) \in Nat
      /\ DOMAIN won = 1..Len(won) /\ t.won[Len(won) + 1] = new
      /\ \A i \in 1..Len(won) : t.won[i] = won[i]
  BY <1>1, <1>2
<1>5. t.won \in Seq(WonLine)
  <2>1. won \in Seq(WonLine) /\ new \in WonLine
    BY <1>2
  <2>2. Append(won, new) \in Seq(WonLine)
    BY <2>1, AppendProperties
  <2> QED
    BY <1>4, <2>2
<1>6. /\ \A i \in DOMAIN won : won[i].id < nextId /\ won[i].id \in Nat
      /\ \A g \in held : g.id < nextId
  <2>1. \A i \in DOMAIN won : won[i].id \in Nat
    BY <1>2, WonLines
  <2> QED
    BY <1>1, <1>2, <2>1 DEF CallSound, HoldsSound
<1>7. ASSUME NEW i \in DOMAIN t.won
      PROVE  t.won[i].id < n /\ \A g \in held' :
               g.id = t.won[i].id => g.sku = t.won[i].sku /\ g.qty = t.won[i].qty
  <2>1. CASE i \in 1..Len(won)
    <3>1. t.won[i] = won[i] /\ i \in DOMAIN won
      BY <1>4, <2>1
    <3>2. won[i].id < nextId /\ won[i].id \in Nat
      BY <1>6, <3>1
    <3>3. \A g \in held : g.id = won[i].id => g.sku = won[i].sku /\ g.qty = won[i].qty
      BY <1>1, <1>2, <3>1 DEF CallSound
    <3>4. h.id # won[i].id
      BY <1>2, <3>2
    <3> QED
      BY <1>2, <3>1, <3>2, <3>3, <3>4
  <2>2. CASE i = Len(won) + 1
    <3>1. t.won[i] = new
      BY <1>4, <2>2
    <3>2. \A g \in held : g.id # nextId
      BY <1>2, <1>6
    <3> QED
      BY <1>2, <3>1, <3>2
  <2> QED
    BY <1>4, <2>1, <2>2
<1> QED
  BY <1>5, <1>7 DEF CallSound

\* The next line's stock is read: a reading that is not oversold is there.
LEMMA ReadSound ==
  ASSUME SagaInv, NEW o \in Order, ReadStock(o)
  PROVE  SagaInv'
<1>1. PICK s : s = saga[o]
  OBVIOUS
<1>2. /\ CallType(s) /\ CallShape(s) /\ CallSound(s, held, nextId) /\ s.end = "none"
      /\ s.at = "reserve" /\ s.lines # <<>>
      /\ s.lines \in Seq(SagaLine) /\ s.won \in Seq(WonLine)
      /\ s.short \in Seq(SagaLine) /\ s.todo \in Seq(WonLine)
      /\ UNCHANGED <<engine, booksOpen, receivable, rma, restocked>>
  BY <1>1, Running DEF ReadStock, CallType, world
<1>3. PICK l \in SagaLine : l = Head(s.lines)
  BY <1>2
<1>4. l.sku \in Ware /\ l.qty \in Nat /\ l.price \in Int
  BY DEF SagaLine
<1>5. PICK x \in Int : x = Sellable(l.sku)
  BY <1>4, SellableInt
<1>6. PICK got \in Nat : got = Reservable(l) /\ got <= l.qty /\ (x >= 0 => got <= x)
  <2>1. CASE x < 0
    BY <1>4, <1>5, <2>1 DEF Reservable
  <2>2. CASE x >= 0
    <3>1. PICK q \in Nat : q = l.qty
      BY <1>4
    <3>2. Min({q, x}) \in {q, x} /\ Min({q, x}) <= q /\ Min({q, x}) <= x
      BY SmallerOfTwo
    <3>3. Reservable(l) = Min({q, x})
      BY <1>5, <2>2, <3>1 DEF Reservable
    <3> QED
      BY <2>2, <3>1, <3>2, <3>3
  <2> QED
    BY <2>1, <2>2
<1>7. PICK stage \in {"hold", "short"} : stage = IF got > 0 THEN "hold" ELSE "short"
  OBVIOUS
<1>8. PICK w \in WonLine : /\ w = [id |-> 0, sku |-> l.sku, qty |-> got, price |-> l.price]
                           /\ w.sku = l.sku /\ w.qty = got
  <2>1. PICK v : v = [id |-> 0, sku |-> l.sku, qty |-> got, price |-> l.price]
    OBVIOUS
  <2>2. v \in WonLine
    BY <1>4, <2>1 DEF WonLine
  <2>3. v.sku = l.sku /\ v.qty = got
    BY <2>1
  <2> QED
    BY <2>1, <2>2, <2>3
<1>9. PICK t : t = WorksOff(s, stage, <<w>>)
  OBVIOUS
<1>10. saga' = [saga EXCEPT ![o] = t]
  BY <1>1, <1>3, <1>6, <1>7, <1>8, <1>9 DEF ReadStock, SagaBecomes
<1>11. t = CallOf(stage, s.lines, s.won, s.short, s.total, <<w>>, "none")
  BY <1>2, <1>9, CallBecomes
<1>12. <<w>> \in Seq(WonLine) /\ <<w>> # <<>> /\ Head(<<w>>) = w
  OBVIOUS
<1>13. CallType(t)
  BY <1>2, <1>7, <1>11, <1>12, CallOfType DEF Stage, Outcome
<1>14. t.at = stage /\ t.lines = s.lines /\ t.won = s.won /\ t.todo = <<w>> /\ t.end = "none"
  BY <1>11 DEF CallOf
<1>15. CallSound(t, held, nextId)
  <2>1. t.todo # <<>> /\ t.lines # <<>> /\ Head(t.todo).qty <= Head(t.lines).qty
    BY <1>2, <1>3, <1>6, <1>8, <1>12, <1>14
  <2> QED
    BY <1>2, <1>7, <1>14, <2>1 DEF CallSound
<1>16. Fits(t)
  <2>1. SUFFICES ASSUME NEW k \in Ware \ crossed, AboutToHold(t, k) PROVE Head(t.todo).qty <= Sellable(k)
    BY DEF Fits
  <2>2. Head(t.todo) = w
    BY <1>12, <1>14
  <2>3. k = l.sku
    BY <1>8, <2>1, <2>2 DEF AboutToHold
  <2>4. x >= 0
    BY <1>5, <2>3 DEF SagaInv, NothingPromisedTwice
  <2> QED
    BY <1>5, <1>6, <1>8, <2>2, <2>3, <2>4
<1> QED
  BY <1>1, <1>2, <1>10, <1>13, <1>15, <1>16, QuietStep

\* A backorder is picked: the stock covers it.
LEMMA PickSound ==
  ASSUME SagaInv, NEW o \in Order, NEW b \in Fillable, Promote(o, b)
  PROVE  SagaInv'
<1>1. PICK s : s = saga[o]
  OBVIOUS
<1>2. /\ CallType(s) /\ CallShape(s) /\ CallSound(s, held, nextId) /\ s.end = "none"
      /\ s.at = "promote"
      /\ s.lines \in Seq(SagaLine) /\ s.won \in Seq(WonLine)
      /\ s.short \in Seq(SagaLine) /\ s.todo \in Seq(WonLine)
      /\ UNCHANGED <<engine, booksOpen, receivable, rma, restocked>>
  BY <1>1, Running DEF Promote, CallType, world
<1>3. waiting \subseteq HoldRow
  BY DEF SagaInv, SgTypeOK
<1>4. b \in HoldRow /\ Sellable(b.sku) >= b.qty
  BY <1>3 DEF Fillable
<1>5. b.id \in Nat /\ b.sku \in Ware /\ b.qty \in Nat
  BY <1>4 DEF HoldRow
<1>6. PICK price \in Int : price = PriceFor(s.short, b.sku)
  <2> DEFINE own == {i \in DOMAIN s.short : s.short[i].sku = b.sku}
  <2>1. PriceFor(s.short, b.sku) = IF own = {} THEN 0 ELSE s.short[Max(own)].price
    BY DEF PriceFor
  <2>2. own \subseteq 1..Len(s.short) /\ Len(s.short) \in Nat /\ own \subseteq DOMAIN s.short
    BY <1>2
  <2> HIDE DEF own
  <2>3. CASE own # {}
    <3>1. Max(own) \in DOMAIN s.short /\ Max(own) \in 1..Len(s.short)
      <4>1. own \subseteq 0..Len(s.short)
        BY <2>2
      <4> QED
        BY <2>2, <2>3, <4>1, Greatest
    <3>2. s.short[Max(own)] \in SagaLine
      BY <1>2, <3>1, ElementOfSeq
    <3> QED
      BY <2>1, <2>3, <3>2 DEF SagaLine
  <2>4. CASE own = {}
    BY <2>1, <2>4
  <2> QED
    BY <2>3, <2>4
<1>7. PICK w \in WonLine : /\ w = [id |-> b.id, sku |-> b.sku, qty |-> b.qty, price |-> price]
                           /\ w.sku = b.sku /\ w.qty = b.qty
  <2>1. PICK v : v = [id |-> b.id, sku |-> b.sku, qty |-> b.qty, price |-> price]
    OBVIOUS
  <2>2. v \in WonLine
    BY <1>5, <2>1 DEF WonLine
  <2>3. v.sku = b.sku /\ v.qty = b.qty
    BY <2>1
  <2> QED
    BY <2>1, <2>2, <2>3
<1>8. PICK t : t = WorksOff(s, "fill", <<w>>)
  OBVIOUS
<1>9. saga' = [saga EXCEPT ![o] = t]
  BY <1>1, <1>6, <1>7, <1>8 DEF Promote, SagaBecomes
<1>10. t = CallOf("fill", s.lines, s.won, s.short, s.total, <<w>>, "none")
  BY <1>2, <1>8, CallBecomes
<1>11. <<w>> \in Seq(WonLine) /\ <<w>> # <<>> /\ Head(<<w>>) = w
  OBVIOUS
<1>12. CallType(t)
  BY <1>2, <1>10, <1>11, CallOfType DEF Stage, Outcome
<1>13. t.at = "fill" /\ t.won = s.won /\ t.todo = <<w>> /\ t.end = "none"
  BY <1>10 DEF CallOf
<1>14. CallSound(t, held, nextId)
  BY <1>2, <1>11, <1>13 DEF CallSound
<1>15. Fits(t)
  BY <1>4, <1>7, <1>11, <1>13 DEF Fits, AboutToHold
<1> QED
  BY <1>1, <1>2, <1>9, <1>12, <1>14, <1>15, QuietStep

\* What was read is held: if nobody held of the SKU in between, it is still there, and
\* whoever else stands before a hold of the SKU is now crossed.
LEMMA StockTaken ==
  ASSUME SagaInv, NEW o \in Order, NEW w \in WonLine, w = Head(saga[o].todo), AboutToHold(saga[o], w.sku),
         UNCHANGED <<onShelf, committed>>, Crossed(o, w.sku),
         \A k \in Ware : /\ UnitsOf(held', k) = UnitsOf(held, k) + (IF w.sku = k THEN w.qty ELSE 0)
                         /\ UnitsOf(held, k) \in Nat,
         NEW t, saga' = [saga EXCEPT ![o] = t], t.at \notin {"hold", "fill"}
  PROVE  NothingPromisedTwice' /\ Readers'
<1>1. w.sku \in Ware /\ w.qty \in Nat
  BY DEF WonLine
<1>2. ASSUME NEW k \in Ware
      PROVE  Sellable(k) \in Int /\ Sellable(k)' = Sellable(k) - (IF w.sku = k THEN w.qty ELSE 0)
  <2>1. Sellable(k) \in Int /\ onShelf[k] \in Nat /\ committed[k] \in Nat /\ UnitsOf(held, k) \in Nat
    BY SellableInt
  <2>2. Sellable(k) = onShelf[k] - committed[k] - UnitsOf(held, k)
    BY DEF Sellable
  <2>3. Sellable(k)' = onShelf[k] - committed[k] - UnitsOf(held', k)
    BY DEF Sellable
  <2> QED
    BY <1>1, <2>1, <2>2, <2>3
<1>3. crossed \subseteq crossed'
  BY DEF Crossed
<1>4. \A p \in Order \ {o} : AboutToHold(saga[p], w.sku) => w.sku \in crossed'
  BY DEF Crossed
<1>5. \A k \in Ware \ crossed : Sellable(k) >= 0
  BY DEF SagaInv, NothingPromisedTwice
<1>6. w.sku \notin crossed' => w.qty <= Sellable(w.sku)
  BY <1>1, <1>3 DEF SagaInv, Readers, Fits
<1>7. ASSUME NEW k \in Ware, k \notin crossed' PROVE Sellable(k)' >= 0
  <2>1. CASE k = w.sku
    BY <1>1, <1>2, <1>6, <1>7, <2>1
  <2>2. CASE k # w.sku
    BY <1>2, <1>3, <1>5, <1>7, <2>2
  <2> QED
    BY <2>1, <2>2
<1>8. \A p \in Order : saga'[p] = IF p = o THEN t ELSE saga[p]
  BY DEF SagaInv, SgTypeOK
<1>9. ASSUME NEW p \in Order PROVE Fits(saga[p])'
  <2>1. CASE p = o
    BY <1>8, <2>1 DEF Fits, AboutToHold
  <2>2. CASE p # o
    <3>1. saga'[p] = saga[p]
      BY <1>8, <2>2
    <3>2. SUFFICES ASSUME NEW k \in Ware, k \notin crossed', AboutToHold(saga[p], k)
                   PROVE  Head(saga[p].todo).qty <= Sellable(k)'
      BY <3>1 DEF Fits, AboutToHold
    <3>3. k # w.sku
      BY <1>4, <2>2, <3>2
    <3>4. Sellable(k)' = Sellable(k)
      BY <1>2, <3>3
    <3>5. Head(saga[p].todo).qty <= Sellable(k)
      BY <1>3, <3>2 DEF SagaInv, Readers, Fits
    <3> QED
      BY <3>4, <3>5
  <2> QED
    BY <2>1, <2>2
<1> QED
  BY <1>7, <1>9 DEF NothingPromisedTwice, Readers

LEMMA TakeSound ==
  ASSUME SagaInv, NEW o \in Order, HoldLine(o) \/ Fill(o)
  PROVE  SagaInv'
<1>1. PICK s : s = saga[o]
  OBVIOUS
<1>2. /\ CallType(s) /\ CallShape(s) /\ CallSound(s, held, nextId) /\ rma[o] = "none" /\ s.end = "none"
      /\ s.at \in {"hold", "fill"}
      /\ s.lines \in Seq(SagaLine) /\ s.won \in Seq(WonLine)
      /\ s.short \in Seq(SagaLine) /\ s.todo \in Seq(WonLine)
      /\ UNCHANGED <<onShelf, committed, booksOpen, receivable, rma, restocked>>
  BY <1>1, Running DEF HoldLine, Fill, CallType, world
<1>3. /\ nextId \in Nat /\ waiting \subseteq HoldRow /\ booksOpen \in BOOLEAN
      /\ onShelf \in [Ware -> Nat] /\ committed \in [Ware -> Nat]
      /\ receivable = [p \in Order |-> receivable[p]]
  BY DEF SagaInv, SgTypeOK
<1>4. s.todo # <<>>
  BY <1>2 DEF CallSound
<1>5. PICK w \in WonLine : w = Head(s.todo)
  BY <1>2, <1>4
<1>6. w.sku \in Ware /\ w.qty \in Nat /\ w.price \in Int
  BY DEF WonLine
<1>7. PICK new \in WonLine : /\ new = Won(s) /\ new.id = nextId /\ new.sku = w.sku /\ new.qty = w.qty
                             /\ new = [w EXCEPT !.id = nextId]
  <2>1. PICK v : v = [w EXCEPT !.id = nextId]
    OBVIOUS
  <2>2. v = Won(s)
    BY <1>5, <2>1 DEF Won
  <2>3. v \in WonLine /\ v.id = nextId /\ v.sku = w.sku /\ v.qty = w.qty
    BY <1>3, <2>1 DEF WonLine
  <2> QED
    BY <2>1, <2>2, <2>3
<1>8. PICK h \in HoldRow : h = Held(new) /\ h.id = nextId /\ h.sku = new.sku /\ h.qty = new.qty
  <2>1. PICK v : v = Held(new)
    OBVIOUS
  <2>2. v = [id |-> new.id, sku |-> new.sku, qty |-> new.qty]
    BY <2>1 DEF Held
  <2>3. v \in HoldRow
    BY <1>3, <1>6, <1>7, <2>2 DEF HoldRow
  <2>4. v.id = nextId /\ v.sku = new.sku /\ v.qty = new.qty
    BY <1>7, <2>2
  <2> QED
    BY <2>1, <2>3, <2>4
<1>9. PICK n \in Nat : n = nextId + 1 /\ n > nextId
  BY <1>3
<1>10. PICK stage \in {"short", "promote"} : stage = IF s.at = "hold" THEN "short" ELSE "promote"
  OBVIOUS
<1>11. PICK t : t = Enters(Wins(s, new), stage)
  OBVIOUS
<1>12. /\ held' = held \cup {h} /\ nextId' = n /\ Crossed(o, w.sku)
       /\ saga' = [saga EXCEPT ![o] = t] /\ waiting' \subseteq HoldRow
  <2>1. CASE HoldLine(o)
    BY <1>1, <1>3, <1>5, <1>7, <1>8, <1>9, <1>10, <1>11, <2>1 DEF HoldLine, SagaBecomes
  <2>2. CASE Fill(o)
    BY <1>1, <1>3, <1>5, <1>7, <1>8, <1>9, <1>10, <1>11, <2>2 DEF Fill, SagaBecomes
  <2> QED
    BY <2>1, <2>2
<1>13. t = CallOf(stage, s.lines, Append(s.won, new), s.short, s.total, s.todo, "none")
  <2>1. PICK u : u = Wins(s, new)
    OBVIOUS
  <2>2. u = CallOf(s.at, s.lines, Append(s.won, new), s.short, s.total, s.todo, "none")
    BY <1>2, <2>1, CallBecomes
  <2>3. CallShape(u) /\ u.lines = s.lines /\ u.won = Append(s.won, new) /\ u.short = s.short
        /\ u.total = s.total /\ u.todo = s.todo /\ u.end = "none"
    BY <2>2 DEF CallShape, CallOf
  <2>4. Enters(u, stage) = CallOf(stage, u.lines, u.won, u.short, u.total, u.todo, u.end)
    BY <2>3, CallBecomes
  <2> QED
    BY <1>11, <2>1, <2>3, <2>4
<1>14. t.at = stage /\ t.end = "none" /\ t.won = Append(saga[o].won, new) /\ t.todo = s.todo /\ t.lines = s.lines
  BY <1>1, <1>13 DEF CallOf
<1>15. \/ t.at = "promote"
       \/ t.at = "short" /\ t.todo # <<>> /\ t.lines # <<>> /\ Head(t.todo).qty <= Head(t.lines).qty
  BY <1>2, <1>10, <1>14 DEF CallSound
<1>16. CallSound(t, held', n) /\ t.won \in Seq(WonLine)
  <2>1. t.end = "none" /\ t.won = Append(saga[o].won, new)
    BY <1>14
  <2> QED
    BY <1>7, <1>8, <1>9, <1>12, <1>15, <2>1, WinsHold
<1>17. CallType(t)
  <2>1. Append(s.won, new) \in Seq(WonLine)
    BY <1>1, <1>14, <1>16
  <2> QED
    BY <1>2, <1>10, <1>13, <2>1, CallOfType DEF Stage, Outcome
<1>18. /\ HoldsSound(held', n) /\ held' \subseteq HoldRow /\ IsFiniteSet(held')
       /\ \A g \in held' : g \in held \/ (g.id \in Nat /\ g.id >= nextId)
       /\ \A k : /\ UnitsOf(held', k) = UnitsOf(held, k) + (IF h.sku = k THEN h.qty ELSE 0)
                 /\ UnitsOf(held, k) \in Nat
  BY <1>8, <1>9, <1>12, HoldAdded
<1>19. NothingPromisedTwice' /\ Readers'
  <2>1. w = Head(saga[o].todo) /\ AboutToHold(saga[o], w.sku)
    BY <1>1, <1>2, <1>5 DEF AboutToHold
  <2>2. \A k \in Ware : /\ UnitsOf(held', k) = UnitsOf(held, k) + (IF w.sku = k THEN w.qty ELSE 0)
                        /\ UnitsOf(held, k) \in Nat
    BY <1>7, <1>8, <1>18
  <2>3. UNCHANGED <<onShelf, committed>> /\ t.at \notin {"hold", "fill"}
    BY <1>2, <1>10, <1>14
  <2> QED
    BY <1>12, <2>1, <2>2, <2>3, StockTaken
<1>20. nextId' \in Nat /\ nextId' >= nextId /\ CallSound(t, held', nextId') /\ HoldsSound(held', nextId')
  BY <1>3, <1>9, <1>12, <1>16, <1>18
<1>21. /\ onShelf' \in [Ware -> Nat] /\ committed' \in [Ware -> Nat] /\ booksOpen' \in BOOLEAN
       /\ receivable' = [p \in Order |-> receivable'[p]] /\ UNCHANGED <<rma, restocked>>
  BY <1>2, <1>3
<1> QED
  BY <1>2, <1>12, <1>17, <1>18, <1>19, <1>20, <1>21, CallStep

\* What a line is short of waits.
LEMMA RestSound ==
  ASSUME SagaInv, NEW o \in Order, BackorderRest(o)
  PROVE  SagaInv'
<1>1. PICK s : s = saga[o]
  OBVIOUS
<1>2. /\ CallType(s) /\ CallShape(s) /\ CallSound(s, held, nextId) /\ rma[o] = "none" /\ s.end = "none"
      /\ s.at = "short"
      /\ s.lines \in Seq(SagaLine) /\ s.won \in Seq(WonLine)
      /\ s.short \in Seq(SagaLine) /\ s.todo \in Seq(WonLine)
      /\ UNCHANGED <<onShelf, committed, held, crossed, booksOpen, receivable, rma, restocked>>
  BY <1>1, Running DEF BackorderRest, CallType, world
<1>3. /\ nextId \in Nat /\ waiting \subseteq HoldRow /\ booksOpen \in BOOLEAN
      /\ onShelf \in [Ware -> Nat] /\ committed \in [Ware -> Nat]
      /\ receivable = [p \in Order |-> receivable[p]]
      /\ held \subseteq HoldRow /\ IsFiniteSet(held) /\ HoldsSound(held, nextId)
  BY DEF SagaInv, SgTypeOK
<1>4. s.todo # <<>> /\ s.lines # <<>> /\ Head(s.todo).qty <= Head(s.lines).qty
  BY <1>2 DEF CallSound
<1>5. PICK l \in SagaLine : l = Head(s.lines)
  BY <1>2, <1>4
<1>6. PICK w \in WonLine : w = Head(s.todo)
  BY <1>2, <1>4
<1>7. l.sku \in Ware /\ l.qty \in Nat /\ w.qty \in Nat
  BY DEF SagaLine, WonLine
<1>8. PICK rest \in Nat : rest = l.qty - w.qty
  BY <1>4, <1>5, <1>6, <1>7
<1>9. PICK lacking \in SagaLine : lacking = [l EXCEPT !.qty = rest]
  BY DEF SagaLine
<1>10. PICK u : u = WorksOff(s, "reserve", <<>>)
  OBVIOUS
<1>11. u = CallOf("reserve", s.lines, s.won, s.short, s.total, <<>>, "none")
  BY <1>2, <1>10, CallBecomes
<1>12. u.lines = s.lines
  BY <1>11 DEF CallOf
<1>13. PICK passed : passed = [u EXCEPT !.lines = Tail(@)]
  OBVIOUS
<1>14. passed = CallOf("reserve", Tail(s.lines), s.won, s.short, s.total, <<>>, "none")
  BY <1>11, <1>12, <1>13 DEF CallOf
<1>15. CallShape(passed) /\ passed.at = "reserve" /\ passed.lines = Tail(s.lines) /\ passed.won = s.won
       /\ passed.short = s.short /\ passed.total = s.total /\ passed.todo = <<>> /\ passed.end = "none"
  BY <1>14 DEF CallShape, CallOf
<1>16. Lacks(passed, lacking) = CallOf("reserve", Tail(s.lines), s.won, Append(s.short, lacking), s.total, <<>>, "none")
  BY <1>15, CallBecomes
<1>17. /\ Tail(s.lines) \in Seq(SagaLine) /\ <<>> \in Seq(WonLine) /\ Append(s.short, lacking) \in Seq(SagaLine)
  BY <1>2, <1>4
<1>18. PICK t : t = IF rest = 0 THEN passed ELSE Lacks(passed, lacking)
  OBVIOUS
<1>19. /\ saga' = [saga EXCEPT ![o] = t]
       /\ waiting' \subseteq HoldRow /\ nextId' \in Nat /\ nextId' >= nextId
  <2>1. CASE rest = 0
    BY <1>1, <1>3, <1>5, <1>6, <1>8, <1>10, <1>13, <1>18, <2>1 DEF BackorderRest, SagaBecomes
  <2>2. CASE rest # 0
    <3>1. /\ saga' = [saga EXCEPT ![o] = t] /\ nextId' = nextId + 1
          /\ waiting' = waiting \cup {[id |-> nextId, sku |-> l.sku, qty |-> rest]}
      BY <1>1, <1>5, <1>6, <1>8, <1>9, <1>10, <1>13, <1>18, <2>2 DEF BackorderRest, SagaBecomes
    <3>2. [id |-> nextId, sku |-> l.sku, qty |-> rest] \in HoldRow
      BY <1>3, <1>7 DEF HoldRow
    <3> QED
      BY <1>3, <3>1, <3>2
  <2> QED
    BY <2>1, <2>2
<1>20. PICK short \in Seq(SagaLine) : t = CallOf("reserve", Tail(s.lines), s.won, short, s.total, <<>>, "none")
  <2>1. CASE rest = 0
    BY <1>2, <1>14, <1>18, <2>1
  <2>2. CASE rest # 0
    BY <1>16, <1>17, <1>18, <2>2
  <2> QED
    BY <2>1, <2>2
<1>21. CallType(t)
  BY <1>2, <1>17, <1>20, CallOfType DEF Stage, Outcome
<1>22. t.at = "reserve" /\ t.end = "none" /\ t.won = s.won
  BY <1>20 DEF CallOf
<1>23. CallSound(s, held', nextId')
  BY <1>1, <1>2, <1>19, OtherCalls
<1>24. CallSound(t, held', nextId')
  BY <1>22, <1>23 DEF CallSound
<1>25. NothingPromisedTwice' /\ Readers'
  <2>1. ASSUME NEW k \in Ware PROVE Sellable(k)' \in Int /\ Sellable(k)' >= Sellable(k)
    <3>1. Sellable(k) \in Int
      BY SellableInt
    <3>2. Sellable(k)' = Sellable(k)
      BY <1>2 DEF Sellable
    <3> QED
      BY <3>1, <3>2
  <2>2. \A p \in Order : saga'[p] = saga[p] \/ saga'[p].at \notin {"hold", "fill"}
    BY <1>19, <1>22 DEF SagaInv, SgTypeOK
  <2> QED
    BY <1>2, <2>1, <2>2, StockStays
<1>26. /\ HoldsSound(held', nextId') /\ held' \subseteq HoldRow /\ IsFiniteSet(held')
       /\ \A h \in held' : h \in held \/ (h.id \in Nat /\ h.id >= nextId)
       /\ onShelf' \in [Ware -> Nat] /\ committed' \in [Ware -> Nat] /\ booksOpen' \in BOOLEAN
       /\ receivable' = [p \in Order |-> receivable'[p]] /\ UNCHANGED <<rma, restocked>>
  <2>1. HoldsSound(held, nextId')
    BY <1>3, <1>19 DEF HoldsSound, HoldRow
  <2> QED
    BY <1>2, <1>3, <2>1
<1> QED
  BY <1>2, <1>19, <1>21, <1>24, <1>25, <1>26, CallStep

\* A line that cannot be reserved ends the call, and leaves what it holds.
LEMMA FailSound ==
  ASSUME SagaInv, NEW o \in Order, ReserveFails(o)
  PROVE  SagaInv'
<1>1. PICK s : s = saga[o]
  OBVIOUS
<1>2. /\ CallType(s) /\ CallShape(s) /\ CallSound(s, held, nextId) /\ s.end = "none"
      /\ s.lines \in Seq(SagaLine) /\ s.won \in Seq(WonLine)
      /\ s.short \in Seq(SagaLine) /\ s.todo \in Seq(WonLine)
      /\ UNCHANGED <<engine, booksOpen, receivable, rma, restocked>>
  BY <1>1, Running DEF ReserveFails, CallType, world
<1>3. PICK t : t = [Enters(s, "idle") EXCEPT !.end = "Failed"]
  OBVIOUS
<1>4. t = CallOf("idle", s.lines, s.won, s.short, s.total, s.todo, "Failed")
  BY <1>2, <1>3, EndedCall
<1>5. saga' = [saga EXCEPT ![o] = t]
  BY <1>1, <1>3 DEF ReserveFails, SagaBecomes, Ends
<1>6. CallType(t)
  BY <1>2, <1>4, CallOfType DEF Stage, Outcome
<1>7. CallSound(t, held, nextId) /\ Fits(t)
  BY <1>2, <1>4 DEF CallSound, CallOf, Fits, AboutToHold
<1> QED
  BY <1>1, <1>2, <1>5, <1>6, <1>7, QuietStep

\* A promotion begins and ends without a change to the stock.
LEMMA FulfilSound ==
  ASSUME SagaInv, NEW o \in Order, StartFulfil(o) \/ EndPromotion(o)
  PROVE  SagaInv'
<1>1. PICK s : s = saga[o]
  OBVIOUS
<1>2. /\ CallType(s) /\ CallShape(s) /\ CallSound(s, held, nextId) /\ s.end # "Shipped"
      /\ s.lines \in Seq(SagaLine) /\ s.won \in Seq(WonLine)
      /\ s.short \in Seq(SagaLine) /\ s.todo \in Seq(WonLine)
      /\ <<>> \in Seq(SagaLine) /\ <<>> \in Seq(WonLine)
      /\ UNCHANGED <<engine, booksOpen, rma, restocked>>
  BY <1>1, Running DEF StartFulfil, EndPromotion, CallType, world
<1>3. CASE StartFulfil(o)
  <2>1. PICK u : u = Enters(s, "promote")
    OBVIOUS
  <2>2. u = CallOf("promote", s.lines, s.won, s.short, s.total, s.todo, s.end)
    BY <1>2, <2>1, CallBecomes
  <2>3. PICK v : v = [u EXCEPT !.won = <<>>]
    OBVIOUS
  <2>4. v = CallOf("promote", s.lines, <<>>, s.short, s.total, s.todo, s.end)
    BY <2>2, <2>3 DEF CallOf
  <2>5. PICK t : t = [v EXCEPT !.end = "none"]
    OBVIOUS
  <2>6. t = CallOf("promote", s.lines, <<>>, s.short, s.total, s.todo, "none")
    BY <2>4, <2>5 DEF CallOf
  <2>7. saga' = [saga EXCEPT ![o] = t] /\ UNCHANGED receivable
    BY <1>1, <1>3, <2>1, <2>3, <2>5 DEF StartFulfil, SagaBecomes
  <2>8. CallType(t)
    BY <1>2, <2>6, CallOfType DEF Stage, Outcome
  <2>9. CallSound(t, held, nextId) /\ Fits(t)
    BY <2>6 DEF CallSound, CallOf, Fits, AboutToHold
  <2> QED
    BY <1>1, <1>2, <2>7, <2>8, <2>9, QuietStep
<1>4. CASE EndPromotion(o) /\ s.won = <<>>
  <2>1. PICK t : t = [Enters(s, "idle") EXCEPT !.end = "Backordered"]
    OBVIOUS
  <2>2. t = CallOf("idle", s.lines, s.won, s.short, s.total, s.todo, "Backordered")
    BY <1>2, <2>1, EndedCall
  <2>3. saga' = [saga EXCEPT ![o] = t] /\ UNCHANGED receivable
    BY <1>1, <1>4, <2>1 DEF EndPromotion, SagaBecomes, Ends
  <2>4. CallType(t)
    BY <1>2, <2>2, CallOfType DEF Stage, Outcome
  <2>5. CallSound(t, held, nextId) /\ Fits(t)
    BY <1>2, <2>2 DEF CallSound, CallOf, Fits, AboutToHold
  <2> QED
    BY <1>1, <1>2, <2>3, <2>4, <2>5, QuietStep
<1>5. CASE EndPromotion(o) /\ s.won # <<>> /\ booksOpen
  <2>1. PICK u : u = [s EXCEPT !.short = <<>>]
    OBVIOUS
  <2>2. u = CallOf(s.at, s.lines, s.won, <<>>, s.total, s.todo, s.end)
    BY <1>2, <2>1, CallUpdates
  <2>3. CallShape(u) /\ u.lines = s.lines /\ u.won = s.won /\ u.short = <<>> /\ u.end = s.end
    BY <2>2 DEF CallShape, CallOf
  <2>4. PICK t : t = WorksOff(Billed(u, Value(s.won)), "confirm", s.won)
    OBVIOUS
  <2>5. t = CallOf("confirm", s.lines, s.won, <<>>, Value(s.won), s.won, s.end)
    BY <2>3, <2>4, BilledCall
  <2>6. saga' = [saga EXCEPT ![o] = t] /\ \E v : receivable' = [receivable EXCEPT ![o] = v]
    BY <1>1, <1>5, <2>1, <2>4 DEF EndPromotion, SagaBecomes, Posts
  <2>7. s.end = "none"
    BY <1>1, <1>5, Running DEF EndPromotion
  <2>8. CallType(t)
    BY <1>2, <2>5, <2>7, CallOfType DEF Stage, Outcome
  <2>9. CallSound(t, held, nextId) /\ Fits(t)
    BY <1>2, <2>5, <2>7 DEF CallSound, CallOf, Fits, AboutToHold
  <2> QED
    BY <1>1, <1>2, <2>6, <2>8, <2>9, QuietStep
<1>6. CASE EndPromotion(o) /\ s.won # <<>> /\ ~booksOpen
  <2>1. PICK t : t = WorksOff(Billed(s, 0), "release", s.won)
    OBVIOUS
  <2>2. t = CallOf("release", s.lines, s.won, s.short, 0, s.won, s.end)
    BY <1>2, <2>1, BilledCall
  <2>3. saga' = [saga EXCEPT ![o] = t] /\ UNCHANGED receivable
    BY <1>1, <1>6, <2>1 DEF EndPromotion, SagaBecomes
  <2>4. s.end = "none"
    BY <1>1, <1>6, Running DEF EndPromotion
  <2>5. CallType(t)
    BY <1>2, <2>2, <2>4, CallOfType DEF Stage, Outcome
  <2>6. CallSound(t, held, nextId) /\ Fits(t)
    BY <1>2, <2>2, <2>4 DEF CallSound, CallOf, Fits, AboutToHold
  <2> QED
    BY <1>1, <1>2, <2>3, <2>5, <2>6, QuietStep
<1> QED
  BY <1>3, <1>4, <1>5, <1>6

\* A hold is confirmed: its units are committed instead of held.
LEMMA ConfirmSound ==
  ASSUME SagaInv, NEW o \in Order, Confirm(o)
  PROVE  SagaInv'
<1>1. PICK s : s = saga[o]
  OBVIOUS
<1>2. /\ CallType(s) /\ CallShape(s) /\ CallSound(s, held, nextId) /\ rma[o] = "none"
      /\ s.at = "confirm" /\ s.end = "none" /\ s.todo # <<>>
      /\ s.lines \in Seq(SagaLine) /\ s.won \in Seq(WonLine)
      /\ s.short \in Seq(SagaLine) /\ s.todo \in Seq(WonLine)
  BY <1>1, Running DEF Confirm, CallType
<1>3. /\ nextId \in Nat /\ waiting \subseteq HoldRow /\ booksOpen \in BOOLEAN
      /\ onShelf \in [Ware -> Nat] /\ committed \in [Ware -> Nat]
      /\ receivable = [p \in Order |-> receivable[p]] /\ held \subseteq HoldRow
  BY DEF SagaInv, SgTypeOK
<1>4. PICK w \in WonLine : w = Head(s.todo) /\ w = s.todo[1] /\ 1 \in DOMAIN s.todo
  BY <1>2
<1>5. w.sku \in Ware /\ w.qty \in Nat
  BY DEF WonLine
<1>6. PICK g \in held : g.id = w.id
  BY <1>1, <1>4 DEF Confirm, IsHeld
<1>7. g.sku = w.sku /\ g.qty = w.qty
  <2>1. PICK i \in DOMAIN s.won : w = s.won[i]
    BY <1>2, <1>4 DEF CallSound
  <2> QED
    BY <1>2, <1>6, <2>1 DEF CallSound
<1>8. PICK t : t = [s EXCEPT !.todo = Tail(s.todo)]
  OBVIOUS
<1>9. t = CallOf("confirm", s.lines, s.won, s.short, s.total, Tail(s.todo), "none")
  <2>1. PICK rest : rest = Tail(s.todo)
    OBVIOUS
  <2>2. [s EXCEPT !.todo = rest] = CallOf(s.at, s.lines, s.won, s.short, s.total, rest, s.end)
    BY <1>2, CallUpdates
  <2> QED
    BY <1>2, <1>8, <2>1, <2>2
<1>10. /\ held' = {h \in held : h.id # w.id} /\ committed' = [committed EXCEPT ![w.sku] = @ + w.qty]
       /\ saga' = [saga EXCEPT ![o] = t]
       /\ UNCHANGED <<onShelf, waiting, nextId, crossed, booksOpen, receivable, rma, restocked>>
  BY <1>1, <1>4, <1>8 DEF Confirm, SagaBecomes, world
<1>11. /\ HoldsSound(held', nextId) /\ held' \subseteq held /\ held' \subseteq HoldRow /\ IsFiniteSet(held')
       /\ \A k : UnitsOf(held', k) = UnitsOf(held, k) - (IF g.sku = k THEN g.qty ELSE 0)
  BY <1>6, <1>10, HoldsDropped
<1>12. Tail(s.todo) \in Seq(WonLine) /\ \A j \in DOMAIN Tail(s.todo) :
         j + 1 \in DOMAIN s.todo /\ Tail(s.todo)[j] = s.todo[j + 1]
  BY <1>2
<1>13. CallType(t)
  BY <1>2, <1>9, <1>12, CallOfType DEF Stage, Outcome
<1>14. t.at = "confirm" /\ t.end = "none" /\ t.won = s.won /\ t.total = s.total /\ t.todo = Tail(s.todo)
  BY <1>9 DEF CallOf
<1>15. CallSound(s, held', nextId)
  BY <1>1, <1>3, <1>11, OtherCalls
<1>16. \A j \in DOMAIN t.todo : \E i \in DOMAIN t.won : t.todo[j] = t.won[i]
  BY <1>2, <1>12, <1>14 DEF CallSound
<1>17. CallSound(t, held', nextId)
  BY <1>2, <1>14, <1>15, <1>16 DEF CallSound
<1>18. NothingPromisedTwice' /\ Readers'
  <2>0. ASSUME NEW k \in Ware PROVE Sellable(k)' \in Int /\ Sellable(k)' >= Sellable(k)
    <3>1. Sellable(k) \in Int /\ onShelf[k] \in Nat /\ committed[k] \in Nat /\ UnitsOf(held, k) \in Nat
      BY SellableInt
    <3>2. Sellable(k) = onShelf[k] - committed[k] - UnitsOf(held, k)
      BY DEF Sellable
    <3>3. Sellable(k)' = onShelf[k] - committed'[k] - UnitsOf(held', k)
      BY <1>10 DEF Sellable
    <3>4. committed'[k] = committed[k] + (IF w.sku = k THEN w.qty ELSE 0)
      BY <1>3, <1>10, <3>1
    <3> QED
      BY <1>5, <1>7, <1>11, <3>1, <3>2, <3>3, <3>4
  <2>1. \A p \in Order : saga'[p] = saga[p] \/ saga'[p].at \notin {"hold", "fill"}
    BY <1>10, <1>14 DEF SagaInv, SgTypeOK
  <2> QED
    BY <1>10, <2>0, <2>1, StockStays
<1>19. committed' \in [Ware -> Nat]
  BY <1>3, <1>5, <1>10
<1>20. /\ nextId' = nextId /\ nextId' \in Nat /\ nextId' >= nextId /\ waiting' \subseteq HoldRow
       /\ \A h \in held' : h \in held \/ (h.id \in Nat /\ h.id >= nextId)
       /\ onShelf' \in [Ware -> Nat] /\ booksOpen' \in BOOLEAN /\ receivable' = [p \in Order |-> receivable'[p]]
  BY <1>3, <1>10, <1>11
<1> QED
  BY <1>2, <1>10, <1>11, <1>13, <1>17, <1>18, <1>19, <1>20, CallStep

\* The call ends, or turns to give back what it won.
LEMMA TurnSound ==
  ASSUME SagaInv, NEW o \in Order, ConfirmFails(o) \/ Ship(o) \/ Refund(o)
  PROVE  SagaInv'
<1>1. PICK s : s = saga[o]
  OBVIOUS
<1>2. /\ CallType(s) /\ CallShape(s) /\ CallSound(s, held, nextId) /\ s.end = "none"
      /\ s.lines \in Seq(SagaLine) /\ s.won \in Seq(WonLine)
      /\ s.short \in Seq(SagaLine) /\ s.todo \in Seq(WonLine)
      /\ UNCHANGED <<engine, booksOpen, rma, restocked>>
  BY <1>1, Running DEF ConfirmFails, Ship, Refund, CallType, world
<1>3. CASE ConfirmFails(o)
  <2>1. PICK t : t = Enters(s, "refund")
    OBVIOUS
  <2>2. t = CallOf("refund", s.lines, s.won, s.short, s.total, s.todo, "none")
    BY <1>2, <2>1, CallBecomes
  <2>3. saga' = [saga EXCEPT ![o] = t] /\ UNCHANGED receivable
    BY <1>1, <1>3, <2>1 DEF ConfirmFails, SagaBecomes
  <2>4. CallType(t)
    BY <1>2, <2>2, CallOfType DEF Stage, Outcome
  <2>5. CallSound(t, held, nextId) /\ Fits(t)
    BY <1>2, <2>2 DEF CallSound, CallOf, Fits, AboutToHold
  <2> QED
    BY <1>1, <1>2, <2>3, <2>4, <2>5, QuietStep
<1>4. CASE Ship(o)
  <2>1. PICK how \in {"Shipped", "Backordered"} : how = IF s.short = <<>> THEN "Shipped" ELSE "Backordered"
    OBVIOUS
  <2>2. PICK t : t = [Enters(s, "idle") EXCEPT !.end = how]
    OBVIOUS
  <2>3. t = CallOf("idle", s.lines, s.won, s.short, s.total, s.todo, how)
    BY <1>2, <2>2, EndedCall
  <2>4. saga' = [saga EXCEPT ![o] = t] /\ UNCHANGED receivable
    BY <1>1, <1>4, <2>1, <2>2 DEF Ship, SagaBecomes, Ends
  <2>5. CallType(t)
    BY <1>2, <2>3, CallOfType DEF Stage, Outcome
  <2>6. CallSound(t, held, nextId) /\ Fits(t)
    BY <1>2, <2>3 DEF CallSound, CallOf, Fits, AboutToHold
  <2> QED
    BY <1>1, <1>2, <2>4, <2>5, <2>6, QuietStep
<1>5. CASE Refund(o)
  <2>1. PICK left : left = IF booksOpen THEN 0 ELSE s.total
    OBVIOUS
  <2>2. PICK t : t = WorksOff(Billed(s, left), "release", s.won)
    OBVIOUS
  <2>3. t = CallOf("release", s.lines, s.won, s.short, left, s.won, "none")
    BY <1>2, <2>2, BilledCall
  <2>4. /\ saga' = [saga EXCEPT ![o] = t]
        /\ UNCHANGED receivable \/ \E v : receivable' = [receivable EXCEPT ![o] = v]
    BY <1>1, <1>5, <2>1, <2>2 DEF Refund, SagaBecomes, Reverses
  <2>5. CallType(t)
    BY <1>2, <2>3, CallOfType DEF Stage, Outcome
  <2>6. CallSound(t, held, nextId) /\ Fits(t)
    BY <1>2, <2>3 DEF CallSound, CallOf, Fits, AboutToHold
  <2> QED
    BY <1>1, <1>2, <2>4, <2>5, <2>6, QuietStep
<1> QED
  BY <1>3, <1>4, <1>5

\* The next hold is given back; when none is left, the call has ended.
LEMMA ReleaseSound ==
  ASSUME SagaInv, NEW o \in Order, ReleaseNext(o)
  PROVE  SagaInv'
<1>1. PICK s : s = saga[o]
  OBVIOUS
<1>2. /\ CallType(s) /\ CallShape(s) /\ CallSound(s, held, nextId) /\ rma[o] = "none"
      /\ s.at = "release" /\ s.end = "none"
      /\ s.lines \in Seq(SagaLine) /\ s.won \in Seq(WonLine)
      /\ s.short \in Seq(SagaLine) /\ s.todo \in Seq(WonLine)
      /\ UNCHANGED <<onShelf, committed, waiting, nextId, crossed, booksOpen, receivable, rma, restocked>>
  BY <1>1, Running DEF ReleaseNext, CallType, world
<1>3. /\ nextId \in Nat /\ waiting \subseteq HoldRow /\ booksOpen \in BOOLEAN
      /\ onShelf \in [Ware -> Nat] /\ committed \in [Ware -> Nat]
      /\ receivable = [p \in Order |-> receivable[p]] /\ held \subseteq HoldRow
  BY DEF SagaInv, SgTypeOK
<1>4. CASE s.todo = <<>>
  <2>1. PICK t : t = [Enters(s, "idle") EXCEPT !.end = "Compensated"]
    OBVIOUS
  <2>2. t = CallOf("idle", s.lines, s.won, s.short, s.total, s.todo, "Compensated")
    BY <1>2, <2>1, EndedCall
  <2>3. saga' = [saga EXCEPT ![o] = t] /\ UNCHANGED <<held, receivable>>
    BY <1>1, <1>2, <1>4, <2>1 DEF ReleaseNext, SagaBecomes, Ends
  <2>4. CallType(t)
    BY <1>2, <2>2, CallOfType DEF Stage, Outcome
  <2>5. \A h \in held, i \in DOMAIN s.won : h.id # s.won[i].id
    BY <1>2, <1>4 DEF CallSound
  <2>6. CallSound(t, held, nextId) /\ Fits(t)
    BY <1>2, <2>2, <2>5 DEF CallSound, CallOf, Fits, AboutToHold
  <2>7. UNCHANGED <<engine, booksOpen, rma, restocked>>
    BY <1>2, <2>3 DEF engine
  <2> QED
    BY <1>1, <1>2, <2>3, <2>4, <2>6, <2>7, QuietStep
<1>5. CASE s.todo # <<>>
  <2>1. PICK w \in WonLine : w = Head(s.todo) /\ w = s.todo[1] /\ 1 \in DOMAIN s.todo
    BY <1>2, <1>5
  <2>2. PICK t : t = [s EXCEPT !.todo = Tail(s.todo)]
    OBVIOUS
  <2>3. t = CallOf("release", s.lines, s.won, s.short, s.total, Tail(s.todo), "none")
    <3>1. PICK rest : rest = Tail(s.todo)
      OBVIOUS
    <3>2. [s EXCEPT !.todo = rest] = CallOf(s.at, s.lines, s.won, s.short, s.total, rest, s.end)
      BY <1>2, CallUpdates
    <3> QED
      BY <1>2, <2>2, <3>1, <3>2
  <2>4. held' = {h \in held : h.id # w.id} /\ saga' = [saga EXCEPT ![o] = t]
    BY <1>1, <1>5, <2>1, <2>2 DEF ReleaseNext, SagaBecomes
  <2>5. /\ HoldsSound(held', nextId) /\ held' \subseteq held /\ held' \subseteq HoldRow /\ IsFiniteSet(held')
        /\ \A k : UnitsOf(held, k) \in Nat /\ UnitsOf(held', k) \in Nat /\ UnitsOf(held', k) <= UnitsOf(held, k)
    BY <2>4, HoldsDropped
  <2>6. /\ Tail(s.todo) \in Seq(WonLine)
        /\ \A j \in DOMAIN Tail(s.todo) : j + 1 \in DOMAIN s.todo /\ Tail(s.todo)[j] = s.todo[j + 1]
        /\ \A j \in DOMAIN s.todo : j = 1 \/ (j - 1 \in DOMAIN Tail(s.todo) /\ Tail(s.todo)[j - 1] = s.todo[j])
    BY <1>2, <1>5
  <2>7. CallType(t)
    BY <1>2, <2>3, <2>6, CallOfType DEF Stage, Outcome
  <2>8. t.at = "release" /\ t.end = "none" /\ t.won = s.won /\ t.todo = Tail(s.todo)
    BY <2>3 DEF CallOf
  <2>9. CallSound(s, held', nextId)
    BY <1>1, <1>3, <2>5, OtherCalls
  <2>10. \A j \in DOMAIN t.todo : \E i \in DOMAIN t.won : t.todo[j] = t.won[i]
    BY <1>2, <2>6, <2>8 DEF CallSound
  <2>11. ASSUME NEW h \in held', NEW i \in DOMAIN s.won, h.id = s.won[i].id
         PROVE  \E j \in DOMAIN t.todo : t.todo[j].id = h.id
    <3>1. PICK j \in DOMAIN s.todo : s.todo[j].id = h.id
      BY <1>2, <2>9, <2>11 DEF CallSound
    <3>2. h.id # w.id
      BY <2>4
    <3>3. j # 1
      BY <2>1, <3>1, <3>2
    <3>4. PICK before : before = j - 1
      OBVIOUS
    <3>5. before \in DOMAIN Tail(s.todo) /\ Tail(s.todo)[before] = s.todo[j]
      BY <2>6, <3>3, <3>4
    <3>6. before \in DOMAIN t.todo /\ t.todo[before] = s.todo[j]
      BY <2>8, <3>5
    <3> QED
      BY <3>1, <3>6
  <2>12. CallSound(t, held', nextId)
    BY <1>2, <2>8, <2>9, <2>10, <2>11 DEF CallSound
  <2>13. NothingPromisedTwice' /\ Readers'
    <3>1. ASSUME NEW k \in Ware PROVE Sellable(k)' \in Int /\ Sellable(k)' >= Sellable(k)
      <4>1. Sellable(k) \in Int /\ onShelf[k] \in Nat /\ committed[k] \in Nat /\ UnitsOf(held, k) \in Nat
        BY SellableInt
      <4>2. Sellable(k) = onShelf[k] - committed[k] - UnitsOf(held, k)
        BY DEF Sellable
      <4>3. Sellable(k)' = onShelf[k] - committed[k] - UnitsOf(held', k)
        BY <1>2 DEF Sellable
      <4> QED
        BY <2>5, <4>1, <4>2, <4>3
    <3>2. \A p \in Order : saga'[p] = saga[p] \/ saga'[p].at \notin {"hold", "fill"}
      BY <2>4, <2>8 DEF SagaInv, SgTypeOK
    <3> QED
      BY <1>2, <3>1, <3>2, StockStays
  <2>14. /\ nextId' = nextId /\ nextId' \in Nat /\ nextId' >= nextId /\ waiting' \subseteq HoldRow
         /\ \A h \in held' : h \in held \/ (h.id \in Nat /\ h.id >= nextId)
         /\ onShelf' \in [Ware -> Nat] /\ committed' \in [Ware -> Nat] /\ booksOpen' \in BOOLEAN
         /\ receivable' = [p \in Order |-> receivable'[p]]
    BY <1>2, <1>3, <2>5
  <2> QED
    BY <1>2, <2>4, <2>5, <2>7, <2>12, <2>13, <2>14, CallStep
<1> QED
  BY <1>4, <1>5

-----------------------------------------------------------------------------
(* Returns, and what happens around the calls.                             *)

LEMMA QuantityNat ==
  ASSUME NEW won \in Seq(WonLine)
  PROVE  Quantity(won) \in Nat /\ \A k : UnitsOf(ToSet(won), k) \in Nat
<1>1. IsFiniteSet(ToSet(won))
  <2>1. won \in Surjection(DOMAIN won, ToSet(won))
    BY DEF ToSet, Surjection
  <2>2. DOMAIN won = 1..Len(won) /\ Len(won) \in Nat
    OBVIOUS
  <2>3. IsFiniteSet(DOMAIN won)
    BY <2>2, FS_Interval
  <2> QED
    BY <2>1, <2>3, FS_Surjection
<1>2. \A x \in ToSet(won) : x.qty \in Nat
  BY WonLines DEF ToSet
<1>3. UnitCount(ToSet(won)) \in Nat
  BY <1>1, <1>2, SplitFinite
<1>4. \A k : UnitsOf(ToSet(won), k) \in Nat
  BY <1>1, <1>2, UnitsOfNat
<1> QED
  BY <1>3, <1>4 DEF Quantity

\* A step of a return changes neither calls nor holds.
LEMMA ReturnStep ==
  ASSUME SagaInv, NEW o \in Order,
         NEW to \in {"none", "Requested", "Authorized", "Received", "Refunded"}, rma' = [rma EXCEPT ![o] = to],
         UNCHANGED <<saga, held, nextId, waiting, committed, crossed, booksOpen>>,
         ReturnSound(saga[o], to, restocked'[o]), \A p \in Order \ {o} : restocked'[p] = restocked[p],
         restocked' = [p \in Order |-> restocked'[p]], receivable' = [p \in Order |-> receivable'[p]],
         onShelf' \in [Ware -> Nat], \A k \in Ware : onShelf'[k] >= onShelf[k]
  PROVE  SagaInv'
<1>1. /\ rma \in [Order -> {"none", "Requested", "Authorized", "Received", "Refunded"}]
      /\ rma'[o] = to /\ \A p \in Order \ {o} : rma'[p] = rma[p]
  BY DEF SagaInv, SgTypeOK
<1>2. SgTypeOK'
  <2>1. \A p \in Order : CallType(saga[p])'
    BY DEF SagaInv, SgTypeOK, CallType, CallShape
  <2> QED
    BY <1>1, <2>1 DEF SagaInv, SgTypeOK
<1>3. \A p \in Order : CallSound(saga'[p], held', nextId') /\ ReturnSound(saga'[p], rma'[p], restocked'[p])
  BY <1>1 DEF SagaInv
<1>4. NothingPromisedTwice' /\ Readers'
  <2>1. ASSUME NEW k \in Ware PROVE Sellable(k)' \in Int /\ Sellable(k)' >= Sellable(k)
    <3>1. Sellable(k) \in Int /\ onShelf[k] \in Nat /\ committed[k] \in Nat /\ UnitsOf(held, k) \in Nat
      BY SellableInt
    <3>2. Sellable(k) = onShelf[k] - committed[k] - UnitsOf(held, k)
      BY DEF Sellable
    <3>3. Sellable(k)' = onShelf'[k] - committed[k] - UnitsOf(held, k)
      BY DEF Sellable
    <3>4. onShelf'[k] \in Nat
      OBVIOUS
    <3> QED
      BY <3>1, <3>2, <3>3, <3>4
  <2> QED
    BY <2>1, StockStays
<1> QED
  BY <1>2, <1>3, <1>4 DEF SagaInv, HoldsSound

LEMMA ReturnsSound ==
  ASSUME SagaInv, NEW o \in Order,
         RequestReturn(o) \/ Authorize(o) \/ ReceiveReturn(o) \/ RefundReturn(o)
  PROVE  SagaInv'
<1>1. /\ UNCHANGED <<saga, held, nextId, waiting, committed, crossed, booksOpen>>
      /\ onShelf \in [Ware -> Nat] /\ receivable = [p \in Order |-> receivable[p]]
      /\ restocked = [p \in Order |-> restocked[p]]
      /\ ReturnSound(saga[o], rma[o], restocked[o])
      /\ saga[o].won \in Seq(WonLine)
  BY DEF RequestReturn, Authorize, ReceiveReturn, RefundReturn, SagaInv, SgTypeOK, CallType, engine, world
<1>2. \A k \in Ware : onShelf[k] \in Nat /\ onShelf[k] >= onShelf[k]
  BY <1>1
<1>3. Quantity(saga[o].won) \in Nat /\ \A k : UnitsOf(ToSet(saga[o].won), k) \in Nat
  BY <1>1, QuantityNat
<1>4. CASE RequestReturn(o)
  <2>1. UNCHANGED <<onShelf, receivable, restocked>> /\ rma[o] = "none" /\ saga[o].end = "Shipped"
        /\ rma' = [rma EXCEPT ![o] = "Requested"]
    BY <1>4 DEF RequestReturn, engine
  <2>2. saga[o].at = "idle"
    BY <2>1, Running
  <2>3. ReturnSound(saga[o], "Requested", restocked'[o])
    BY <1>1, <2>1, <2>2 DEF ReturnSound
  <2> QED
    BY <1>1, <1>2, <2>1, <2>3, ReturnStep
<1>5. CASE Authorize(o)
  <2>1. UNCHANGED <<onShelf, receivable, restocked>> /\ rma[o] = "Requested"
        /\ rma' = [rma EXCEPT ![o] = "Authorized"]
    BY <1>5 DEF Authorize, RmaStep, RmaGraph, engine
  <2>2. ReturnSound(saga[o], "Authorized", restocked'[o])
    BY <1>1, <2>1 DEF ReturnSound
  <2> QED
    BY <1>1, <1>2, <2>1, <2>2, ReturnStep
<1>6. CASE ReceiveReturn(o)
  <2>1. UNCHANGED receivable /\ rma[o] = "Authorized" /\ rma' = [rma EXCEPT ![o] = "Received"]
        /\ onShelf' = [k \in Ware |-> onShelf[k] + UnitsOf(ToSet(saga[o].won), k)]
        /\ restocked' = [restocked EXCEPT ![o] = @ + Quantity(saga[o].won)]
    BY <1>6 DEF ReceiveReturn, RmaStep, RmaGraph
  <2>2. restocked[o] = 0 /\ restocked'[o] = Quantity(saga[o].won)
    BY <1>1, <1>3, <2>1 DEF ReturnSound
  <2>3. ReturnSound(saga[o], "Received", restocked'[o])
    BY <1>1, <2>1, <2>2 DEF ReturnSound
  <2>4. onShelf' \in [Ware -> Nat] /\ \A k \in Ware : onShelf'[k] >= onShelf[k]
    BY <1>1, <1>2, <1>3, <2>1
  <2>5. /\ \A p \in Order \ {o} : restocked'[p] = restocked[p]
        /\ restocked' = [p \in Order |-> restocked'[p]] /\ receivable' = [p \in Order |-> receivable'[p]]
    BY <1>1, <2>1
  <2> QED
    BY <1>1, <2>1, <2>3, <2>4, <2>5, ReturnStep
<1>7. CASE RefundReturn(o)
  <2>1. UNCHANGED <<onShelf, restocked>> /\ rma[o] = "Received" /\ rma' = [rma EXCEPT ![o] = "Refunded"]
        /\ receivable' = [p \in Order |-> receivable'[p]]
    BY <1>1, <1>7 DEF RefundReturn, RmaStep, RmaGraph, Reverses, engine
  <2>2. ReturnSound(saga[o], "Refunded", restocked'[o])
    BY <1>1, <2>1 DEF ReturnSound
  <2> QED
    BY <1>1, <1>2, <2>1, <2>2, ReturnStep
<1> QED
  BY <1>4, <1>5, <1>6, <1>7

LEMMA WorldSound ==
  ASSUME SagaInv,
         \/ \E k \in Ware, q \in Deliveries : Deliver(k, q)
         \/ \E h \in held : Lapse(h)
         \/ CloseBooks
  PROVE  SagaInv'
<1>1. /\ UNCHANGED <<committed, waiting, nextId, crossed, receivable, saga, rma, restocked>>
      /\ onShelf \in [Ware -> Nat] /\ held \subseteq HoldRow /\ IsFiniteSet(held) /\ HoldsSound(held, nextId)
      /\ nextId \in Nat /\ booksOpen \in BOOLEAN
  BY DEF Deliver, Lapse, CloseBooks, engine, SagaInv, SgTypeOK
<1>2. SUFFICES /\ booksOpen' \in BOOLEAN /\ onShelf' \in [Ware -> Nat] /\ held' \subseteq held
               /\ IsFiniteSet(held') /\ HoldsSound(held', nextId)
               /\ \A k \in Ware : /\ onShelf'[k] >= onShelf[k]
                                  /\ UnitsOf(held', k) \in Nat /\ UnitsOf(held', k) <= UnitsOf(held, k)
  <2>1. SgTypeOK'
    <3>1. \A p \in Order : CallType(saga[p])'
      BY <1>1 DEF SagaInv, SgTypeOK, CallType, CallShape
    <3> QED
      BY <1>1, <1>2, <3>1 DEF SagaInv, SgTypeOK
  <2>2. ASSUME NEW p \in Order PROVE CallSound(saga'[p], held', nextId')
    BY <1>1, <1>2, OtherCalls
  <2>3. ASSUME NEW p \in Order PROVE ReturnSound(saga'[p], rma'[p], restocked'[p])
    BY <1>1 DEF SagaInv
  <2>4. NothingPromisedTwice' /\ Readers'
    <3>1. ASSUME NEW k \in Ware PROVE Sellable(k)' \in Int /\ Sellable(k)' >= Sellable(k)
      <4>1. Sellable(k) \in Int /\ onShelf[k] \in Nat /\ committed[k] \in Nat /\ UnitsOf(held, k) \in Nat
        BY SellableInt
      <4>2. Sellable(k) = onShelf[k] - committed[k] - UnitsOf(held, k)
        BY DEF Sellable
      <4>3. Sellable(k)' = onShelf'[k] - committed[k] - UnitsOf(held', k)
        BY <1>1 DEF Sellable
      <4>4. onShelf'[k] \in Nat
        BY <1>2
      <4> QED
        BY <1>2, <4>1, <4>2, <4>3, <4>4
    <3> QED
      BY <1>1, <3>1, StockStays
  <2> QED
    BY <1>1, <1>2, <2>1, <2>2, <2>3, <2>4 DEF SagaInv
<1>3. \A k \in Ware : onShelf[k] \in Nat /\ UnitsOf(held, k) \in Nat
  BY SellableInt
<1>4. ASSUME NEW k \in Ware, NEW q \in Deliveries, Deliver(k, q)
      PROVE  /\ booksOpen' \in BOOLEAN /\ onShelf' \in [Ware -> Nat] /\ held' = held
             /\ \A w \in Ware : onShelf'[w] >= onShelf[w]
  <2>1. q \in Nat
    BY SagaAssumption
  <2> QED
    BY <1>1, <1>3, <1>4, <2>1 DEF Deliver
<1>5. ASSUME NEW h \in held, Lapse(h)
      PROVE  /\ booksOpen' = booksOpen /\ onShelf' = onShelf /\ held' \subseteq held
             /\ IsFiniteSet(held') /\ HoldsSound(held', nextId)
             /\ \A k \in Ware : UnitsOf(held', k) \in Nat /\ UnitsOf(held', k) <= UnitsOf(held, k)
  <2>1. held' = {g \in held : g.id # h.id}
    BY <1>1, <1>5 DEF Lapse, HoldsSound
  <2>2. booksOpen' = booksOpen /\ onShelf' = onShelf
    BY <1>5 DEF Lapse
  <2> QED
    BY <2>1, <2>2, HoldsDropped
<1>6. CASE CloseBooks
  <2>1. held' = held /\ onShelf' = onShelf /\ booksOpen' \in BOOLEAN
    BY <1>6 DEF CloseBooks, engine
  <2> QED
    BY <1>1, <1>3, <2>1
<1>7. ASSUME NEW k \in Ware, NEW q \in Deliveries, Deliver(k, q)
      PROVE  \A w \in Ware : UnitsOf(held', w) = UnitsOf(held, w)
  BY <1>4, <1>7
<1> QED
  BY <1>1, <1>3, <1>4, <1>5, <1>6, <1>7

-----------------------------------------------------------------------------
(* What the order saga promises.                                           *)

LEMMA SagaStarts == SgInit => SagaInv
<1> SUFFICES ASSUME SgInit PROVE SagaInv
  OBVIOUS
<1>1. NoSaga = CallOf("idle", <<>>, <<>>, <<>>, 0, <<>>, "none")
  BY DEF NoSaga, CallOf
<1>2. CallType(NoSaga)
  <2>1. <<>> \in Seq(SagaLine) /\ <<>> \in Seq(WonLine)
    OBVIOUS
  <2> QED
    BY <1>1, <2>1, CallOfType DEF Stage, Outcome
<1>3. IsFiniteSet({}) /\ \A k : UnitsOf({}, k) = 0
  <2>1. \A k : UnitsOf({}, k) = Cardinality({})
    BY DEF UnitsOf, UnitCount
  <2> QED
    BY <2>1, FS_EmptySet
<1>4. SgTypeOK
  BY <1>2, <1>3 DEF SgInit, SgTypeOK
<1>5. \A o \in Order : CallSound(saga[o], held, nextId) /\ ReturnSound(saga[o], rma[o], restocked[o])
  BY <1>1 DEF SgInit, CallSound, ReturnSound, CallOf
<1>6. NothingPromisedTwice /\ Readers
  <2>1. NothingPromisedTwice
    BY <1>3 DEF SgInit, NothingPromisedTwice, Sellable
  <2>2. \A o \in Order : saga[o].at = "idle"
    BY DEF SgInit, NoSaga
  <2> QED
    BY <2>1, <2>2 DEF Readers, Fits, AboutToHold
<1> QED
  BY <1>4, <1>5, <1>6 DEF SagaInv, HoldsSound, SgInit

LEMMA SagaSteps == SagaInv /\ [SgNext]_sgvars => SagaInv'
<1> SUFFICES ASSUME SagaInv, [SgNext]_sgvars PROVE SagaInv'
  OBVIOUS
<1>1. CASE UNCHANGED sgvars
  <2>1. \A p \in Order : CallType(saga[p])'
    BY <1>1 DEF sgvars, SagaInv, SgTypeOK, CallType, CallShape
  <2> QED
    BY <1>1, <2>1 DEF sgvars, SagaInv, SgTypeOK, HoldsSound, NothingPromisedTwice, Sellable, Readers, Fits, AboutToHold
<1>2. ASSUME NEW o \in Order, Run(o) PROVE SagaInv'
  BY <1>2, ReadSound, TakeSound, RestSound, FailSound, PaySound, ConfirmSound, TurnSound, ReleaseSound,
     FulfilSound, PickSound DEF Run
<1>3. ASSUME NEW o \in Order, StartFulfil(o) PROVE SagaInv'
  BY <1>3, FulfilSound
<1>4. ASSUME NEW o \in Order, NEW c \in Carts, Checkout(o, c) PROVE SagaInv'
  BY <1>4, CheckoutSound
<1>5. ASSUME NEW o \in Order, RequestReturn(o) \/ Authorize(o) \/ ReceiveReturn(o) \/ RefundReturn(o)
      PROVE  SagaInv'
  BY <1>5, ReturnsSound
<1>6. ASSUME \/ \E k \in Ware, q \in Deliveries : Deliver(k, q)
             \/ \E h \in held : Lapse(h)
             \/ CloseBooks
      PROVE  SagaInv'
  BY <1>6, WorldSound
<1> QED
  BY <1>1, <1>2, <1>3, <1>4, <1>5, <1>6 DEF SgNext

\* A run changes no call but its own.
LEMMA RunIsOwn ==
  ASSUME NEW o \in Order, Run(o)
  PROVE  \E t : saga' = [saga EXCEPT ![o] = t]
<1>0. CASE ReadStock(o) \/ HoldLine(o) \/ BackorderRest(o) \/ ReserveFails(o) \/ Fill(o)
  BY <1>0 DEF ReadStock, HoldLine, BackorderRest, ReserveFails, Fill, Ends, SagaBecomes
<1>1. CASE Pay(o) \/ ParkUnbilled(o) \/ PayFails(o) \/ Confirm(o) \/ ConfirmFails(o)
  BY <1>1 DEF Pay, ParkUnbilled, PayFails, Confirm, ConfirmFails, Ends, SagaBecomes
<1>2. CASE Ship(o) \/ Refund(o) \/ ReleaseNext(o) \/ EndPromotion(o) \/ \E b \in Fillable : Promote(o, b)
  BY <1>2 DEF Ship, Refund, ReleaseNext, EndPromotion, Promote, Ends, SagaBecomes
<1> QED
  BY <1>0, <1>1, <1>2 DEF Run

\* Only a call that bills leaves "confirm" other than to compensate, and a refund takes
\* back what its own call has billed.
LEMMA SagaActs ==
  ASSUME SagaInv, SgNext, NEW o \in Order
  PROVE  /\ saga[o].at = "confirm" => saga[o].total = Value(saga[o].won)
         /\ saga[o].at = "refund" /\ saga'[o].at = "release" /\ booksOpen =>
              /\ receivable'[o] = receivable[o] - saga[o].total
              /\ \A p \in Order \ {o} : receivable'[p] = receivable[p]
<1>1. saga[o].at = "confirm" => saga[o].total = Value(saga[o].won)
  BY DEF SagaInv, CallSound
<1>2. SUFFICES ASSUME saga[o].at = "refund", saga'[o].at = "release", booksOpen
               PROVE  Refund(o)
  BY <1>1, <1>2 DEF Refund, Reverses, SagaInv, SgTypeOK
<1>3. \A p \in Order \ {o} : \A t : saga' = [saga EXCEPT ![p] = t] => saga'[o] = saga[o]
  BY DEF SagaInv, SgTypeOK
<1>4. saga'[o] # saga[o]
  BY <1>2
<1>5. ASSUME NEW p \in Order, Run(p), p # o PROVE FALSE
  <2>1. \E t : saga' = [saga EXCEPT ![p] = t]
    BY <1>5, RunIsOwn
  <2> QED
    BY <1>3, <1>4, <1>5, <2>1
<1>6. ASSUME Run(o) PROVE Refund(o)
  BY <1>2, <1>6 DEF Run, ReadStock, HoldLine, BackorderRest, ReserveFails, Pay, ParkUnbilled, PayFails, Confirm,
                   ConfirmFails, Ship, ReleaseNext, Fill, EndPromotion, Promote
<1>7. ASSUME NEW p \in Order, (\E c \in Carts : Checkout(p, c)) \/ StartFulfil(p) PROVE FALSE
  <2>1. (\E t : saga' = [saga EXCEPT ![p] = t]) /\ saga[p].at = "idle"
    BY <1>7 DEF Checkout, StartFulfil, SagaBecomes, NoSaga
  <2> QED
    BY <1>2, <1>3, <1>4, <2>1
<1>8. ASSUME UNCHANGED saga PROVE FALSE
  BY <1>4, <1>8
<1> QED
  BY <1>5, <1>6, <1>7, <1>8
     DEF SgNext, RequestReturn, Authorize, ReceiveReturn, RefundReturn, Deliver, Lapse, CloseBooks

\* Nothing is promised twice but where one call held what another had read and not yet
\* held (reserve_or_backorder, fulfill_backorders_for), a compensated run leaves no hold
\* and takes back its own billing only, a run bills what it commits, and goods come back
\* once (OrderSaga::run, compensate, fulfill_backorders, RmaProcessor::receive), however
\* the calls of any number of orders interleave.
THEOREM OrdersStay == SgSpec => OrdersAccounted
<1>1. SagaInv => NothingPromisedTwice /\ NoHoldLeftBehind /\ ReturnedOnce
  <2> SUFFICES ASSUME SagaInv PROVE NothingPromisedTwice /\ NoHoldLeftBehind /\ ReturnedOnce
    OBVIOUS
  <2>1. NoHoldLeftBehind
    BY DEF SagaInv, CallSound, NoHoldLeftBehind, Ended, IsHeld
  <2>2. ReturnedOnce
    BY DEF SagaInv, ReturnSound, ReturnedOnce
  <2> QED
    BY <2>1, <2>2 DEF SagaInv
<1>2. SagaInv /\ [SgNext]_sgvars =>
        /\ [\A o \in Order : saga[o].at = "confirm" /\ Ended(o)' /\ saga'[o].end # "Compensated" =>
              saga[o].total = Value(saga[o].won)]_sgvars
        /\ [\A o \in Order : saga[o].at = "refund" /\ saga'[o].at = "release" /\ booksOpen =>
              /\ receivable'[o] = receivable[o] - saga[o].total
              /\ \A p \in Order \ {o} : receivable'[p] = receivable[p]]_sgvars
  BY SagaActs
<1> QED
  BY <1>1, <1>2, SagaStarts, SagaSteps, PTL
     DEF SgSpec, OrdersAccounted, BillsWhatItCommits, CompensationIsOwn

-----------------------------------------------------------------------------
(* Hours of service (HosClock, HosLog).                                    *)

Interval == [status : Status, start : Int, end : Int]
Adds(iv, S, t) == IF iv.status \in S THEN t + Length(iv) ELSE t

\* The total of a series (the fold of HosLog's sums) is the last of a chain of
\* totals, one for each interval.
LEMMA TotalChain ==
  ASSUME NEW ivs \in Seq(Interval), NEW S
  PROVE  \E r \in [0..Len(ivs) -> Int] :
           /\ r[0] = 0 /\ \A i \in 1..Len(ivs) : r[i] = Adds(ivs[i], S, r[i - 1])
           /\ Total(ivs, S) = r[Len(ivs)]
<1> DEFINE N == Len(ivs)
           F == [i \in 1..N |-> [t \in Int |-> Adds(ivs[i], S, t)]]
           Body(h, s) == IF s = {} THEN 0
                         ELSE IF ivs[Max(s)].status \in S THEN h[s \ {Max(s)}] + Length(ivs[Max(s)])
                         ELSE h[s \ {Max(s)}]
           iter == CHOOSE h : h = [s \in SUBSET (DOMAIN ivs) |-> Body(h, s)]
<1>1. N \in Nat /\ DOMAIN ivs = 1..N /\ \A i \in 1..N : ivs[i] \in Interval
  BY ElementOfSeq
<1>2. Total(ivs, S) = iter[DOMAIN ivs]
  BY DEF Total, FoldLeft, MapThenFoldSet
<1>3. F \in [1..N -> [Int -> Int]]
  BY <1>1 DEF Adds, Length, Interval
<1>4. \A s \in (SUBSET (1..N)) \ {{}} : Max(s) \in 1..N /\ s \ {Max(s)} \in SUBSET (1..N)
  <2>1. ASSUME NEW s \in (SUBSET (1..N)) \ {{}} PROVE Max(s) \in s
    <3>1. s \subseteq 0..N /\ s # {}
      OBVIOUS
    <3> QED
      BY <1>1, <3>1, Greatest
  <2> QED
    BY <2>1
<1>5. \A h, s : s \in (SUBSET (1..N)) \ {{}} /\ h[s \ {Max(s)}] \in Int
                => F[Max(s)][h[s \ {Max(s)}]] = Body(h, s)
  BY <1>4 DEF Adds
<1>6. \A h : Body(h, {}) = 0
  OBVIOUS
<1> HIDE DEF Body, F, N, iter
<1>7. Foldable(N, Int, F, 0)
  <2>1. 0 \in Int /\ N \in Nat
    BY <1>1
  <2> QED
    BY <1>3, <2>1, FoldRule
<1>8. PICK g \in [SUBSET (1..N) -> Int], r \in [0..N -> Int] :
        /\ Unfolds(g, N, F, 0) /\ Chain(r, N, F, 0)
        /\ \A h : Follows(h, N, Int, F, 0) => h[1..N] = r[N]
  BY <1>7 DEF Foldable
<1>9. g = [s \in SUBSET (DOMAIN ivs) |-> Body(g, s)]
  <2>1. ASSUME NEW s \in SUBSET (1..N) PROVE g[s] = Body(g, s)
    BY <1>4, <1>5, <1>6, <1>8 DEF Unfolds
  <2> QED
    BY <1>1, <2>1
<1>10. iter = [s \in SUBSET (DOMAIN ivs) |-> Body(iter, s)]
  BY <1>9 DEF iter
<1>11. Follows(iter, N, Int, F, 0)
  BY <1>1, <1>5, <1>6, <1>10 DEF Follows
<1>12. iter[1..N] = r[N]
  BY <1>8, <1>11
<1>13. \A i \in 1..N : i - 1 \in 0..N /\ r[i] = Adds(ivs[i], S, r[i - 1])
  <2>1. ASSUME NEW i \in 1..N PROVE i - 1 \in 0..N /\ r[i] = Adds(ivs[i], S, r[i - 1])
    <3>1. i - 1 \in 0..N /\ r[i - 1] \in Int
      BY <1>1, <1>8
    <3> QED
      BY <1>8, <3>1 DEF Chain, F
  <2> QED
    BY <2>1
<1> QED
  BY <1>1, <1>2, <1>8, <1>12, <1>13 DEF Chain, N

\* So one more interval adds its own length or nothing.
LEMMA TotalAppend ==
  ASSUME NEW ivs \in Seq(Interval), NEW iv \in Interval, NEW S
  PROVE  /\ Total(Append(ivs, iv), S) = Adds(iv, S, Total(ivs, S))
         /\ Total(ivs, S) \in Int /\ Total(<<>>, S) = 0
<1> DEFINE n == Len(ivs)
<1>1. n \in Nat /\ Append(ivs, iv) \in Seq(Interval) /\ Len(Append(ivs, iv)) = n + 1
      /\ (\A i \in 1..n : Append(ivs, iv)[i] = ivs[i]) /\ Append(ivs, iv)[n + 1] = iv
  BY AppendProperties, LenProperties
<1>2. PICK r \in [0..n -> Int] :
        /\ r[0] = 0 /\ \A i \in 1..n : r[i] = Adds(ivs[i], S, r[i - 1])
        /\ Total(ivs, S) = r[n]
  BY TotalChain
<1>3. PICK q \in [0..(n + 1) -> Int] :
        /\ q[0] = 0 /\ \A i \in 1..(n + 1) : q[i] = Adds(Append(ivs, iv)[i], S, q[i - 1])
        /\ Total(Append(ivs, iv), S) = q[n + 1]
  <2> PICK more : more = Append(ivs, iv)
    OBVIOUS
  <2> QED
    BY <1>1, TotalChain
<1>4. \A i \in 0..n : r[i] = q[i]
  <2> DEFINE F == [i \in 1..n |-> [t \in Int |-> Adds(ivs[i], S, t)]]
  <2>1. \A i \in 1..n : i - 1 \in 0..n /\ i \in 1..(n + 1) /\ i - 1 \in 0..(n + 1)
    BY <1>1
  <2>2. Chain(r, n, F, 0)
    BY <1>2, <2>1 DEF Chain
  <2>3. Chain(q, n, F, 0)
    BY <1>1, <1>3, <2>1 DEF Chain
  <2> HIDE DEF F
  <2> QED
    BY <1>1, <2>2, <2>3, ChainsAgree
<1>5. Total(Append(ivs, iv), S) = Adds(iv, S, Total(ivs, S))
  <2>1. n \in 0..n /\ n + 1 \in 1..(n + 1) /\ (n + 1) - 1 = n
    BY <1>1
  <2> QED
    BY <1>1, <1>2, <1>3, <1>4, <2>1
<1>6. Total(ivs, S) \in Int
  BY <1>1, <1>2
<1>7. Total(<<>>, S) = 0
  <2>1. <<>> \in Seq(Interval) /\ Len(<<>>) = 0
    OBVIOUS
  <2>2. PICK none : none = <<>> /\ none \in Seq(Interval) /\ Len(none) = 0
    BY <2>1
  <2>3. Total(none, S) = 0
    BY <2>2, TotalChain
  <2> QED
    BY <2>2, <2>3
<1> QED
  BY <1>5, <1>6, <1>7

\* What follows the last position of P.
After(ivs, P) == SubSeq(ivs, Max({0} \cup P) + 1, Len(ivs))

\* With one more element the tail has one more too, or ends with it.
LEMMA TailGrows ==
  ASSUME NEW E, NEW ivs \in Seq(E), NEW iv \in E, NEW P \in SUBSET (1..Len(ivs))
  PROVE  /\ After(ivs, P) \in Seq(E)
         /\ After(Append(ivs, iv), P) = Append(After(ivs, P), iv)
         /\ After(Append(ivs, iv), P \cup {Len(ivs) + 1}) = <<>>
<1> DEFINE n == Len(ivs)
           m == Max({0} \cup P)
           more == Append(ivs, iv)
<1>1. n \in Nat /\ more \in Seq(E) /\ Len(more) = n + 1
      /\ (\A i \in 1..n : more[i] = ivs[i] /\ ivs[i] \in E) /\ more[n + 1] = iv
  BY AppendProperties, LenProperties, ElementOfSeq
<1>2. m \in 0..n
  <2>1. {0} \cup P \subseteq 0..n /\ {0} \cup P # {}
    BY <1>1
  <2>2. m \in {0} \cup P
    BY <1>1, <2>1, Greatest
  <2> QED
    BY <2>1, <2>2
<1>3. Max({0} \cup (P \cup {n + 1})) = n + 1
  <2> DEFINE Q == {0} \cup (P \cup {n + 1})
  <2>1. n + 1 \in Nat /\ P \subseteq 1..n /\ n + 1 \in Q
    BY <1>1
  <2>2. Q \subseteq 0..(n + 1)
    <3> HIDE DEF n
    <3> QED
      BY <1>1, <2>1
  <2> HIDE DEF Q, n
  <2>3. Max(Q) \in Q /\ \A x \in Q : x <= Max(Q)
    BY <2>1, <2>2, Greatest
  <2>4. Max(Q) \in 0..(n + 1) /\ n + 1 <= Max(Q)
    BY <2>1, <2>2, <2>3
  <2>5. Max(Q) = n + 1
    BY <1>1, <2>4
  <2> QED
    BY <2>5 DEF Q
<1> HIDE DEF m, more, n
<1> DEFINE old == SubSeq(ivs, m + 1, n)
           new == SubSeq(more, m + 1, n + 1)
<1>4. old \in Seq(E) /\ Len(old) = n - m /\ \A i \in 1..(n - m) : old[i] = ivs[m + i]
  <2>1. m + 1 \in Int /\ n \in Int /\ \A i \in (m + 1)..n : ivs[i] \in E
    BY <1>1, <1>2
  <2>2. /\ SubSeq(ivs, m + 1, n) \in Seq(E)
        /\ Len(SubSeq(ivs, m + 1, n)) = IF m + 1 <= n THEN n - (m + 1) + 1 ELSE 0
        /\ \A i \in 1..(n - (m + 1) + 1) : SubSeq(ivs, m + 1, n)[i] = ivs[(m + 1) + i - 1]
    BY <2>1, SubSeqProperties
  <2> QED
    BY <1>1, <1>2, <2>2
<1>5. new \in Seq(E) /\ Len(new) = n - m + 1 /\ \A i \in 1..(n - m + 1) : new[i] = more[m + i]
  <2>1. m + 1 \in Int /\ n + 1 \in Int /\ \A i \in (m + 1)..(n + 1) : more[i] \in E
    <3>1. ASSUME NEW i \in (m + 1)..(n + 1) PROVE more[i] \in E
      <4>1. i \in 1..n \/ i = n + 1
        BY <1>1, <1>2
      <4> QED
        BY <1>1, <4>1
    <3> QED
      BY <1>1, <1>2, <3>1
  <2>2. /\ SubSeq(more, m + 1, n + 1) \in Seq(E)
        /\ Len(SubSeq(more, m + 1, n + 1)) = IF m + 1 <= n + 1 THEN (n + 1) - (m + 1) + 1 ELSE 0
        /\ \A i \in 1..((n + 1) - (m + 1) + 1) :
             SubSeq(more, m + 1, n + 1)[i] = more[(m + 1) + i - 1]
    BY <2>1, SubSeqProperties
  <2> QED
    BY <1>1, <1>2, <2>2
<1> HIDE DEF old, new
<1>6. new = Append(old, iv)
  <2>1. /\ Append(old, iv) \in Seq(E) /\ Len(Append(old, iv)) = n - m + 1
        /\ \A i \in 1..(n - m) : Append(old, iv)[i] = old[i]
        /\ Append(old, iv)[n - m + 1] = iv
    BY <1>4, AppendProperties
  <2>2. ASSUME NEW i \in 1..(n - m + 1) PROVE new[i] = Append(old, iv)[i]
    <3>1. CASE i \in 1..(n - m)
      <4>1. m + i \in 1..n
        BY <1>1, <1>2, <3>1
      <4>2. new[i] = more[m + i] /\ old[i] = ivs[m + i] /\ Append(old, iv)[i] = old[i]
        BY <1>4, <1>5, <2>1, <3>1
      <4>3. more[m + i] = ivs[m + i]
        BY <1>1, <4>1
      <4> QED
        BY <4>2, <4>3
    <3>2. CASE i = n - m + 1
      <4>1. m + i = n + 1
        BY <1>1, <1>2, <3>2
      <4>2. new[i] = more[m + i] /\ Append(old, iv)[i] = iv
        BY <1>5, <2>1, <3>2
      <4> QED
        BY <1>1, <4>1, <4>2
    <3>3. i \in 1..(n - m) \/ i = n - m + 1
      BY <1>1, <1>2
    <3> QED
      BY <3>1, <3>2, <3>3
  <2> QED
    BY <1>5, <2>1, <2>2, SeqEqual
<1>7. SubSeq(more, (n + 1) + 1, n + 1) = <<>>
  BY <1>1, SubSeqEmpty
<1> QED
  BY <1>1, <1>3, <1>4, <1>6, <1>7 DEF old, new, m, more, n, After

\* scan_window with one more interval: a rest empties it, any other joins it.
LEMMA WindowGrows ==
  ASSUME NEW ivs \in Seq(Interval), NEW iv \in Interval
  PROVE  /\ Window(ivs) \in Seq(Interval)
         /\ Window(Append(ivs, iv)) = IF Resets(iv.status, Length(iv)) THEN <<>>
                                      ELSE Append(Window(ivs), iv)
<1> DEFINE Rest(x) == Resets(x.status, Length(x))
           P == {i \in DOMAIN ivs : Rest(ivs[i])}
           more == Append(ivs, iv)
           n == Len(ivs)
           Q == {i \in DOMAIN more : Rest(more[i])}
<1>1. n \in Nat /\ DOMAIN ivs = 1..n /\ DOMAIN more = 1..(n + 1) /\ Len(more) = n + 1
      /\ (\A i \in 1..n : more[i] = ivs[i]) /\ more[n + 1] = iv
  BY AppendProperties, LenProperties
<1>2. Window(ivs) = After(ivs, P) /\ Window(more) = After(more, Q)
  BY <1>1 DEF Window, Since, After
<1>3. Q = IF Rest(iv) THEN P \cup {n + 1} ELSE P
  <2> HIDE DEF Rest, more, n
  <2>1. 1..(n + 1) = 1..n \cup {n + 1}
    BY <1>1
  <2> QED
    BY <1>1, <2>1
<1>4. P \in SUBSET (1..Len(ivs))
  BY <1>1
<1> HIDE DEF P, Q
<1>5. /\ After(ivs, P) \in Seq(Interval) /\ After(more, P) = Append(After(ivs, P), iv)
      /\ After(more, P \cup {n + 1}) = <<>>
  BY <1>4, TailGrows
<1> QED
  BY <1>2, <1>3, <1>5

\* The driving since the last break, with one more interval.
LEMMA BreakGrows ==
  ASSUME NEW ivs \in Seq(Interval), NEW iv \in Interval
  PROVE  /\ SinceBreak(ivs) \in Int
         /\ SinceBreak(Append(ivs, iv)) =
              IF ~Working(iv.status) /\ Length(iv) >= 1 THEN 0
              ELSE Adds(iv, {"Driving"}, SinceBreak(ivs))
<1> DEFINE Rest(x) == ~Working(x.status) /\ Length(x) >= 1
           P == {i \in DOMAIN ivs : Rest(ivs[i])}
           more == Append(ivs, iv)
           n == Len(ivs)
           Q == {i \in DOMAIN more : Rest(more[i])}
           tail == After(ivs, P)
<1>1. n \in Nat /\ DOMAIN ivs = 1..n /\ DOMAIN more = 1..(n + 1) /\ Len(more) = n + 1
      /\ (\A i \in 1..n : more[i] = ivs[i]) /\ more[n + 1] = iv
  BY AppendProperties, LenProperties
<1>2. SinceBreak(ivs) = Total(tail, {"Driving"})
      /\ SinceBreak(more) = Total(After(more, Q), {"Driving"})
  BY <1>1 DEF SinceBreak, Since, After
<1>3. Q = IF Rest(iv) THEN P \cup {n + 1} ELSE P
  <2> HIDE DEF Rest, more, n
  <2>1. 1..(n + 1) = 1..n \cup {n + 1}
    BY <1>1
  <2> QED
    BY <1>1, <2>1
<1>4. P \in SUBSET (1..Len(ivs))
  BY <1>1
<1> HIDE DEF P, Q
<1>5. /\ tail \in Seq(Interval) /\ After(more, P) = Append(tail, iv)
      /\ After(more, P \cup {n + 1}) = <<>>
  BY <1>4, TailGrows
<1>6. /\ Total(Append(tail, iv), {"Driving"}) = Adds(iv, {"Driving"}, Total(tail, {"Driving"}))
      /\ Total(tail, {"Driving"}) \in Int /\ Total(<<>>, {"Driving"}) = 0
  <2> HIDE DEF tail
  <2> QED
    BY <1>5, TotalAppend
<1> HIDE DEF tail
<1> QED
  BY <1>2, <1>3, <1>5, <1>6

Driven(ivs) == Total(Window(ivs), {"Driving"})
Worked(ivs) == Total(Window(ivs), {"OnDuty", "Driving"})
Breach == {"DrivingLimit", "OnDutyLimit", "BreakRequired", "CycleLimit"}

\* The log and the clock are of the right kind, the clock has the window's totals,
\* and what a round has not told yet it still has to publish.
HoursInv ==
  /\ log \in Seq(Interval)
  /\ clock \in [status : Status, driving : Int, onDuty : Int]
  /\ outgoing \in Seq(Breach)
  /\ ClockAgreesWithLog
  /\ outgoing # <<>> => Range(Violations(log)) \subseteq told \cup Range(outgoing)

\* The totals over the window with one more interval.
LEMMA WindowTotals ==
  ASSUME NEW ivs \in Seq(Interval), NEW iv \in Interval, NEW S
  PROVE  /\ Total(Window(ivs), S) \in Int
         /\ Total(Window(Append(ivs, iv)), S) =
              IF Resets(iv.status, Length(iv)) THEN 0 ELSE Adds(iv, S, Total(Window(ivs), S))
<1>1. PICK w \in Seq(Interval) : w = Window(ivs)
  BY WindowGrows
<1>2. /\ Total(Append(w, iv), S) = Adds(iv, S, Total(w, S))
      /\ Total(w, S) \in Int /\ Total(<<>>, S) = 0
  BY TotalAppend
<1> QED
  BY <1>1, <1>2, WindowGrows

\* Two sequences end to end.
LEMMA Joined ==
  ASSUME NEW E, NEW a \in Seq(E), NEW b \in Seq(E)
  PROVE  a \o b \in Seq(E) /\ Range(a \o b) = Range(a) \cup Range(b)
<1>1. a \o b \in Seq(E)
  BY ConcatProperties
<1>2. Range(a \o b) = Range(a) \cup Range(b)
  BY RangeConcatenation
<1> QED
  BY <1>1, <1>2

\* What violations() reports is what breaches a limit.
LEMMA BreachesAre ==
  ASSUME NEW ivs
  PROVE  /\ Violations(ivs) \in Seq(Breach)
         /\ "DrivingLimit" \in Range(Violations(ivs)) <=> Driven(ivs) > 22
         /\ "OnDutyLimit" \in Range(Violations(ivs)) <=> Worked(ivs) > 28
         /\ "BreakRequired" \in Range(Violations(ivs)) <=> SinceBreak(ivs) >= 16
<1>1. \A b \in BOOLEAN, v \in Breach :
        /\ (IF b THEN <<v>> ELSE <<>>) \in Seq(Breach)
        /\ Range(IF b THEN <<v>> ELSE <<>>) = IF b THEN {v} ELSE {}
  BY DEF Range
<1> DEFINE Found(b, v) == IF b THEN <<v>> ELSE <<>>
<1>2. PICK v1, v2, v3, v4 :
        /\ v1 = Found(Driven(ivs) > 22, "DrivingLimit")
        /\ v2 = Found(Worked(ivs) > 28, "OnDutyLimit")
        /\ v3 = Found(SinceBreak(ivs) >= 16, "BreakRequired")
        /\ v4 = Found(ivs # <<>> /\ (InDays(ivs, 7) > 120 \/ InDays(ivs, 8) > 140), "CycleLimit")
  OBVIOUS
<1>3. Violations(ivs) = v1 \o v2 \o v3 \o v4
  BY <1>2 DEF Violations, Driven, Worked
<1>4. /\ v1 \in Seq(Breach) /\ Range(v1) = IF Driven(ivs) > 22 THEN {"DrivingLimit"} ELSE {}
      /\ v2 \in Seq(Breach) /\ Range(v2) = IF Worked(ivs) > 28 THEN {"OnDutyLimit"} ELSE {}
      /\ v3 \in Seq(Breach) /\ Range(v3) = IF SinceBreak(ivs) >= 16 THEN {"BreakRequired"} ELSE {}
      /\ v4 \in Seq(Breach) /\ Range(v4) \subseteq {"CycleLimit"}
  BY <1>1, <1>2 DEF Breach
<1>5. \A a, b \in Seq(Breach) : a \o b \in Seq(Breach) /\ Range(a \o b) = Range(a) \cup Range(b)
  <2>1. ASSUME NEW a \in Seq(Breach), NEW b \in Seq(Breach)
        PROVE  a \o b \in Seq(Breach) /\ Range(a \o b) = Range(a) \cup Range(b)
    BY Joined
  <2> QED
    BY <2>1
<1> HIDE DEF Found
<1>6. PICK v12, v123, v1234 :
        v12 = v1 \o v2 /\ v123 = v12 \o v3 /\ v1234 = v123 \o v4
  OBVIOUS
<1>7. v12 \in Seq(Breach) /\ Range(v12) = Range(v1) \cup Range(v2)
  BY <1>4, <1>5, <1>6
<1>8. v123 \in Seq(Breach) /\ Range(v123) = Range(v12) \cup Range(v3)
  BY <1>4, <1>5, <1>6, <1>7
<1>9. v1234 \in Seq(Breach) /\ Range(v1234) = Range(v123) \cup Range(v4)
  BY <1>4, <1>5, <1>6, <1>8
<1>10. Violations(ivs) = v1234
  BY <1>3, <1>6
<1>11. Range(v1234) = Range(v1) \cup Range(v2) \cup Range(v3) \cup Range(v4)
  BY <1>7, <1>8, <1>9
<1>12. "DrivingLimit" \in Range(v1234) <=> Driven(ivs) > 22
  BY <1>4, <1>11
<1>13. "OnDutyLimit" \in Range(v1234) <=> Worked(ivs) > 28
  BY <1>4, <1>11
<1>14. "BreakRequired" \in Range(v1234) <=> SinceBreak(ivs) >= 16
  BY <1>4, <1>11
<1> QED
  BY <1>9, <1>10, <1>12, <1>13, <1>14

\* A step of the log appends one interval, however it overlaps the one before.
LEMMA LogsOne ==
  ASSUME HoursInv, NEW s \in Status, NEW g \in Gaps, NEW n \in Lengths, LogInterval(s, g, n)
  PROVE  \E iv \in Interval :
           /\ iv.status = s /\ Length(iv) = n /\ n \in Nat
           /\ log' = Append(log, iv) /\ clock' = Accrued(clock, s, n)
           /\ outgoing = <<>> /\ UNCHANGED <<outgoing, told, lastRound>>
<1>1. n \in Nat /\ g \in Int
  BY HosAssumption
<1>2. log # <<>> => AsOf(log) \in Int
  <2>1. SUFFICES ASSUME log # <<>> PROVE AsOf(log) \in Int
    OBVIOUS
  <2>2. log \in Seq(Interval) /\ Len(log) \in Nat \ {0}
    BY <2>1, EmptySeq DEF HoursInv
  <2>3. log[Len(log)] \in Interval
    BY <2>2, ElementOfSeq
  <2> QED
    BY <2>3 DEF AsOf, Last, Interval
<1>3. PICK start \in Int : log' = Append(log, [status |-> s, start |-> start, end |-> start + n])
  <2>1. CASE log = <<>>
    <3>1. log' = Append(log, [status |-> s, start |-> 0, end |-> 0 + n])
      BY <2>1 DEF LogInterval
    <3> QED
      BY <3>1
  <2>2. CASE log # <<>>
    <3>1. PICK at : at = AsOf(log) + g
      OBVIOUS
    <3>2. at \in Int
      BY <1>1, <1>2, <2>2, <3>1
    <3>3. log' = Append(log, [status |-> s, start |-> at, end |-> at + n])
      BY <2>2, <3>1 DEF LogInterval
    <3> QED
      BY <3>2, <3>3
  <2> QED
    BY <2>1, <2>2
<1> DEFINE iv == [status |-> s, start |-> start, end |-> start + n]
<1>4. iv \in Interval /\ iv.status = s /\ Length(iv) = n
  BY <1>1 DEF Interval, Length
<1> QED
  BY <1>1, <1>3, <1>4 DEF LogInterval

\* A sequence is its head and its tail.
LEMMA HeadAndRest ==
  ASSUME NEW E, NEW seq \in Seq(E), seq # <<>>
  PROVE  Tail(seq) \in Seq(E) /\ Range(seq) = {Head(seq)} \cup Range(Tail(seq))
<1>1. /\ Tail(seq) \in Seq(E) /\ Len(Tail(seq)) = Len(seq) - 1 /\ Len(seq) \in Nat \ {0}
      /\ \A i \in 1..Len(Tail(seq)) : Tail(seq)[i] = seq[i + 1]
  BY HeadTailProperties, EmptySeq
<1>2. Head(seq) = seq[1]
  OBVIOUS
<1>3. Range(seq) = {seq[i] : i \in 1..Len(seq)} /\ Range(Tail(seq)) = {Tail(seq)[i] : i \in 1..Len(Tail(seq))}
  BY <1>1, RangeEquality
<1>4. \A i \in 1..Len(seq) : i = 1 \/ (i - 1 \in 1..Len(Tail(seq)) /\ seq[i] = Tail(seq)[i - 1])
  BY <1>1
<1>5. \A i \in 1..Len(Tail(seq)) : i + 1 \in 1..Len(seq)
  BY <1>1
<1>6. 1 \in 1..Len(seq)
  BY <1>1
<1> QED
  BY <1>1, <1>2, <1>3, <1>4, <1>5, <1>6

\* Every step keeps the invariant.
LEMMA HoursStep ==
  ASSUME HoursInv, [HNext]_hvars
  PROVE  HoursInv'
<1>1. CASE UNCHANGED hvars
  BY <1>1 DEF hvars, HoursInv, ClockAgreesWithLog
<1>2. ASSUME NEW s \in Status, NEW g \in Gaps, NEW n \in Lengths, LogInterval(s, g, n)
      PROVE  HoursInv'
  <2>1. PICK iv \in Interval :
           /\ iv.status = s /\ Length(iv) = n /\ n \in Nat
           /\ log' = Append(log, iv) /\ clock' = Accrued(clock, s, n)
           /\ outgoing = <<>> /\ UNCHANGED <<outgoing, told, lastRound>>
    BY <1>2, LogsOne
  <2>2. log' \in Seq(Interval)
    BY <2>1, AppendProperties DEF HoursInv
  <2>3. /\ Driven(log) \in Int /\ Worked(log) \in Int
        /\ Driven(log') = IF Resets(s, n) THEN 0 ELSE Adds(iv, {"Driving"}, Driven(log))
        /\ Worked(log') = IF Resets(s, n) THEN 0 ELSE Adds(iv, {"OnDuty", "Driving"}, Worked(log))
    BY <2>1, WindowTotals DEF HoursInv, Driven, Worked
  <2>4. clock.driving = Driven(log) /\ clock.onDuty = Worked(log)
    BY DEF HoursInv, ClockAgreesWithLog, Driven, Worked
  <2>5. /\ clock' \in [status : Status, driving : Int, onDuty : Int]
        /\ clock'.driving = Driven(log') /\ clock'.onDuty = Worked(log')
    <3>1. CASE Resets(s, n)
      BY <2>1, <2>3, <3>1 DEF Accrued
    <3>2. CASE ~Resets(s, n)
      <4>1. clock' = [status |-> s,
                      driving |-> clock.driving + (IF s = "Driving" THEN n ELSE 0),
                      onDuty |-> clock.onDuty + (IF Working(s) THEN n ELSE 0)]
        BY <2>1, <3>2 DEF Accrued
      <4>2. clock.driving \in Int /\ clock.onDuty \in Int /\ n \in Nat
        BY <2>1, <2>3, <2>4
      <4> QED
        BY <2>1, <2>3, <2>4, <3>2, <4>1, <4>2 DEF Adds, Working
    <3> QED
      BY <3>1, <3>2
  <2>6. ClockAgreesWithLog'
    BY <2>5 DEF ClockAgreesWithLog, Driven, Worked
  <2> QED
    BY <2>1, <2>2, <2>5, <2>6 DEF HoursInv
<1>3. CASE StartEscalating
  <2>1. /\ outgoing' = Violations(log) /\ told' = {} /\ UNCHANGED <<clock, log>>
    BY <1>3 DEF StartEscalating
  <2> QED
    BY <2>1, BreachesAre DEF HoursInv, ClockAgreesWithLog
<1>4. ASSUME NEW ok \in BOOLEAN, PublishEscalation(ok)
      PROVE  HoursInv'
  <2>1. outgoing # <<>> /\ UNCHANGED <<clock, log>>
    BY <1>4 DEF PublishEscalation
  <2>2. CASE ok
    <3>1. told' = told \cup {Head(outgoing)} /\ outgoing' = Tail(outgoing)
      BY <1>4, <2>2 DEF PublishEscalation
    <3>2. outgoing' \in Seq(Breach) /\ Range(outgoing) \subseteq {Head(outgoing)} \cup Range(Tail(outgoing))
      BY <2>1, <3>1, HeadAndRest DEF HoursInv
    <3> QED
      BY <2>1, <3>1, <3>2 DEF HoursInv, ClockAgreesWithLog
  <2>3. CASE ~ok
    BY <1>4, <2>1, <2>3, EmptySeq DEF PublishEscalation, HoursInv, ClockAgreesWithLog
  <2> QED
    BY <2>2, <2>3
<1> QED
  BY <1>1, <1>2, <1>3, <1>4 DEF HNext

\* An empty log has an empty window, and no hours in it.
LEMMA HoursBegin == HInit => HoursInv
<1> SUFFICES ASSUME HInit PROVE HoursInv
  OBVIOUS
<1>1. log = <<>> /\ outgoing = <<>> /\ log \in Seq(Interval) /\ outgoing \in Seq(Breach)
  BY EmptySeq DEF HInit
<1>2. Window(<<>>) = <<>>
  <2>1. Max({0}) = 0
    <3>1. {0} \subseteq 0..0 /\ {0} # {}
      OBVIOUS
    <3> QED
      BY <3>1, Greatest
  <2>2. {0} \cup {i \in DOMAIN <<>> : Resets(<<>>[i].status, Length(<<>>[i]))} = {0}
    OBVIOUS
  <2>3. SubSeq(<<>>, 1, 0) = <<>>
    BY SubSeqEmpty
  <2> QED
    BY <2>1, <2>2, <2>3 DEF Window, Since
<1>3. \A S : Total(<<>>, S) = 0
  <2>1. PICK iv \in Interval : TRUE
    <3>1. [status |-> "OffDuty", start |-> 0, end |-> 0] \in Interval
      BY DEF Interval, Status
    <3> QED
      BY <3>1
  <2>2. PICK none : none = <<>> /\ none \in Seq(Interval)
    BY <1>1
  <2> QED
    BY <2>1, <2>2, TotalAppend
<1> QED
  BY <1>1, <1>2, <1>3 DEF HInit, HoursInv, ClockAgreesWithLog, Status

\* What was breached before an interval that is no rest is breached after it: the
\* totals only grow.
LEMMA BreachesStand ==
  ASSUME HoursInv, [HNext]_hvars, log' # log
  PROVE  LET now == Last(log') IN
         /\ ~Resets(now.status, Length(now)) =>
              Range(Violations(log)) \cap {"DrivingLimit", "OnDutyLimit"} \subseteq Range(Violations(log'))
         /\ Working(now.status) =>
              ("BreakRequired" \in Range(Violations(log)) => "BreakRequired" \in Range(Violations(log')))
<1>1. PICK s \in Status, g \in Gaps, n \in Lengths : LogInterval(s, g, n)
  BY DEF HNext, hvars, StartEscalating, PublishEscalation
<1>2. PICK iv \in Interval :
         /\ iv.status = s /\ Length(iv) = n /\ n \in Nat
         /\ log' = Append(log, iv)
  BY <1>1, LogsOne
<1>3. Last(log') = iv
  BY <1>2, AppendProperties, LenProperties DEF Last, HoursInv
<1>4. /\ Driven(log) \in Int /\ Worked(log) \in Int
      /\ Driven(log') = IF Resets(s, n) THEN 0 ELSE Adds(iv, {"Driving"}, Driven(log))
      /\ Worked(log') = IF Resets(s, n) THEN 0 ELSE Adds(iv, {"OnDuty", "Driving"}, Worked(log))
  BY <1>2, WindowTotals DEF HoursInv, Driven, Worked
<1>5. /\ SinceBreak(log) \in Int
      /\ SinceBreak(log') = IF ~Working(s) /\ n >= 1 THEN 0 ELSE Adds(iv, {"Driving"}, SinceBreak(log))
  BY <1>2, BreakGrows DEF HoursInv
<1>6. ~Resets(s, n) => /\ Driven(log) > 22 => Driven(log') > 22
                       /\ Worked(log) > 28 => Worked(log') > 28
  BY <1>2, <1>4 DEF Adds
<1>7. Working(s) /\ SinceBreak(log) >= 16 => SinceBreak(log') >= 16
  BY <1>2, <1>5 DEF Adds
<1>8. /\ "DrivingLimit" \in Range(Violations(log)) <=> Driven(log) > 22
      /\ "OnDutyLimit" \in Range(Violations(log)) <=> Worked(log) > 28
      /\ "BreakRequired" \in Range(Violations(log)) <=> SinceBreak(log) >= 16
  BY BreachesAre
<1>9. /\ "DrivingLimit" \in Range(Violations(log')) <=> Driven(log') > 22
      /\ "OnDutyLimit" \in Range(Violations(log')) <=> Worked(log') > 28
      /\ "BreakRequired" \in Range(Violations(log')) <=> SinceBreak(log') >= 16
  BY BreachesAre
<1> QED
  BY <1>2, <1>3, <1>6, <1>7, <1>8, <1>9

\* The publish that ends a round well is of the one violation left.
LEMMA RoundTells ==
  ASSUME HoursInv, [HNext]_hvars, lastRound' = "ok", lastRound # "ok"
  PROVE  Range(Violations(log)) \subseteq told'
<1>1. PublishEscalation(TRUE)
  BY DEF HNext, hvars, LogInterval, StartEscalating, PublishEscalation
<1>2. /\ outgoing # <<>> /\ outgoing \in Seq(Breach)
      /\ told' = told \cup {Head(outgoing)} /\ Tail(outgoing) = <<>>
  BY <1>1 DEF PublishEscalation, HoursInv
<1>3. Range(outgoing) = {Head(outgoing)} \cup Range(Tail(outgoing))
  BY <1>2, HeadAndRest
<1>4. Range(<<>>) = {}
  BY DEF Range
<1> QED
  BY <1>2, <1>3, <1>4 DEF HoursInv

\* HosClock's totals are those of HosLog's window after any series of intervals, the
\* overlapping ones included; a breach stands until a rest of its kind; and a round
\* of publish_escalations that reports success told every violation.
THEOREM ClockStands == HSpec => HoursStand
<1>1. HoursInv /\ [HNext]_hvars => HoursInv'
  BY HoursStep
<1>2. HoursInv => ClockAgreesWithLog
  BY DEF HoursInv
<1>3. HoursInv /\ [HNext]_hvars =>
        [log' # log =>
           LET now == Last(log') IN
           /\ ~Resets(now.status, Length(now)) =>
                Range(Violations(log)) \intersect {"DrivingLimit", "OnDutyLimit"} \subseteq Range(Violations(log'))
           /\ Working(now.status) =>
                ("BreakRequired" \in Range(Violations(log)) => "BreakRequired" \in Range(Violations(log')))]_hvars
  BY BreachesStand
<1>4. HoursInv /\ [HNext]_hvars =>
        [lastRound' = "ok" /\ lastRound # "ok" => Range(Violations(log)) \subseteq told']_hvars
  BY RoundTells
<1> QED
  BY <1>1, <1>2, <1>3, <1>4, HoursBegin, PTL DEF HSpec, HoursStand, BreachStands, RoundTellsAll
-----------------------------------------------------------------------------
(* Splitting an amount: what allocate gives for every amount and ratios.   *)

\* Summing a sequence: one sum after each element.
LEMMA SeqChain ==
  ASSUME NEW terms \in Seq(Int)
  PROVE  \E r \in [0..Len(terms) -> Int] :
           /\ r[0] = 0 /\ \A i \in 1..Len(terms) : r[i] = r[i - 1] + terms[i]
           /\ SumSeq(terms) = r[Len(terms)]
<1> DEFINE N == Len(terms)
           F == [i \in 1..N |-> [t \in Int |-> t + terms[i]]]
           Body(h, s) == IF s = {} THEN 0
                         ELSE h[s \ {Max(s)}] + terms[Max(s)]
           iter == CHOOSE h : h = [s \in SUBSET (DOMAIN terms) |-> Body(h, s)]
<1>1. N \in Nat /\ DOMAIN terms = 1..N /\ \A i \in 1..N : terms[i] \in Int
  BY ElementOfSeq
<1>2. SumSeq(terms) = iter[DOMAIN terms]
  BY DEF SumSeq, Zero, FoldLeft, MapThenFoldSet
<1>3. F \in [1..N -> [Int -> Int]]
  BY <1>1
<1>4. \A s \in (SUBSET (1..N)) \ {{}} : Max(s) \in 1..N /\ s \ {Max(s)} \in SUBSET (1..N)
  <2>1. ASSUME NEW s \in (SUBSET (1..N)) \ {{}} PROVE Max(s) \in s
    <3>1. s \subseteq 0..N /\ s # {}
      OBVIOUS
    <3> QED
      BY <1>1, <3>1, Greatest
  <2> QED
    BY <2>1
<1>5. \A h, s : s \in (SUBSET (1..N)) \ {{}} /\ h[s \ {Max(s)}] \in Int
                => F[Max(s)][h[s \ {Max(s)}]] = Body(h, s)
  BY <1>4
<1>6. \A h : Body(h, {}) = 0
  OBVIOUS
<1> HIDE DEF Body, F, N, iter
<1>7. Foldable(N, Int, F, 0)
  <2>1. 0 \in Int /\ N \in Nat
    BY <1>1
  <2> QED
    BY <1>3, <2>1, FoldRule
<1>8. PICK g \in [SUBSET (1..N) -> Int], r \in [0..N -> Int] :
        /\ Unfolds(g, N, F, 0) /\ Chain(r, N, F, 0)
        /\ \A h : Follows(h, N, Int, F, 0) => h[1..N] = r[N]
  BY <1>7 DEF Foldable
<1>9. g = [s \in SUBSET (DOMAIN terms) |-> Body(g, s)]
  <2>1. ASSUME NEW s \in SUBSET (1..N) PROVE g[s] = Body(g, s)
    BY <1>4, <1>5, <1>6, <1>8 DEF Unfolds
  <2> QED
    BY <1>1, <2>1
<1>10. iter = [s \in SUBSET (DOMAIN terms) |-> Body(iter, s)]
  BY <1>9 DEF iter
<1>11. Follows(iter, N, Int, F, 0)
  BY <1>1, <1>5, <1>6, <1>10 DEF Follows
<1>12. iter[1..N] = r[N]
  BY <1>8, <1>11
<1>13. \A i \in 1..N : r[i] = r[i - 1] + terms[i]
  <2>1. ASSUME NEW i \in 1..N PROVE r[i] = r[i - 1] + terms[i]
    <3>1. i - 1 \in 0..N /\ r[i - 1] \in Int
      BY <1>1, <1>8
    <3> QED
      BY <1>8, <3>1 DEF Chain, F
  <2> QED
    BY <2>1
<1> QED
  BY <1>1, <1>2, <1>8, <1>12, <1>13 DEF Chain, N

\* The first is x, and the rest as in another sequence.
FirstThen(terms, x, rest) ==
  /\ Len(terms) = Len(rest) + 1 /\ terms[1] = x
  /\ \A i \in 1..Len(rest) : terms[i + 1] = rest[i]

LEMMA SumOfFirst ==
  ASSUME NEW rest \in Seq(Int), NEW x \in Int, NEW terms \in Seq(Int), FirstThen(terms, x, rest)
  PROVE  SumSeq(terms) = x + SumSeq(rest)
<1>1. PICK n \in Nat : n = Len(rest)
  BY LenProperties
<1>2. PICK r \in [0..n -> Int] : /\ r[0] = 0 /\ \A i \in 1..n : r[i] = r[i - 1] + rest[i]
                                 /\ SumSeq(rest) = r[n]
  BY <1>1, SeqChain
<1>3. PICK q \in [0..(n + 1) -> Int] : /\ q[0] = 0 /\ \A i \in 1..(n + 1) : q[i] = q[i - 1] + terms[i]
                                       /\ SumSeq(terms) = q[n + 1]
  BY <1>1, SeqChain DEF FirstThen
<1>t. \A i \in 1..n : rest[i] \in Int
  BY <1>1, ElementOfSeq
<1>u. terms[1] = x /\ \A i \in 1..n : terms[i + 1] = rest[i]
  BY <1>1 DEF FirstThen
<1> DEFINE G == {k \in 0..n : q[k + 1] = x + r[k]}
<1>0. \A k \in 0..n : k \in G <=> q[k + 1] = x + r[k]
  OBVIOUS
<1> HIDE DEF G
<1>4. 0 \in G
  <2>1. q[1] = q[0] + terms[1] /\ 0 + 1 = 1 /\ 1 \in 1..(n + 1) /\ 0 \in 0..n
    BY <1>3
  <2>2. q[0 + 1] = x + r[0]
    BY <1>2, <1>3, <1>u, <2>1
  <2> QED
    BY <1>0, <2>1, <2>2
<1>5. ASSUME NEW k \in 1..n, k - 1 \in G PROVE k \in G
  <2>1. k + 1 \in 1..(n + 1) /\ (k + 1) - 1 = k /\ (k - 1) + 1 = k /\ k - 1 \in 0..n /\ k \in 0..n
    OBVIOUS
  <2>2. q[(k - 1) + 1] = x + r[k - 1]
    BY <1>0, <1>5, <2>1
  <2>3. q[k + 1] = q[(k + 1) - 1] + terms[k + 1]
    BY <1>3, <2>1
  <2>4. r[k] = r[k - 1] + rest[k] /\ terms[k + 1] = rest[k]
    BY <1>2, <1>u
  <2>5. PICK a \in Int, b \in Int : a = r[k - 1] /\ b = rest[k]
    BY <1>t, <2>1
  <2>6. q[k + 1] = (x + a) + b /\ r[k] = a + b
    BY <2>1, <2>2, <2>3, <2>4, <2>5
  <2> QED
    BY <1>0, <2>1, <2>6
<1>6. Climbs(G, n)
  BY <1>4, <1>5 DEF Climbs
<1>7. n \in 0..n /\ n \in G
  BY <1>6, StepByStep
<1>8. q[n + 1] = x + r[n]
  BY <1>0, <1>7
<1> QED
  BY <1>2, <1>3, <1>8

\* A sequence that is nowhere more than another has no greater sum.
NowhereMore(terms, others) ==
  Len(terms) = Len(others) /\ \A i \in 1..Len(terms) : terms[i] <= others[i]

LEMMA SumsInOrder ==
  ASSUME NEW terms \in Seq(Int), NEW others \in Seq(Int), NowhereMore(terms, others)
  PROVE  SumSeq(terms) \in Int /\ SumSeq(others) \in Int /\ SumSeq(terms) <= SumSeq(others)
<1>1. PICK n \in Nat : n = Len(terms) /\ n = Len(others)
  BY LenProperties DEF NowhereMore
<1>2. PICK r \in [0..n -> Int] : /\ r[0] = 0 /\ \A i \in 1..n : r[i] = r[i - 1] + terms[i]
                                 /\ SumSeq(terms) = r[n]
  BY <1>1, SeqChain
<1>3. PICK q \in [0..n -> Int] : /\ q[0] = 0 /\ \A i \in 1..n : q[i] = q[i - 1] + others[i]
                                 /\ SumSeq(others) = q[n]
  BY <1>1, SeqChain
<1>t. \A i \in 1..n : terms[i] \in Int /\ others[i] \in Int
  BY <1>1, ElementOfSeq
<1>u. \A i \in 1..n : terms[i] <= others[i]
  BY <1>1 DEF NowhereMore
<1> DEFINE G == {k \in 0..n : r[k] <= q[k]}
<1>0. \A k \in 0..n : k \in G <=> r[k] <= q[k]
  OBVIOUS
<1> HIDE DEF G
<1>4. 0 \in G
  BY <1>0, <1>2, <1>3
<1>5. ASSUME NEW k \in 1..n, k - 1 \in G PROVE k \in G
  <2>1. k - 1 \in 0..n /\ k \in 0..n
    OBVIOUS
  <2>2. r[k - 1] <= q[k - 1]
    BY <1>0, <1>5, <2>1
  <2>3. PICK a \in Int, b \in Int, c \in Int, d \in Int :
          a = r[k - 1] /\ b = terms[k] /\ c = q[k - 1] /\ d = others[k]
    BY <1>t, <2>1
  <2>4. r[k] = a + b /\ q[k] = c + d /\ a <= c /\ b <= d
    BY <1>2, <1>3, <1>u, <2>2, <2>3
  <2>5. a + b <= c + d
    <3>1. a <= c /\ b <= d
      BY <2>4
    <3> QED
      BY <3>1
  <2>6. r[k] <= q[k]
    BY <2>4, <2>5
  <2> QED
    BY <1>0, <2>1, <2>6
<1>6. Climbs(G, n)
  BY <1>4, <1>5 DEF Climbs
<1>7. n \in 0..n /\ n \in G
  BY <1>6, StepByStep
<1>8. r[n] <= q[n] /\ r[n] \in Int /\ q[n] \in Int
  BY <1>0, <1>7
<1> QED
  BY <1>2, <1>3, <1>8

\* Nothing adds up to nothing, and amounts that are not negative to one that is not.
LEMMA SumsOfNaturals ==
  ASSUME NEW terms \in Seq(Nat)
  PROVE  /\ SumSeq(terms) \in Nat
         /\ (\A i \in 1..Len(terms) : terms[i] = 0) => SumSeq(terms) = 0
<1>1. terms \in Seq(Int)
  BY SeqDef
<1>2. PICK n \in Nat : n = Len(terms)
  BY LenProperties
<1>3. PICK r \in [0..n -> Int] : /\ r[0] = 0 /\ \A i \in 1..n : r[i] = r[i - 1] + terms[i]
                                 /\ SumSeq(terms) = r[n]
  BY <1>1, <1>2, SeqChain
<1>t. \A i \in 1..n : terms[i] \in Nat
  BY <1>2, ElementOfSeq
<1> DEFINE none == \A i \in 1..n : terms[i] = 0
           G == {k \in 0..n : r[k] >= 0 /\ (none => r[k] = 0)}
<1>0. \A k \in 0..n : k \in G <=> r[k] >= 0 /\ (none => r[k] = 0)
  OBVIOUS
<1> HIDE DEF G
<1>4. 0 \in G
  BY <1>0, <1>3
<1>5. ASSUME NEW k \in 1..n, k - 1 \in G PROVE k \in G
  <2>1. k - 1 \in 0..n /\ k \in 0..n /\ (none => terms[k] = 0)
    OBVIOUS
  <2> HIDE DEF none
  <2>2. r[k - 1] >= 0 /\ (none => r[k - 1] = 0)
    BY <1>0, <1>5, <2>1
  <2>3. PICK a \in Int, b \in Nat : a = r[k - 1] /\ b = terms[k]
    BY <1>t, <2>1
  <2>4. r[k] = a + b /\ a >= 0
    BY <1>3, <2>2, <2>3
  <2>5. r[k] >= 0
    BY <2>3, <2>4
  <2>6. none => r[k] = 0
    BY <2>1, <2>2, <2>3, <2>4
  <2> QED
    BY <1>0, <2>1, <2>5, <2>6
<1>6. Climbs(G, n)
  BY <1>4, <1>5 DEF Climbs
<1>7. n \in 0..n /\ n \in G
  BY <1>6, StepByStep
<1>8. r[n] \in Int /\ r[n] >= 0 /\ (none => r[n] = 0)
  BY <1>0, <1>7
<1> QED
  BY <1>2, <1>3, <1>8

\* One more for each position of a set adds as many as the set has.
OneMoreOn(terms, others, B) ==
  Len(terms) = Len(others) /\ \A i \in 1..Len(terms) : terms[i] = others[i] + (IF i \in B THEN 1 ELSE 0)

LEMMA SumsWithBonus ==
  ASSUME NEW terms \in Seq(Int), NEW others \in Seq(Int), NEW B \in SUBSET (1..Len(terms)),
         OneMoreOn(terms, others, B)
  PROVE  SumSeq(terms) = SumSeq(others) + Cardinality(B)
<1>1. PICK n \in Nat : n = Len(terms) /\ n = Len(others)
  BY LenProperties DEF OneMoreOn
<1>2. PICK r \in [0..n -> Int] : /\ r[0] = 0 /\ \A i \in 1..n : r[i] = r[i - 1] + terms[i]
                                 /\ SumSeq(terms) = r[n]
  BY <1>1, SeqChain
<1>3. PICK q \in [0..n -> Int] : /\ q[0] = 0 /\ \A i \in 1..n : q[i] = q[i - 1] + others[i]
                                 /\ SumSeq(others) = q[n]
  BY <1>1, SeqChain
<1>t. \A i \in 1..n : others[i] \in Int
  BY <1>1, ElementOfSeq
<1>u. \A i \in 1..n : terms[i] = others[i] + (IF i \in B THEN 1 ELSE 0)
  BY <1>1 DEF OneMoreOn
<1>b. \A i \in B : i \in Int /\ 1 <= i /\ i <= n
  <2>1. \A i \in B : i \in 1..n
    BY <1>1
  <2> QED
    BY <2>1
<1> DEFINE upto(k) == {i \in B : i <= k}
           Good(k) == IsFiniteSet(upto(k)) /\ Cardinality(upto(k)) \in Nat /\ r[k] = q[k] + Cardinality(upto(k))
           G == {k \in 0..n : Good(k)}
<1>4. Good(0)
  <2>1. upto(0) = {}
    <3>1. \A i \in B : ~(i <= 0)
      BY <1>b
    <3> QED
      BY <3>1, Zenon
  <2>2. IsFiniteSet({}) /\ Cardinality({}) = 0
    BY FS_EmptySet
  <2> HIDE DEF upto
  <2>3. r[0] = q[0] + 0
    BY <1>2, <1>3
  <2>4. IsFiniteSet(upto(0)) /\ Cardinality(upto(0)) = 0
    BY <2>1, <2>2, Zenon
  <2> QED
    BY <2>3, <2>4
<1>5. ASSUME NEW k \in 1..n, Good(k - 1) PROVE Good(k)
  <2>1. PICK a \in Int, b \in Int, d \in Int : a = r[k - 1] /\ b = q[k - 1] /\ d = others[k]
    <3>1. k - 1 \in 0..n
      OBVIOUS
    <3> QED
      BY <1>t, <3>1
  <2>2. PICK c \in Nat : c = Cardinality(upto(k - 1)) /\ a = b + c
    BY <1>5, <2>1
  <2>3. IsFiniteSet(upto(k - 1))
    BY <1>5
  <2>4. r[k] = a + terms[k] /\ q[k] = b + d
    BY <1>2, <1>3, <2>1
  <2>5. CASE k \in B
    <3>1. upto(k) = upto(k - 1) \cup {k} /\ k \notin upto(k - 1)
      <4>1. (\A i \in B : i <= k <=> i <= k - 1 \/ i = k) /\ ~(k <= k - 1)
        BY <1>b
      <4> QED
        BY <2>5, <4>1, Zenon
    <3> HIDE DEF upto
    <3>2. IsFiniteSet(upto(k)) /\ Cardinality(upto(k)) = c + 1
      <4>1. PICK T : T = upto(k - 1)
        OBVIOUS
      <4>2. IsFiniteSet(T \cup {k}) /\ Cardinality(T \cup {k}) = Cardinality(T) + 1
        BY <2>3, <3>1, <4>1, FS_AddElement, Zenon
      <4> QED
        BY <2>2, <3>1, <4>1, <4>2
    <3>3. terms[k] = d + 1
      BY <1>u, <2>1, <2>5
    <3>4. r[k] = q[k] + (c + 1) /\ c + 1 \in Nat
      <4>1. r[k] = (b + c) + (d + 1) /\ q[k] = b + d
        BY <2>2, <2>4, <3>3
      <4>2. (b + c) + (d + 1) = (b + d) + (c + 1) /\ c + 1 \in Nat
        OBVIOUS
      <4> QED
        BY <4>1, <4>2
    <3> QED
      BY <3>2, <3>4
  <2>6. CASE k \notin B
    <3>1. upto(k) = upto(k - 1)
      <4>1. \A i \in B : i <= k <=> i <= k - 1
        BY <1>b, <2>6
      <4> QED
        BY <4>1
    <3> HIDE DEF upto
    <3>2. terms[k] = d
      BY <1>u, <2>1, <2>6
    <3>3. r[k] = q[k] + c
      BY <2>2, <2>4, <3>2
    <3> QED
      BY <2>2, <2>3, <3>1, <3>3
  <2> QED
    BY <2>5, <2>6
<1>6. upto(n) = B
  BY <1>b
<1> HIDE DEF Good, upto
<1>7. Climbs(G, n)
  BY <1>4, <1>5 DEF Climbs
<1>8. Good(n)
  <2> HIDE DEF G
  <2>1. n \in G
    BY <1>7, StepByStep
  <2> QED
    BY <2>1 DEF G
<1> QED
  BY <1>2, <1>3, <1>6, <1>8 DEF Good

\* As many values as positions, when no value comes twice.
NeverTwice(f, m) == \A i, j \in 1..m : f[i] = f[j] => i = j

LEMMA ImageCount ==
  ASSUME NEW m \in Nat, NEW f, NeverTwice(f, m)
  PROVE  IsFiniteSet({f[j] : j \in 1..m}) /\ Cardinality({f[j] : j \in 1..m}) = m
<1>1. PICK T : T = {f[j] : j \in 1..m}
  OBVIOUS
<1>2. PICK g : g = [j \in 1..m |-> f[j]]
  OBVIOUS
<1>3. g \in Bijection(1..m, T)
  BY <1>1, <1>2 DEF Bijection, Injection, Surjection, IsInjective, NeverTwice
<1>4. IsFiniteSet(1..m) /\ Cardinality(1..m) = m
  <2>1. IsFiniteSet(1..m) /\ Cardinality(1..m) = IF 1 > m THEN 0 ELSE m - 1 + 1
    BY FS_Interval
  <2> QED
    BY <2>1
<1>5. IsFiniteSet(T) /\ Cardinality(T) = Cardinality(1..m)
  BY <1>3, <1>4, FS_Bijection DEF ExistsBijection
<1> QED
  BY <1>1, <1>4, <1>5

\* In a total order of the first n numbers, as many as L come before fewer than L.
Ahead(R, n, i) == {j \in 1..n : <<j, i>> \in R}

LEMMA RanksCount ==
  ASSUME NEW n \in Nat, NEW R, Ranks(R, 1..n), OneWay(R, 1..n), NEW L \in 0..n
  PROVE  Cardinality({i \in 1..n : Cardinality(Ahead(R, n, i)) < L}) = L
<1>1. IsFiniteSet(1..n) /\ Cardinality(1..n) = n
  <2>1. IsFiniteSet(1..n) /\ Cardinality(1..n) = IF 1 > n THEN 0 ELSE n - 1 + 1
    BY FS_Interval
  <2> QED
    BY <2>1
<1>2. PICK ps \in [1..n -> 1..n] :
        Range(ps) = 1..n /\ \A i, j \in DOMAIN ps : i < j => <<ps[i], ps[j]>> \in R
  <2>1. PICK S : S = 1..n
    OBVIOUS
  <2>2. \E ps \in [1..Cardinality(S) -> S] :
           Range(ps) = S /\ \A i, j \in DOMAIN ps : i < j => <<ps[i], ps[j]>> \in R
    BY <1>1, <2>1, SortedExists
  <2> QED
    BY <1>1, <2>1, <2>2
<1>3. \A i, j \in 1..n : i < j => <<ps[i], ps[j]>> \in R
  BY <1>2
<1>4. \A x \in 1..n : \E k \in 1..n : x = ps[k]
  BY <1>2 DEF Range
<1>5. \A i, j \in 1..n : <<ps[i], ps[j]>> \in R <=> i < j
  <2>1. ASSUME NEW i \in 1..n, NEW j \in 1..n, <<ps[i], ps[j]>> \in R, ~(i < j) PROVE FALSE
    <3>1. ps[i] # ps[j] /\ <<ps[j], ps[i]>> \notin R
      BY <2>1 DEF OneWay
    <3>2. j < i
      BY <2>1, <3>1
    <3> QED
      BY <1>3, <3>1, <3>2
  <2> QED
    BY <1>3, <2>1
<1>6. NeverTwice(ps, n)
  <2>1. ASSUME NEW i \in 1..n, NEW j \in 1..n, ps[i] = ps[j], i # j PROVE FALSE
    <3>1. i < j \/ j < i
      BY <2>1
    <3> QED
      BY <1>3, <2>1, <3>1 DEF OneWay
  <2> QED
    BY <2>1 DEF NeverTwice
<1>7. \A k \in 1..n : Cardinality(Ahead(R, n, ps[k])) = k - 1
  <2>1. ASSUME NEW k \in 1..n PROVE Cardinality(Ahead(R, n, ps[k])) = k - 1
    <3>1. \A j \in 1..n : j < k <=> j \in 1..(k - 1)
      OBVIOUS
    <3>2. Ahead(R, n, ps[k]) = {ps[j] : j \in 1..(k - 1)}
      <4>1. ASSUME NEW x \in Ahead(R, n, ps[k]) PROVE x \in {ps[j] : j \in 1..(k - 1)}
        <5>1. PICK j \in 1..n : x = ps[j]
          BY <1>4 DEF Ahead
        <5>2. j < k
          BY <1>5, <5>1 DEF Ahead
        <5> QED
          BY <3>1, <5>1, <5>2
      <4>2. ASSUME NEW j \in 1..(k - 1) PROVE ps[j] \in Ahead(R, n, ps[k])
        <5>1. j \in 1..n /\ j < k
          OBVIOUS
        <5> QED
          BY <1>5, <5>1 DEF Ahead
      <4> QED
        BY <4>1, <4>2
    <3>3. NeverTwice(ps, k - 1) /\ k - 1 \in Nat
      BY <1>6 DEF NeverTwice
    <3> QED
      BY <3>2, <3>3, ImageCount
  <2> QED
    BY <2>1
<1>8. {i \in 1..n : Cardinality(Ahead(R, n, i)) < L} = {ps[k] : k \in 1..L}
  <2>1. ASSUME NEW x \in 1..n, Cardinality(Ahead(R, n, x)) < L PROVE x \in {ps[k] : k \in 1..L}
    <3>1. PICK k \in 1..n : x = ps[k]
      BY <1>4
    <3>2. k - 1 < L
      BY <1>7, <2>1, <3>1
    <3>3. k \in 1..L
      BY <3>2
    <3> QED
      BY <3>1, <3>3
  <2>2. ASSUME NEW k \in 1..L PROVE ps[k] \in 1..n /\ Cardinality(Ahead(R, n, ps[k])) < L
    <3>1. k \in 1..n /\ k - 1 < L
      OBVIOUS
    <3> QED
      BY <1>7, <3>1
  <2> QED
    BY <2>1, <2>2
<1>9. NeverTwice(ps, L) /\ L \in Nat
  BY <1>6 DEF NeverTwice
<1> QED
  BY <1>8, <1>9, ImageCount

\* A function on the first n numbers is a sequence of n.
LEMMA FunctionIsSeq ==
  ASSUME NEW n \in Nat, NEW S, NEW f, DOMAIN f = 1..n, f = [i \in 1..n |-> f[i]], \A i \in 1..n : f[i] \in S
  PROVE  f \in Seq(S) /\ Len(f) = n
<1>1. f \in [1..n -> S]
  OBVIOUS
<1> QED
  BY <1>1, IsASeq, LenProperties

\* Division, and what products of naturals compare as.
LEMMA DivisionIs ==
  ASSUME NEW a \in Nat, NEW b \in Nat \ {0}
  PROVE  a \div b \in Nat /\ b * (a \div b) <= a /\ a < b * (a \div b) + b
  OBVIOUS

LEMMA DivisionExact ==
  ASSUME NEW a \in Nat, NEW b \in Nat \ {0}
  PROVE  (b * a) \div b = a
  OBVIOUS

LEMMA CommonFactor ==
  ASSUME NEW a \in Int, NEW b \in Int, NEW c \in Nat \ {0}
  PROVE  /\ c * a < c * b + c => a <= b
         /\ c * a < c * b => a < b
         /\ c * a = c * b => a = b
  OBVIOUS

LEMMA LessAdds ==
  ASSUME NEW a \in Int, NEW b \in Int, NEW c \in Int, NEW d \in Int, NEW e \in Int, NEW f \in Int,
         a < b + e, c < d + f
  PROVE  a + c < (b + d) + (e + f)
  OBVIOUS

\* Every share, cut to the minor unit.
Cut(amount, ratios) == [i \in DOMAIN ratios |-> TowardsZero(amount * ratios[i], SumSeq(ratios))]
CutShort(amount, ratios, total, whole) ==
  \A i \in 1..Len(ratios) : total * whole[i] <= amount * ratios[i] /\ amount * ratios[i] < total * whole[i] + total

LEMMA CutIs ==
  ASSUME NEW amount \in Nat, NEW ratios \in Seq(Nat), NEW total \in Nat \ {0}, total = SumSeq(ratios)
  PROVE  /\ Cut(amount, ratios) \in Seq(Nat) /\ Len(Cut(amount, ratios)) = Len(ratios)
         /\ CutShort(amount, ratios, total, Cut(amount, ratios))
<1>1. PICK n \in Nat : n = Len(ratios) /\ DOMAIN ratios = 1..n
  BY LenProperties
<1>2. PICK whole : whole = Cut(amount, ratios)
  OBVIOUS
<1>3. ASSUME NEW i \in 1..n
      PROVE  /\ whole[i] \in Nat
             /\ total * whole[i] <= amount * ratios[i] /\ amount * ratios[i] < total * whole[i] + total
  <2>1. ratios[i] \in Nat
    BY <1>1, ElementOfSeq
  <2>2. PICK v \in Nat : v = amount * ratios[i]
    BY <2>1
  <2>3. whole[i] = v \div total
    <3>1. whole[i] = TowardsZero(v, total)
      BY <1>1, <1>2, <2>2 DEF Cut
    <3> QED
      BY <2>2, <3>1 DEF TowardsZero
  <2> QED
    BY <2>2, <2>3, DivisionIs
<1>4. whole \in [1..n -> Nat]
  <2>1. DOMAIN whole = 1..n /\ whole = [i \in 1..n |-> whole[i]]
    BY <1>1, <1>2 DEF Cut
  <2> QED
    BY <1>3, <2>1
<1>5. whole \in Seq(Nat) /\ Len(whole) = n
  BY <1>4, IsASeq, LenProperties
<1> QED
  BY <1>1, <1>2, <1>3, <1>5 DEF CutShort

\* What is left over is less than a unit for each part.
LEMMA LeftoverIs ==
  ASSUME NEW amount \in Nat, NEW ratios \in Seq(Nat), NEW total \in Nat \ {0}, total = SumSeq(ratios),
         NEW whole \in Seq(Nat), Len(whole) = Len(ratios), CutShort(amount, ratios, total, whole)
  PROVE  /\ SumSeq(whole) \in Nat /\ SumSeq(whole) <= amount
         /\ amount - SumSeq(whole) < Len(ratios)
<1>1. PICK n \in Nat : n = Len(ratios)
  BY LenProperties
<1>2. ratios \in Seq(Int) /\ whole \in Seq(Int)
  BY SeqDef
<1>3. PICK r \in [0..n -> Int] : /\ r[0] = 0 /\ \A i \in 1..n : r[i] = r[i - 1] + ratios[i]
                                 /\ SumSeq(ratios) = r[n]
  BY <1>1, <1>2, SeqChain
<1>4. PICK q \in [0..n -> Int] : /\ q[0] = 0 /\ \A i \in 1..n : q[i] = q[i - 1] + whole[i]
                                 /\ SumSeq(whole) = q[n]
  BY <1>1, <1>2, SeqChain
<1>t. \A i \in 1..n : ratios[i] \in Nat /\ whole[i] \in Nat
  BY <1>1, ElementOfSeq
<1>u. \A i \in 1..n : total * whole[i] <= amount * ratios[i] /\ amount * ratios[i] < total * whole[i] + total
  BY <1>1 DEF CutShort
<1>d. \A x, y, z \in Int : x * (y + z) = x * y + x * z
  OBVIOUS
<1> DEFINE Good(k) == /\ total * q[k] <= amount * r[k]
                      /\ amount * r[k] < total * q[k] + total * k \/ k = 0
           G == {k \in 0..n : Good(k)}
<1>5. Good(0)
  BY <1>3, <1>4
<1>6. ASSUME NEW k \in 1..n, Good(k - 1) PROVE Good(k)
  <2>1. PICK a \in Int, b \in Int, c \in Nat, d \in Nat :
          a = r[k - 1] /\ b = q[k - 1] /\ c = ratios[k] /\ d = whole[k]
    <3>1. k - 1 \in 0..n
      OBVIOUS
    <3> QED
      BY <1>t, <3>1
  <2>2. r[k] = a + c /\ q[k] = b + d
    BY <1>3, <1>4, <2>1
  <2>j. PICK j \in Nat : j = k - 1 /\ k = j + 1
    OBVIOUS
  <2>k. PICK ta \in Int : ta = amount * a
    OBVIOUS
  <2>l. PICK tc \in Int : tc = amount * c
    OBVIOUS
  <2>m. PICK tb \in Int : tb = total * b
    OBVIOUS
  <2>n. PICK td \in Int : td = total * d
    OBVIOUS
  <2>o. PICK tk \in Int : tk = total * j
    OBVIOUS
  <2>3. ta = amount * a /\ tc = amount * c /\ tb = total * b /\ td = total * d /\ tk = total * j
    BY <2>k, <2>l, <2>m, <2>n, <2>o
  <2>4. amount * r[k] = ta + tc /\ total * q[k] = tb + td
    BY <1>d, <2>2, <2>3
  <2>5. total * k = tk + total /\ (j = 0 => tk = 0)
    <3>1. total * (j + 1) = total * j + total * 1 /\ total * 1 = total /\ total * 0 = 0
      OBVIOUS
    <3>2. total * k = tk + total
      BY <2>j, <2>o, <3>1
    <3>3. j = 0 => tk = 0
      BY <2>o, <3>1
    <3> QED
      BY <3>2, <3>3
  <2>6. td <= tc /\ tc < td + total
    BY <1>u, <2>1, <2>3
  <2>7. tb <= ta /\ (ta < tb + tk \/ j = 0)
    BY <1>6, <2>1, <2>3, <2>j
  <2>8. tb + td <= ta + tc
    BY <2>6, <2>7
  <2>9. ta + tc < (tb + td) + (tk + total)
    <3>1. CASE ta < tb + tk
      <4>1. tc < td + total
        BY <2>6
      <4>2. total \in Int
        OBVIOUS
      <4> QED
        BY <3>1, <4>1, <4>2, LessAdds, Zenon
    <3>2. CASE j = 0
      <4>1. a = 0 /\ b = 0 /\ tk = 0
        BY <1>3, <1>4, <2>1, <2>5, <2>j, <3>2
      <4>2. ta = 0 /\ tb = 0
        BY <2>3, <4>1
      <4> QED
        BY <2>6, <4>1, <4>2
    <3> QED
      BY <2>7, <3>1, <3>2
  <2> QED
    BY <2>4, <2>5, <2>8, <2>9
<1> HIDE DEF Good
<1>7. Climbs(G, n)
  BY <1>5, <1>6 DEF Climbs
<1>8. Good(n)
  <2> HIDE DEF G
  <2>1. n \in G
    BY <1>7, StepByStep
  <2> QED
    BY <2>1 DEF G
<1>9. n # 0 /\ r[n] = total
  BY <1>3
<1>10. PICK w \in Nat : w = q[n]
  BY <1>4, SumsOfNaturals
<1>11. total * w <= amount * total /\ amount * total < total * w + total * n
  BY <1>8, <1>9, <1>10 DEF Good
<1>12. amount * total = total * amount /\ total * w + total * n = total * (w + n)
  OBVIOUS
<1>13. total * w < total * amount + total /\ total * amount < total * (w + n)
  <2>a. PICK x \in Int : x = total * w
    OBVIOUS
  <2>b. PICK y \in Int : y = total * amount
    OBVIOUS
  <2>1. x = total * w /\ y = total * amount
    BY <2>a, <2>b
  <2>2. x <= y
    BY <1>11, <1>12, <2>1
  <2>3. x < y + total
    BY <2>2
  <2> QED
    BY <1>11, <1>12, <2>1, <2>3
<1>14. w <= amount /\ amount < w + n
  <2>1. total \in Nat \ {0} /\ w \in Int /\ amount \in Int /\ w + n \in Int
    OBVIOUS
  <2>2. w <= amount
    BY <1>13, <2>1, CommonFactor, Zenon
  <2>3. amount < w + n
    BY <1>13, <2>1, CommonFactor, Zenon
  <2> QED
    BY <2>2, <2>3
<1>15. amount - w < n
  BY <1>14
<1> QED
  BY <1>1, <1>4, <1>10, <1>14, <1>15

\* What is cut off a share, and the shares of which more was cut off, or as much
\* and earlier in the list.
Rest(amount, ratios, i) == amount * ratios[i] - Cut(amount, ratios)[i] * SumSeq(ratios)
Claims(amount, ratios, i) ==
  {j \in DOMAIN ratios : \/ Rest(amount, ratios, j) > Rest(amount, ratios, i)
                         \/ Rest(amount, ratios, j) = Rest(amount, ratios, i) /\ j < i}
LeftOver(amount, ratios) == amount - SumSeq(Cut(amount, ratios))

LEMMA AllocateGives ==
  ASSUME NEW amount, NEW ratios
  PROVE  Allocate(amount, ratios)
           = [i \in DOMAIN ratios |-> IF Cardinality(Claims(amount, ratios, i)) < LeftOver(amount, ratios)
                                      THEN Cut(amount, ratios)[i] + 1 ELSE Cut(amount, ratios)[i]]
  BY DEF Allocate, Claims, Rest, LeftOver, Cut

\* The order in which parts claim the units left over.
ClaimOrder(rests, n) ==
  {p \in (1..n) \X (1..n) : \/ rests[p[1]] > rests[p[2]]
                            \/ rests[p[1]] = rests[p[2]] /\ p[1] < p[2]}

LEMMA ClaimsAreOrdered ==
  ASSUME NEW n \in Nat, NEW rests \in [1..n -> Int]
  PROVE  Ranks(ClaimOrder(rests, n), 1..n) /\ OneWay(ClaimOrder(rests, n), 1..n)
<1>1. \A i, j \in 1..n : <<i, j>> \in ClaimOrder(rests, n)
                           <=> rests[i] > rests[j] \/ (rests[i] = rests[j] /\ i < j)
  BY DEF ClaimOrder
<1>2. \A i \in 1..n : rests[i] \in Int /\ i \in Int
  OBVIOUS
<1>3. ASSUME NEW i \in 1..n, NEW j \in 1..n, i # j
      PROVE  <<i, j>> \in ClaimOrder(rests, n) \/ <<j, i>> \in ClaimOrder(rests, n)
  <2>1. rests[i] > rests[j] \/ rests[j] > rests[i] \/ rests[i] = rests[j]
    BY <1>2
  <2>2. i < j \/ j < i
    BY <1>3
  <2> QED
    BY <1>1, <2>1, <2>2
<1>4. ASSUME NEW i \in 1..n, NEW j \in 1..n, NEW k \in 1..n,
             <<i, j>> \in ClaimOrder(rests, n), <<j, k>> \in ClaimOrder(rests, n)
      PROVE  <<i, k>> \in ClaimOrder(rests, n)
  <2>1. PICK a \in Int, b \in Int, c \in Int : a = rests[i] /\ b = rests[j] /\ c = rests[k]
    BY <1>2
  <2>2. (a > b \/ (a = b /\ i < j)) /\ (b > c \/ (b = c /\ j < k))
    BY <1>1, <1>4, <2>1
  <2>3. a > c \/ (a = c /\ i < k)
    BY <2>2
  <2> QED
    BY <1>1, <2>1, <2>3
<1>5. ASSUME NEW i \in 1..n, NEW j \in 1..n, <<i, j>> \in ClaimOrder(rests, n)
      PROVE  i # j /\ <<j, i>> \notin ClaimOrder(rests, n)
  <2>1. PICK a \in Int, b \in Int : a = rests[i] /\ b = rests[j]
    BY <1>2
  <2>2. a > b \/ (a = b /\ i < j)
    BY <1>1, <1>5, <2>1
  <2>3. ~(b > a \/ (b = a /\ j < i)) /\ (i = j => a = b)
    BY <2>1, <2>2
  <2>4. i # j
    BY <2>2, <2>3
  <2> QED
    BY <1>1, <2>1, <2>3, <2>4
<1> QED
  BY <1>3, <1>4, <1>5 DEF Ranks, OneWay

\* Nothing is lost and nothing invented: the parts add up to the amount, and each is
\* its share cut to the minor unit, or one unit more.
Splits(parts, amount, ratios) ==
  /\ parts \in Seq(Nat) /\ Len(parts) = Len(ratios) /\ SumSeq(parts) = amount
  /\ \A i \in 1..Len(ratios) :
       \/ parts[i] = Cut(amount, ratios)[i]
       \/ /\ parts[i] = Cut(amount, ratios)[i] + 1
          /\ Cardinality(Claims(amount, ratios, i)) < LeftOver(amount, ratios)
  /\ LeftOver(amount, ratios) \in Nat /\ LeftOver(amount, ratios) < Len(ratios)

LEMMA AllocateSplits ==
  ASSUME NEW amount \in Nat, NEW ratios \in Seq(Nat), SumSeq(ratios) > 0
  PROVE  Splits(Allocate(amount, ratios), amount, ratios)
<1>1. PICK n \in Nat : n = Len(ratios) /\ DOMAIN ratios = 1..n
  BY LenProperties
<1>2. PICK total \in Nat \ {0} : total = SumSeq(ratios)
  BY SumsOfNaturals
<1>3. PICK whole \in Seq(Nat) :
        /\ whole = Cut(amount, ratios) /\ Len(whole) = Len(ratios)
        /\ CutShort(amount, ratios, total, whole)
  BY <1>2, CutIs
<1>4. /\ SumSeq(whole) \in Nat /\ SumSeq(whole) <= amount /\ amount - SumSeq(whole) < Len(ratios)
  BY <1>2, <1>3, LeftoverIs
<1>5. PICK L \in 0..n : L = LeftOver(amount, ratios) /\ L < n /\ amount = SumSeq(whole) + L
  BY <1>1, <1>3, <1>4 DEF LeftOver
<1>6. \A i \in 1..n : ratios[i] \in Nat /\ whole[i] \in Nat
  BY <1>1, <1>3, ElementOfSeq
<1>7. PICK rests \in [1..n -> Int] : \A i \in 1..n : rests[i] = Rest(amount, ratios, i)
  <2>1. \A i \in 1..n : Rest(amount, ratios, i) \in Int
    <3>1. ASSUME NEW i \in 1..n PROVE Rest(amount, ratios, i) \in Int
      <4>1. PICK a \in Nat, b \in Nat : a = ratios[i] /\ b = whole[i]
        BY <1>6
      <4>2. Rest(amount, ratios, i) = amount * a - b * total
        BY <1>2, <1>3, <4>1 DEF Rest
      <4> QED
        BY <4>2
    <3> QED
      BY <3>1
  <2>2. PICK f : f = [i \in 1..n |-> Rest(amount, ratios, i)]
    OBVIOUS
  <2>3. \A i \in 1..n : f[i] = Rest(amount, ratios, i)
    BY <2>2
  <2>4. f \in [1..n -> Int]
    BY <2>1, <2>2
  <2> QED
    BY <2>3, <2>4
<1>8. PICK R : R = ClaimOrder(rests, n)
  OBVIOUS
<1>9. \A i \in 1..n : Claims(amount, ratios, i) = Ahead(R, n, i)
  <2>1. ASSUME NEW i \in 1..n, NEW j \in 1..n
        PROVE  <<j, i>> \in R <=> \/ Rest(amount, ratios, j) > Rest(amount, ratios, i)
                                  \/ Rest(amount, ratios, j) = Rest(amount, ratios, i) /\ j < i
    BY <1>7, <1>8 DEF ClaimOrder
  <2> QED
    BY <1>1, <2>1 DEF Claims, Ahead
<1>10. PICK B : B = {i \in 1..n : Cardinality(Ahead(R, n, i)) < L}
  OBVIOUS
<1>11. B \in SUBSET (1..n) /\ Cardinality(B) = L
  <2>1. Ranks(R, 1..n) /\ OneWay(R, 1..n)
    BY <1>8, ClaimsAreOrdered
  <2>2. Cardinality({i \in 1..n : Cardinality(Ahead(R, n, i)) < L}) = L
    BY <2>1, RanksCount
  <2> QED
    BY <1>10, <2>2
<1>12. PICK parts : parts = Allocate(amount, ratios)
  OBVIOUS
<1>13. /\ DOMAIN parts = 1..n /\ parts = [i \in 1..n |-> parts[i]]
       /\ \A i \in 1..n : parts[i] = IF i \in B THEN whole[i] + 1 ELSE whole[i]
  <2>1. parts = [i \in 1..n |-> IF Cardinality(Claims(amount, ratios, i)) < L THEN whole[i] + 1 ELSE whole[i]]
    BY <1>1, <1>3, <1>5, <1>12, AllocateGives
  <2>2. \A i \in 1..n : i \in B <=> Cardinality(Claims(amount, ratios, i)) < L
    BY <1>9, <1>10
  <2> QED
    BY <2>1, <2>2
<1>14. \A i \in 1..n : parts[i] \in Nat /\ parts[i] = whole[i] + (IF i \in B THEN 1 ELSE 0)
  BY <1>6, <1>13
<1>15. parts \in Seq(Nat) /\ Len(parts) = n
  <2>1. parts \in [1..n -> Nat]
    BY <1>13, <1>14
  <2> QED
    BY <2>1, IsASeq, LenProperties
<1>16. SumSeq(parts) = amount
  <2>1. parts \in Seq(Int) /\ whole \in Seq(Int)
    BY <1>15, SeqDef
  <2>2. OneMoreOn(parts, whole, B) /\ B \in SUBSET (1..Len(parts))
    BY <1>1, <1>3, <1>11, <1>14, <1>15 DEF OneMoreOn
  <2>3. SumSeq(parts) = SumSeq(whole) + Cardinality(B)
    BY <2>1, <2>2, SumsWithBonus
  <2> QED
    BY <1>5, <1>11, <2>3
<1>17. \A i \in 1..n : \/ parts[i] = whole[i]
                       \/ parts[i] = whole[i] + 1 /\ Cardinality(Claims(amount, ratios, i)) < L
  <2>1. ASSUME NEW i \in 1..n, i \in B PROVE Cardinality(Claims(amount, ratios, i)) < L
    BY <1>9, <1>10, <2>1
  <2> QED
    BY <1>13, <2>1
<1> QED
  BY <1>1, <1>3, <1>5, <1>12, <1>15, <1>16, <1>17 DEF Splits

-----------------------------------------------------------------------------
(* What allocate promises.                                                 *)

ScaledNowhereMore(a, terms, b, others) ==
  Len(terms) = Len(others) /\ \A i \in 1..Len(terms) : a * terms[i] <= b * others[i]

LEMMA ScaledSums ==
  ASSUME NEW a \in Int, NEW b \in Int, NEW terms \in Seq(Int), NEW others \in Seq(Int),
         ScaledNowhereMore(a, terms, b, others)
  PROVE  a * SumSeq(terms) <= b * SumSeq(others)
<1>1. PICK n \in Nat : n = Len(terms) /\ n = Len(others)
  BY LenProperties DEF ScaledNowhereMore
<1>2. PICK r \in [0..n -> Int] : /\ r[0] = 0 /\ \A i \in 1..n : r[i] = r[i - 1] + terms[i]
                                 /\ SumSeq(terms) = r[n]
  BY <1>1, SeqChain
<1>3. PICK q \in [0..n -> Int] : /\ q[0] = 0 /\ \A i \in 1..n : q[i] = q[i - 1] + others[i]
                                 /\ SumSeq(others) = q[n]
  BY <1>1, SeqChain
<1>4. \A i \in 1..n : terms[i] \in Int /\ others[i] \in Int
  BY <1>1, ElementOfSeq
<1>5. \A i \in 1..n : a * terms[i] <= b * others[i]
  BY <1>1 DEF ScaledNowhereMore
<1>d. \A x, y, z \in Int : x * (y + z) = x * y + x * z
  OBVIOUS
<1> DEFINE G == {k \in 0..n : a * r[k] <= b * q[k]}
<1>6. ASSUME NEW k \in 1..n, k - 1 \in G PROVE a * r[k] <= b * q[k]
  <2>1. PICK x \in Int, y \in Int, u \in Int, v \in Int : x = r[k - 1] /\ y = q[k - 1] /\ u = terms[k] /\ v = others[k]
    <3>1. k - 1 \in 0..n
      OBVIOUS
    <3> QED
      BY <1>4, <3>1
  <2>2. r[k] = x + u /\ q[k] = y + v
    BY <1>2, <1>3, <2>1
  <2>3. PICK ax \in Int : ax = a * x
    OBVIOUS
  <2>4. PICK au \in Int : au = a * u
    OBVIOUS
  <2>5. PICK by \in Int : by = b * y
    OBVIOUS
  <2>6. PICK bv \in Int : bv = b * v
    OBVIOUS
  <2>7. a * r[k] = ax + au /\ b * q[k] = by + bv
    BY <1>d, <2>2, <2>3, <2>4, <2>5, <2>6
  <2>8. ax <= by
    BY <1>6, <2>1, <2>3, <2>5
  <2>9. au <= bv
    BY <1>5, <2>1, <2>4, <2>6
  <2> QED
    BY <2>7, <2>8, <2>9
<1>7. 0 \in G
  BY <1>2, <1>3
<1>8. \A k \in 1..n : k - 1 \in G => k \in G
  BY <1>6
<1> HIDE DEF G
<1>9. n \in G
  BY <1>7, <1>8, StepByStep DEF Climbs
<1> QED
  BY <1>2, <1>3, <1>9 DEF G

\* Who comes first gets a unit first: claims are ordered by what was cut off.
LEMMA ClaimsGrow ==
  ASSUME NEW amount \in Nat, NEW ratios \in Seq(Nat), NEW total \in Nat \ {0}, total = SumSeq(ratios),
         NEW i \in DOMAIN ratios, NEW j \in DOMAIN ratios,
         Rest(amount, ratios, i) > Rest(amount, ratios, j)
  PROVE  Cardinality(Claims(amount, ratios, i)) <= Cardinality(Claims(amount, ratios, j))
<1>1. PICK n \in Nat : n = Len(ratios) /\ DOMAIN ratios = 1..n
  BY LenProperties
<1>2. \A k \in 1..n : Rest(amount, ratios, k) \in Int
  <2>1. ASSUME NEW k \in 1..n PROVE Rest(amount, ratios, k) \in Int
    <3>1. PICK a \in Nat, b \in Nat : a = ratios[k] /\ b = Cut(amount, ratios)[k]
      <4>1. Cut(amount, ratios) \in Seq(Nat) /\ Len(Cut(amount, ratios)) = n
        BY <1>1, CutIs
      <4>2. ratios[k] \in Nat /\ Cut(amount, ratios)[k] \in Nat
        BY <1>1, <4>1, ElementOfSeq
      <4> QED
        BY <4>2
    <3>2. Rest(amount, ratios, k) = amount * a - b * total
      BY <3>1 DEF Rest
    <3> QED
      BY <3>2
  <2> QED
    BY <2>1
<1>3. ASSUME NEW k \in Claims(amount, ratios, i) PROVE k \in Claims(amount, ratios, j)
  <2>1. PICK x \in Int, y \in Int, z \in Int :
          x = Rest(amount, ratios, k) /\ y = Rest(amount, ratios, i) /\ z = Rest(amount, ratios, j)
    BY <1>1, <1>2 DEF Claims
  <2>2. x >= y
    BY <2>1 DEF Claims
  <2>3. x > z
    BY <2>1, <2>2
  <2> QED
    BY <2>1, <2>3 DEF Claims
<1>4. Claims(amount, ratios, i) \subseteq Claims(amount, ratios, j)
  BY <1>3
<1>5. IsFiniteSet(Claims(amount, ratios, j))
  <2>1. Claims(amount, ratios, j) \subseteq 1..n
    BY <1>1 DEF Claims
  <2>2. IsFiniteSet(1..n)
    BY FS_Interval
  <2> QED
    BY <2>1, <2>2, FS_Subset
<1> QED
  BY <1>4, <1>5, FS_Subset

\* A part from which nothing was cut off gets none of the units left over: there
\* are enough others.
LEMMA ExactPartsWait ==
  ASSUME NEW amount \in Nat, NEW ratios \in Seq(Nat), NEW total \in Nat \ {0}, total = SumSeq(ratios),
         NEW i \in DOMAIN ratios, Rest(amount, ratios, i) <= 0
  PROVE  ~(Cardinality(Claims(amount, ratios, i)) < LeftOver(amount, ratios))
<1>1. PICK n \in Nat : n = Len(ratios) /\ DOMAIN ratios = 1..n
  BY LenProperties
<1>2. PICK whole \in Seq(Nat) : /\ whole = Cut(amount, ratios) /\ Len(whole) = n
                                /\ CutShort(amount, ratios, total, whole)
  BY <1>1, CutIs
<1>3. \A k \in 1..n : ratios[k] \in Nat /\ whole[k] \in Nat
  BY <1>1, <1>2, ElementOfSeq
<1>4. PICK B : B = {k \in 1..n : total * whole[k] < amount * ratios[k]}
  OBVIOUS
<1>5. B \in SUBSET (1..n) /\ IsFiniteSet(B) /\ Cardinality(B) \in Nat
  <2>1. B \in SUBSET (1..n)
    BY <1>4
  <2>2. IsFiniteSet(1..n)
    BY FS_Interval
  <2> QED
    BY <2>1, <2>2, FS_Subset, FS_CardinalityType
<1>6. PICK more : more = [k \in 1..n |-> whole[k] + (IF k \in B THEN 1 ELSE 0)]
  OBVIOUS
<1>7. more \in Seq(Int) /\ Len(more) = n /\ \A k \in 1..n : more[k] = whole[k] + (IF k \in B THEN 1 ELSE 0)
  <2>1. DOMAIN more = 1..n /\ more = [k \in 1..n |-> more[k]]
        /\ \A k \in 1..n : more[k] = whole[k] + (IF k \in B THEN 1 ELSE 0)
    BY <1>6
  <2>2. ASSUME NEW k \in 1..n PROVE more[k] \in Int
    <3>1. PICK w \in Nat : w = whole[k]
      BY <1>3
    <3>2. more[k] = w \/ more[k] = w + 1
      <4>1. CASE k \in B
        BY <2>1, <3>1, <4>1
      <4>2. CASE k \notin B
        <5>1. more[k] = w + 0
          BY <2>1, <3>1, <4>2
        <5> QED
          BY <5>1
      <4> QED
        BY <4>1, <4>2
    <3> QED
      BY <3>2
  <2> QED
    BY <2>1, <2>2, FunctionIsSeq
<1>8. ratios \in Seq(Int) /\ whole \in Seq(Int)
  BY SeqDef
<1>9. SumSeq(more) = SumSeq(whole) + Cardinality(B)
  <2>1. OneMoreOn(more, whole, B) /\ B \in SUBSET (1..Len(more))
    BY <1>2, <1>5, <1>7 DEF OneMoreOn
  <2> QED
    BY <1>7, <1>8, <2>1, SumsWithBonus
<1>10. \A k \in 1..n : amount * ratios[k] <= total * more[k]
  <2>1. ASSUME NEW k \in 1..n PROVE amount * ratios[k] <= total * more[k]
    <3>1. PICK w \in Nat, p \in Nat : w = whole[k] /\ p = amount * ratios[k]
      <4>1. PICK a \in Nat : a = ratios[k]
        BY <1>3
      <4>2. amount * a \in Nat /\ whole[k] \in Nat
        BY <1>3
      <4> QED
        BY <4>1, <4>2
    <3>2. PICK x \in Int : x = total * w
      OBVIOUS
    <3>3. x <= p /\ p < x + total
      BY <1>1, <1>2, <3>1, <3>2 DEF CutShort
    <3>4. CASE k \in B
      <4>1. more[k] = w + 1
        BY <1>7, <3>1, <3>4
      <4>2. total * (w + 1) = x + total
        BY <3>2
      <4>3. p <= x + total
        BY <3>3
      <4> QED
        BY <3>1, <4>1, <4>2, <4>3
    <3>5. CASE k \notin B
      <4>1. more[k] = w
        BY <1>7, <3>1, <3>5, SMTT(30)
      <4>2. ~(x < p)
        BY <1>4, <3>1, <3>2, <3>5
      <4>3. p <= x
        BY <4>2
      <4> QED
        BY <3>1, <3>2, <4>1, <4>3
    <3> QED
      BY <3>4, <3>5
  <2> QED
    BY <2>1
<1>11. amount * total <= total * SumSeq(more)
  <2>1. ScaledNowhereMore(amount, ratios, total, more)
    BY <1>1, <1>7, <1>10 DEF ScaledNowhereMore
  <2>2. amount \in Int /\ total \in Int
    OBVIOUS
  <2> QED
    BY <1>7, <1>8, <2>1, <2>2, ScaledSums
<1>12. SumSeq(more) \in Int /\ SumSeq(whole) \in Int /\ amount <= SumSeq(more)
  <2>1. SumSeq(whole) \in Nat
    BY SumsOfNaturals
  <2>2. PICK m \in Int : m = SumSeq(more)
    BY <1>5, <1>9, <2>1
  <2>3. total * amount < total * m + total
    <3>1. PICK x \in Int : x = total * amount
      OBVIOUS
    <3>2. PICK y \in Int : y = total * m
      OBVIOUS
    <3>3. x <= y
      BY <1>11, <2>2, <3>1, <3>2
    <3>4. x < y + total
      BY <3>3
    <3> QED
      BY <3>1, <3>2, <3>4
  <2>4. amount \in Int
    OBVIOUS
  <2>5. amount <= m
    BY <2>3, <2>4, CommonFactor
  <2> QED
    BY <2>1, <2>2, <2>5
<1>13. LeftOver(amount, ratios) <= Cardinality(B) /\ LeftOver(amount, ratios) \in Int
  <2>1. LeftOver(amount, ratios) = amount - SumSeq(whole)
    BY <1>2 DEF LeftOver
  <2> QED
    BY <1>5, <1>9, <1>12, <2>1
<1>14. B \subseteq Claims(amount, ratios, i)
  <2>1. ASSUME NEW k \in B PROVE k \in Claims(amount, ratios, i)
    <3>1. k \in 1..n /\ total * whole[k] < amount * ratios[k]
      BY <1>4
    <3>2. PICK w \in Nat, p \in Nat : w = whole[k] /\ p = amount * ratios[k]
      <4>1. PICK a \in Nat : a = ratios[k]
        BY <1>3, <3>1
      <4>2. amount * a \in Nat /\ whole[k] \in Nat
        BY <1>3, <3>1
      <4> QED
        BY <4>1, <4>2
    <3>3. Rest(amount, ratios, k) = p - w * total
      BY <1>2, <3>2 DEF Rest
    <3>4. PICK x \in Int : x = total * w /\ x = w * total
      OBVIOUS
    <3>5. Rest(amount, ratios, k) = p - x /\ x < p
      BY <3>1, <3>2, <3>3, <3>4, SMTT(30)
    <3>6. PICK y \in Int : y = Rest(amount, ratios, i)
      <4>1. PICK a \in Nat, b \in Nat : a = ratios[i] /\ b = whole[i]
        BY <1>1, <1>3
      <4>2. Rest(amount, ratios, i) = amount * a - b * total
        BY <1>2, <4>1 DEF Rest
      <4> QED
        BY <4>2
    <3>7. Rest(amount, ratios, k) > y
      BY <3>5, <3>6
    <3> QED
      BY <1>1, <3>1, <3>6, <3>7 DEF Claims
  <2> QED
    BY <2>1
<1>15. IsFiniteSet(Claims(amount, ratios, i)) /\ Cardinality(Claims(amount, ratios, i)) \in Nat
  <2>1. Claims(amount, ratios, i) \subseteq 1..n
    BY <1>1 DEF Claims
  <2>2. IsFiniteSet(1..n)
    BY FS_Interval
  <2> QED
    BY <2>1, <2>2, FS_Subset, FS_CardinalityType
<1>16. Cardinality(B) <= Cardinality(Claims(amount, ratios, i))
  BY <1>14, <1>15, FS_Subset
<1> QED
  BY <1>5, <1>13, <1>15, <1>16

\* Money::allocate, for every amount and all ratios that are not negative and come to
\* something: the parts make up the amount, each is within a minor unit of its exact
\* share, and the larger claim never receives less.
THEOREM AllocateIsExact ==
  ASSUME NEW amount \in Nat, NEW ratios \in Seq(Nat), SumSeq(ratios) > 0
  PROVE  SplitExactly(amount, ratios)
<1>1. PICK n \in Nat : n = Len(ratios) /\ DOMAIN ratios = 1..n
  BY LenProperties
<1>2. PICK total \in Nat \ {0} : total = SumSeq(ratios)
  BY SumsOfNaturals
<1>3. PICK parts : parts = Allocate(amount, ratios)
  OBVIOUS
<1>4. Splits(parts, amount, ratios)
  BY <1>3, AllocateSplits
<1>5. PICK whole \in Seq(Nat) : /\ whole = Cut(amount, ratios) /\ Len(whole) = n
                                /\ CutShort(amount, ratios, total, whole)
  BY <1>1, <1>2, CutIs
<1>6. \A i \in 1..n : ratios[i] \in Nat /\ whole[i] \in Nat
  BY <1>1, <1>5, ElementOfSeq
<1>7. SumSeq(parts) = amount
  BY <1>4 DEF Splits
<1>8. \A i \in 1..n : \/ parts[i] = whole[i]
                      \/ parts[i] = whole[i] + 1 /\ Cardinality(Claims(amount, ratios, i)) < LeftOver(amount, ratios)
  BY <1>1, <1>4, <1>5 DEF Splits
\* x of the total was cut off part i, and y of it is missing to the next unit.
<1>9. ASSUME NEW i \in 1..n
      PROVE  /\ 0 <= Rest(amount, ratios, i) /\ Rest(amount, ratios, i) < total
             /\ Rest(amount, ratios, i) \in Int
             /\ total * whole[i] = amount * ratios[i] - Rest(amount, ratios, i)
  <2>1. PICK a \in Nat, w \in Nat : a = ratios[i] /\ w = whole[i]
    BY <1>6
  <2>2. PICK p \in Int : p = amount * a
    OBVIOUS
  <2>3. PICK x \in Int : x = total * w /\ x = w * total
    OBVIOUS
  <2>4. Rest(amount, ratios, i) = p - x
    BY <1>2, <1>5, <2>1, <2>2, <2>3 DEF Rest
  <2>5. x <= p /\ p < x + total
    BY <1>1, <1>5, <2>1, <2>2, <2>3 DEF CutShort
  <2>6. PICK r \in Int : r = Rest(amount, ratios, i) /\ 0 <= r /\ r < total /\ x = p - r
    BY <2>4, <2>5
  <2>7. total * whole[i] = x /\ amount * ratios[i] = p
    BY <2>1, <2>2, <2>3
  <2> QED
    BY <2>6, <2>7
<1>10. ASSUME NEW i \in 1..n
       PROVE  /\ 0 - total < parts[i] * total - amount * ratios[i]
              /\ parts[i] * total - amount * ratios[i] < total
  <2>1. PICK a \in Nat, w \in Nat : a = ratios[i] /\ w = whole[i]
    BY <1>6
  <2>2. PICK p \in Int : p = amount * a
    OBVIOUS
  <2>3. PICK x \in Int : x = total * w /\ x = w * total
    OBVIOUS
  <2>4. PICK r \in Int : r = Rest(amount, ratios, i) /\ 0 <= r /\ r < total /\ x = p - r
    BY <1>9, <2>1, <2>2, <2>3
  <2>5. CASE parts[i] = w
    <3>1. parts[i] * total - amount * ratios[i] = x - p
      BY <2>1, <2>2, <2>3, <2>5
    <3>2. 0 - total < x - p /\ x - p < total
      BY <2>4
    <3> QED
      BY <3>1, <3>2
  <2>6. CASE parts[i] = w + 1 /\ Cardinality(Claims(amount, ratios, i)) < LeftOver(amount, ratios)
    <3>1. ~(r <= 0)
      BY <1>1, <1>2, <2>4, <2>6, ExactPartsWait
    <3>2. (w + 1) * total = x + total
      BY <2>3
    <3>3. parts[i] * total - amount * ratios[i] = (x + total) - p
      BY <2>1, <2>2, <2>6, <3>2
    <3>4. 0 - total < (x + total) - p /\ (x + total) - p < total
      BY <2>4, <3>1, SMTT(30)
    <3> QED
      BY <3>3, <3>4
  <2> QED
    BY <1>8, <2>1, <2>5, <2>6
<1>11. ASSUME NEW i \in 1..n, NEW j \in 1..n, ratios[i] > ratios[j] PROVE parts[i] >= parts[j]
  <2>1. PICK a \in Nat, b \in Nat, v \in Nat, w \in Nat : a = ratios[i] /\ b = ratios[j] /\ v = whole[i] /\ w = whole[j]
    BY <1>6
  <2>2. PICK p \in Int : p = amount * a
    OBVIOUS
  <2>3. PICK q \in Int : q = amount * b
    OBVIOUS
  <2>4. q <= p /\ (q = p => amount = 0)
    <3>1. a > b
      BY <1>11, <2>1
    <3>2. amount * b <= amount * a /\ (amount * b = amount * a => amount = 0)
      BY <3>1
    <3> QED
      BY <2>2, <2>3, <3>2
  <2>5. PICK x \in Int : x = total * v
    OBVIOUS
  <2>6. PICK y \in Int : y = total * w
    OBVIOUS
  <2>7. PICK r \in Int, s \in Int : /\ r = Rest(amount, ratios, i) /\ s = Rest(amount, ratios, j)
                                    /\ 0 <= r /\ r < total /\ 0 <= s /\ s < total /\ x = p - r /\ y = q - s
    BY <1>9, <2>1, <2>2, <2>3, <2>5, <2>6
  <2>8. w <= v
    <3>1. y < x + total
      <4>1. q <= p
        BY <2>4
      <4>2. 0 <= s /\ r < total /\ x = p - r /\ y = q - s
        BY <2>7
      <4>3. y <= q
        BY <4>2
      <4>4. p < x + total
        BY <4>2
      <4> QED
        BY <4>1, <4>3, <4>4
    <3>2. w \in Int /\ v \in Int /\ total * w < total * v + total
      BY <2>5, <2>6, <3>1
    <3> QED
      BY <3>2, CommonFactor
  <2>9. CASE w < v
    <3>1. parts[i] = v \/ parts[i] = v + 1
      BY <1>8, <2>1
    <3>2. parts[j] = w \/ parts[j] = w + 1
      BY <1>8, <2>1
    <3> QED
      BY <2>9, <3>1, <3>2
  <2>10. CASE w = v /\ q < p
    <3>1. x = y
      BY <2>5, <2>6, <2>10
    <3>2. r > s
      BY <2>7, <2>10, <3>1
    <3>3. Cardinality(Claims(amount, ratios, i)) <= Cardinality(Claims(amount, ratios, j))
      BY <1>1, <1>2, <2>7, <3>2, ClaimsGrow
    <3>4. PICK c \in Nat, d \in Nat, L \in Nat : c = Cardinality(Claims(amount, ratios, i))
                             /\ d = Cardinality(Claims(amount, ratios, j)) /\ L = LeftOver(amount, ratios)
      <4>0. IsFiniteSet(1..n)
        BY FS_Interval
      <4>1. IsFiniteSet(1..n) /\ Claims(amount, ratios, i) \subseteq 1..n /\ Claims(amount, ratios, j) \subseteq 1..n
        BY <1>1, <4>0 DEF Claims
      <4>2. Cardinality(Claims(amount, ratios, i)) \in Nat /\ Cardinality(Claims(amount, ratios, j)) \in Nat
        BY <4>1, FS_Subset, FS_CardinalityType
      <4>3. LeftOver(amount, ratios) \in Nat
        BY <1>4 DEF Splits
      <4> QED
        BY <4>2, <4>3
    <3>5. parts[i] = (IF c < L THEN v + 1 ELSE v)
      BY <1>1, <1>2, <1>3, <1>5, <2>1, <3>4, AllocateGives
    <3>6. parts[j] = (IF d < L THEN w + 1 ELSE w)
      BY <1>1, <1>2, <1>3, <1>5, <2>1, <3>4, AllocateGives
    <3>7. c <= d
      BY <3>3, <3>4
    <3>8. CASE d < L
      <4>1. c < L
        BY <3>7, <3>8
      <4> QED
        BY <2>10, <3>5, <3>6, <3>8, <4>1
    <3>9. CASE ~(d < L)
      <4>1. parts[j] = w /\ (parts[i] = v \/ parts[i] = v + 1)
        BY <3>5, <3>6, <3>9
      <4> QED
        BY <2>10, <4>1
    <3> QED
      BY <3>8, <3>9
  <2>11. CASE w = v /\ amount = 0
    <3>1. \A k \in 1..n : amount * ratios[k] = 0
      BY <1>6, <2>11
    <3>2. s = 0
      <4>1. q = 0
        BY <2>3, <2>11
      <4>2. y >= 0
        BY <2>6
      <4> QED
        BY <2>7, <4>1, <4>2, SMTT(30)
    <3>3. ~(Cardinality(Claims(amount, ratios, j)) < LeftOver(amount, ratios))
      BY <1>1, <1>2, <2>7, <3>2, ExactPartsWait
    <3>4. parts[j] = w
      BY <1>8, <2>1, <3>3
    <3> QED
      BY <1>8, <2>1, <2>11, <3>4, SMTT(30)
  <2> QED
    BY <2>4, <2>8, <2>9, <2>10, <2>11
<1> QED
  <2>1. \A i \in DOMAIN ratios : LET off == parts[i] * SumSeq(ratios) - amount * ratios[i]
                                 IN -SumSeq(ratios) < off /\ off < SumSeq(ratios)
    <3>1. 0 - total = -total
      OBVIOUS
    <3> QED
      BY <1>1, <1>2, <1>10, <3>1
  <2> QED
    BY <1>1, <1>3, <1>7, <1>11, <2>1 DEF SplitExactly

-----------------------------------------------------------------------------
(* The register's amounts: sales, tenders and refunds.                     *)

LEMMA ValuesOfLines ==
  ASSUME NEW lines \in Seq(LineItem)
  PROVE  Subtotal(lines) \in Nat /\ TaxTotal(lines) \in Nat
<1>1. PICK n \in Nat : n = Len(lines) /\ DOMAIN lines = 1..n
  BY LenProperties
<1>2. \A i \in 1..n : lines[i] \in LineItem
  BY <1>1, ElementOfSeq
<1>3. PICK f : f = [i \in 1..n |-> lines[i].qty * lines[i].price]
  OBVIOUS
<1>4. PICK g : g = [i \in 1..n |-> lines[i].tax]
  OBVIOUS
<1>5. \A i \in 1..n : f[i] \in Nat /\ g[i] \in Nat
  <2>1. ASSUME NEW i \in 1..n PROVE f[i] \in Nat /\ g[i] \in Nat
    <3>1. PICK q \in Nat, p \in Nat, t \in Nat : q = lines[i].qty /\ p = lines[i].price /\ t = lines[i].tax
      BY <1>2 DEF LineItem
    <3>2. f[i] = q * p /\ g[i] = t
      BY <1>3, <1>4, <3>1
    <3>3. q * p \in Nat
      OBVIOUS
    <3> QED
      BY <3>2, <3>3
  <2> QED
    BY <2>1
<1>6. f \in Seq(Nat)
  BY <1>3, <1>5, FunctionIsSeq, SMTT(30)
<1>7. g \in Seq(Nat)
  BY <1>4, <1>5, FunctionIsSeq
<1> QED
  BY <1>1, <1>3, <1>4, <1>6, <1>7, SumsOfNaturals DEF Subtotal, TaxTotal

LEMMA DiscountIs ==
  ASSUME NEW balance \in Int, NEW amount \in Nat
  PROVE  Discounted(balance, amount) \in Nat
<1>1. PICK rate \in Nat : rate = (IF balance > Tier THEN 10 ELSE 2) /\ rate <= 100
  OBVIOUS
<1>2. PICK off \in Nat : off = (amount * rate) \div 100 /\ 100 * off <= amount * rate
  <2>1. PICK v \in Nat : v = amount * rate
    OBVIOUS
  <2> QED
    BY <2>1, DivisionIs
<1>3. amount * rate <= amount * 100
  BY <1>1
<1>4. off <= amount
  BY <1>2, <1>3
<1>5. PluginPrice(balance, amount) = amount - off /\ amount - off \in Nat
  BY <1>1, <1>2, <1>4 DEF PluginPrice
<1> QED
  BY <1>5 DEF Discounted, AtMost

\* What a tender counts for in a split: nothing, when its amount is negative.
Claimed(tenders) == [i \in DOMAIN tenders |-> Positive(tenders[i].amount)]

LEMMA TendersAre ==
  ASSUME NEW tenders \in Seq(Tender)
  PROVE  /\ Amounts(tenders) \in Seq(Int) /\ Len(Amounts(tenders)) = Len(tenders)
         /\ Claimed(tenders) \in Seq(Nat) /\ Len(Claimed(tenders)) = Len(tenders)
         /\ \A i \in 1..Len(tenders) : /\ Amounts(tenders)[i] = tenders[i].amount
                                       /\ Claimed(tenders)[i] = Positive(Amounts(tenders)[i])
         /\ SumSeq(Amounts(tenders)) \in Int /\ SumSeq(Claimed(tenders)) \in Nat
         /\ SumSeq(Amounts(tenders)) <= SumSeq(Claimed(tenders))
<1>1. PICK n \in Nat : n = Len(tenders) /\ DOMAIN tenders = 1..n
  BY LenProperties
<1>2. \A i \in 1..n : tenders[i].amount \in Int
  <2>1. \A i \in 1..n : tenders[i] \in Tender
    BY <1>1, ElementOfSeq
  <2> QED
    BY <2>1 DEF Tender
<1>3. PICK f : f = Amounts(tenders)
  OBVIOUS
<1>4. PICK g : g = Claimed(tenders)
  OBVIOUS
<1>5. DOMAIN f = 1..n /\ f = [i \in 1..n |-> f[i]] /\ \A i \in 1..n : f[i] = tenders[i].amount
  BY <1>1, <1>3 DEF Amounts
<1>6. DOMAIN g = 1..n /\ g = [i \in 1..n |-> g[i]] /\ \A i \in 1..n : g[i] = Positive(tenders[i].amount)
  BY <1>1, <1>4 DEF Claimed
<1>7. \A a \in Int : Positive(a) \in Nat /\ a <= Positive(a)
  BY DEF Positive
<1>8. f \in Seq(Int) /\ Len(f) = n
  BY <1>2, <1>5, FunctionIsSeq
<1>9. g \in Seq(Nat) /\ Len(g) = n
  BY <1>2, <1>6, <1>7, FunctionIsSeq
<1>10. g \in Seq(Int)
  BY <1>9, SeqDef
<1>11. NowhereMore(f, g)
  BY <1>2, <1>5, <1>6, <1>7, <1>8, <1>9 DEF NowhereMore
<1>12. SumSeq(f) \in Int /\ SumSeq(f) <= SumSeq(g)
  BY <1>8, <1>10, <1>11, SumsInOrder
<1>13. SumSeq(g) \in Nat
  BY <1>9, SumsOfNaturals
<1> QED
  BY <1>1, <1>3, <1>4, <1>5, <1>6, <1>8, <1>9, <1>12, <1>13

\* A total splits exactly over tenders that come to something.
LEMMA SplitTotalIs ==
  ASSUME NEW total \in Nat, NEW tenders \in Seq(Tender), SumSeq(Amounts(tenders)) > 0
  PROVE  Splits(SplitTotal(total, tenders), total, Claimed(tenders))
<1>1. Claimed(tenders) \in Seq(Nat) /\ SumSeq(Claimed(tenders)) > 0
  BY TendersAre
<1>2. Splits(Allocate(total, Claimed(tenders)), total, Claimed(tenders))
  BY <1>1, AllocateSplits
<1> QED
  BY <1>2 DEF SplitTotal, Claimed

\* Amounts that are not negative count for what they are.
LEMMA ClaimedAre ==
  ASSUME NEW tenders \in Seq(Tender), Amounts(tenders) \in Seq(Nat)
  PROVE  Claimed(tenders) = Amounts(tenders)
<1>1. PICK n \in Nat : n = Len(tenders) /\ DOMAIN tenders = 1..n
  BY LenProperties
<1>2. \A i \in 1..n : Amounts(tenders)[i] = tenders[i].amount /\ Amounts(tenders)[i] \in Nat
  BY <1>1, TendersAre, ElementOfSeq
<1>3. \A a \in Nat : Positive(a) = a
  BY DEF Positive
<1> QED
  BY <1>1, <1>2, <1>3 DEF Claimed, Amounts

\* The tenders of a sale add up to its total, the credit included.
LEMMA WithAmountsIs ==
  ASSUME NEW tenders \in Seq(Tender), NEW amounts \in Seq(Nat), Len(amounts) = Len(tenders)
  PROVE  /\ WithAmounts(tenders, amounts) \in Seq(Tender) /\ Amounts(WithAmounts(tenders, amounts)) = amounts
         /\ Len(WithAmounts(tenders, amounts)) = Len(tenders)
<1>1. PICK n \in Nat : n = Len(tenders) /\ DOMAIN tenders = 1..n /\ DOMAIN amounts = 1..n
  BY LenProperties
<1>2. \A i \in 1..n : tenders[i] \in Tender /\ amounts[i] \in Nat
  BY <1>1, ElementOfSeq
<1>3. PICK f : f = WithAmounts(tenders, amounts)
  OBVIOUS
<1>4. /\ DOMAIN f = 1..n /\ f = [i \in 1..n |-> f[i]]
      /\ \A i \in 1..n : f[i] = [tenders[i] EXCEPT !.amount = amounts[i]]
  BY <1>1, <1>3 DEF WithAmounts
<1>5. ASSUME NEW i \in 1..n PROVE f[i] \in Tender /\ f[i].amount = amounts[i]
  <2>1. PICK t \in Tender, a \in Nat : t = tenders[i] /\ a = amounts[i]
    BY <1>2
  <2>2. [t EXCEPT !.amount = a] \in Tender /\ [t EXCEPT !.amount = a].amount = a
    BY DEF Tender
  <2> QED
    BY <1>4, <2>1, <2>2
<1>6. f \in Seq(Tender) /\ Len(f) = n
  BY <1>4, <1>5, FunctionIsSeq
<1>7. Amounts(f) = amounts
  <2>1. amounts = [i \in 1..n |-> amounts[i]]
    BY <1>1
  <2>2. Amounts(f) = [i \in 1..n |-> f[i].amount]
    BY <1>4 DEF Amounts
  <2> QED
    BY <1>5, <2>1, <2>2
<1> QED
  BY <1>1, <1>3, <1>6, <1>7

Settles(tenders, total) ==
  tenders \in Seq(Tender) /\ Amounts(tenders) \in Seq(Nat) /\ SumSeq(Amounts(tenders)) = total

LEMMA RestIsSettled ==
  ASSUME NEW rest \in Nat, NEW offered \in Seq(Tender), rest > 0 => Covers(rest, offered),
         NEW amounts, amounts = IF rest > 0 THEN SplitTotal(rest, offered) ELSE [i \in DOMAIN offered |-> 0]
  PROVE  Settles(WithAmounts(offered, amounts), rest)
<1>1. amounts \in Seq(Nat) /\ Len(amounts) = Len(offered) /\ SumSeq(amounts) = rest
  <2>1. CASE rest > 0
    <3>1. SumSeq(Amounts(offered)) \in Int /\ SumSeq(Amounts(offered)) >= rest
      BY <2>1, TendersAre DEF Covers
    <3>2. SumSeq(Amounts(offered)) > 0
      BY <2>1, <3>1
    <3>3. Splits(amounts, rest, Claimed(offered))
      BY <2>1, <3>2, SplitTotalIs
    <3> QED
      BY <3>3, TendersAre DEF Splits
  <2>2. CASE ~(rest > 0)
    <3>1. PICK n \in Nat : n = Len(offered) /\ DOMAIN offered = 1..n
      BY LenProperties
    <3>2. amounts = [i \in 1..n |-> 0]
      BY <2>2, <3>1
    <3>3. DOMAIN amounts = 1..n /\ amounts = [i \in 1..n |-> amounts[i]] /\ \A i \in 1..n : amounts[i] = 0 /\ amounts[i] \in Nat
      BY <3>2
    <3>4. amounts \in Seq(Nat) /\ Len(amounts) = n
      BY <3>3, FunctionIsSeq, SMTT(30)
    <3>5. SumSeq(amounts) = 0 /\ rest = 0
      BY <2>2, <3>3, <3>4, SumsOfNaturals
    <3> QED
      BY <3>1, <3>4, <3>5
  <2> QED
    BY <2>1, <2>2
<1> QED
  BY <1>1, WithAmountsIs DEF Settles

LEMMA FirstSettles ==
  ASSUME NEW t \in Tender, t.amount \in Nat, NEW rest, NEW left \in Nat, Settles(rest, left)
  PROVE  Settles(<<t>> \o rest, t.amount + left)
<1>1. PICK one \in Seq(Tender) : one = <<t>> /\ Len(one) = 1 /\ one[1] = t
  <2>1. PICK one : one = <<t>>
    OBVIOUS
  <2>2. one \in Seq(Tender) /\ Len(one) = 1 /\ one[1] = t
    BY <2>1
  <2> QED
    BY <2>1, <2>2
<1>2. rest \in Seq(Tender) /\ Amounts(rest) \in Seq(Nat) /\ SumSeq(Amounts(rest)) = left
  BY DEF Settles
<1>3. PICK all \in Seq(Tender) : all = one \o rest
  BY <1>2, ConcatProperties
<1>4. PICK n \in Nat : n = Len(rest)
  BY <1>2, LenProperties
<1>5. Len(all) = n + 1 /\ all[1] = t /\ \A i \in 1..n : all[i + 1] = rest[i]
  <2>1. Len(all) = Len(one) + Len(rest)
        /\ \A i \in 1..Len(one) + Len(rest) : all[i] = IF i <= Len(one) THEN one[i] ELSE rest[i - Len(one)]
    BY <1>2, <1>3, ConcatProperties
  <2>2. Len(all) = n + 1 /\ \A i \in 1..(1 + n) : all[i] = IF i <= 1 THEN one[i] ELSE rest[i - 1]
    BY <1>1, <1>4, <2>1
  <2>3. all[1] = t
    BY <1>1, <2>2
  <2>4. ASSUME NEW i \in 1..n PROVE all[i + 1] = rest[i]
    <3>1. i + 1 \in 1..(1 + n) /\ ~(i + 1 <= 1) /\ (i + 1) - 1 = i
      OBVIOUS
    <3> QED
      BY <2>2, <3>1
  <2> QED
    BY <2>2, <2>3, <2>4
<1>6. PICK f \in Seq(Int) : f = Amounts(all) /\ Len(f) = n + 1 /\ \A i \in 1..(n + 1) : f[i] = all[i].amount
  BY <1>5, TendersAre
<1>7. PICK g \in Seq(Nat) : g = Amounts(rest) /\ Len(g) = n /\ \A i \in 1..n : g[i] = rest[i].amount
  BY <1>2, <1>4, TendersAre
<1>8. g \in Seq(Int) /\ \A i \in 1..n : g[i] \in Nat
  BY <1>7, SeqDef, ElementOfSeq
<1>9. f[1] = t.amount /\ \A i \in 1..n : f[i + 1] = g[i]
  <2>1. f[1] = t.amount
    BY <1>5, <1>6
  <2>2. ASSUME NEW i \in 1..n PROVE f[i + 1] = g[i]
    <3>1. i + 1 \in 1..(n + 1)
      OBVIOUS
    <3> QED
      BY <1>5, <1>6, <1>7, <3>1
  <2> QED
    BY <2>1, <2>2
<1>10. FirstThen(f, t.amount, g)
  BY <1>6, <1>7, <1>9 DEF FirstThen
<1>11. SumSeq(f) = t.amount + left
  BY <1>2, <1>7, <1>8, <1>10, SumOfFirst
<1>12. f \in Seq(Nat)
  <2>1. ASSUME NEW i \in 1..(n + 1) PROVE f[i] \in Nat
    <3>1. CASE i = 1
      BY <1>9, <3>1
    <3>2. CASE i # 1
      <4>1. i - 1 \in 1..n /\ (i - 1) + 1 = i
        BY <3>2
      <4> QED
        BY <1>8, <1>9, <4>1
    <3> QED
      BY <3>1, <3>2
  <2>2. DOMAIN f = 1..(n + 1) /\ n + 1 \in Nat
    BY <1>6, LenProperties
  <2>3. f = [i \in 1..(n + 1) |-> f[i]]
    BY <2>2
  <2> QED
    BY <2>1, <2>2, <2>3, FunctionIsSeq
<1> QED
  BY <1>1, <1>3, <1>6, <1>11, <1>12 DEF Settles

LEMMA AppliedSettles ==
  ASSUME NEW total \in Nat, NEW credit \in Nat, NEW offered \in Seq(Tender),
         total > credit => Covers(total - credit, offered)
  PROVE  Settles(Applied(total, credit, offered), total)
<1>1. PICK used \in Nat : used = AtMost(credit, total) /\ used <= total /\ (used < total => used = credit)
  BY DEF AtMost
<1>2. PICK rest \in Nat : rest = total - used
  BY <1>1
<1>2a. total > used <=> rest > 0
  BY <1>2
<1>3. rest > 0 => Covers(rest, offered)
  <2>1. CASE total > used
    <3>1. used = credit /\ total > credit
      BY <1>1, <2>1
    <3> QED
      BY <1>2, <3>1
  <2> QED
    BY <1>2a, <2>1
<1>4. PICK amounts : amounts = IF rest > 0 THEN SplitTotal(rest, offered) ELSE [i \in DOMAIN offered |-> 0]
  OBVIOUS
<1>5. PICK ts : ts = WithAmounts(offered, amounts)
  OBVIOUS
<1>6. Settles(ts, rest)
  BY <1>3, <1>4, <1>5, RestIsSettled
<1>7. CASE used > 0
  <2>1. PICK t \in Tender : t = [kind |-> "StoreCredit", amount |-> used] /\ t.amount = used
    <3>1. PICK t : t = [kind |-> "StoreCredit", amount |-> used]
      OBVIOUS
    <3>2. PICK kind \in TenderKind : kind = "StoreCredit"
      BY DEF TenderKind
    <3>3. t \in Tender /\ t.amount = used
      BY <3>1, <3>2 DEF Tender
    <3> QED
      BY <3>1, <3>3
  <2>2. Applied(total, credit, offered) = <<t>> \o ts
    BY <1>1, <1>2, <1>2a, <1>4, <1>5, <1>7, <2>1 DEF Applied
  <2>3. Settles(<<t>> \o ts, used + rest)
    BY <1>6, <2>1, FirstSettles
  <2>4. used + rest = total
    BY <1>2
  <2> QED
    BY <2>2, <2>3, <2>4
<1>8. CASE ~(used > 0)
  <2>1. PICK none \in Seq(Tender) : none = <<>>
    <3>1. <<>> \in Seq(Tender)
      OBVIOUS
    <3> QED
      BY <3>1
  <2>2. Applied(total, credit, offered) = none \o ts
    BY <1>1, <1>2, <1>2a, <1>4, <1>5, <1>8, <2>1 DEF Applied
  <2>3. none \o ts = ts
    BY <1>6, <2>1, ConcatEmptySeq DEF Settles
  <2>4. rest = total
    BY <1>2, <1>8
  <2> QED
    BY <1>6, <2>2, <2>3, <2>4
<1> QED
  BY <1>7, <1>8

\* A refund: the share of the total that the goods returned are of the subtotal.
LEMMA SumOfTwo ==
  ASSUME NEW a \in Int, NEW b \in Int
  PROVE  SumSeq(<<a, b>>) = a + b
<1>1. PICK none : none = <<>>
  OBVIOUS
<1>2. none \in Seq(Nat) /\ none \in Seq(Int) /\ Len(none) = 0
  BY <1>1
<1>3. SumSeq(none) = 0
  <2>1. \A i \in 1..Len(none) : none[i] = 0
    BY <1>2
  <2> QED
    BY <1>2, <2>1, SumsOfNaturals
<1>4. PICK one : one = <<b>>
  OBVIOUS
<1>5. one \in Seq(Int) /\ Len(one) = 1 /\ one[1] = b
  BY <1>4
<1>6. PICK two : two = <<a, b>>
  OBVIOUS
<1>7. two \in Seq(Int) /\ Len(two) = 2 /\ two[1] = a /\ two[2] = b
  BY <1>6
<1>8. FirstThen(one, b, none)
  BY <1>2, <1>5 DEF FirstThen
<1>9. FirstThen(two, a, one)
  <2>1. \A i \in 1..1 : two[i + 1] = one[i]
    BY <1>5, <1>7
  <2> QED
    BY <1>5, <1>7, <2>1 DEF FirstThen
<1>10. SumSeq(one) = b
  <2>1. SumSeq(one) = b + SumSeq(none)
    BY <1>2, <1>5, <1>8, SumOfFirst
  <2> QED
    BY <1>3, <2>1
<1>11. SumSeq(two) = a + SumSeq(one)
  BY <1>5, <1>7, <1>9, SumOfFirst
<1> QED
  BY <1>6, <1>10, <1>11

\* The arithmetic of the larger of two shares that were cut short.
LEMMA HalfIsHalf ==
  ASSUME NEW T \in Nat, NEW v \in Nat, NEW S \in Nat \ {0}, NEW c \in Nat, 2 * v <= S
  PROVE  /\ S * c <= T * v => 2 * c <= T
         /\ S <= 2 * (T * v) - 2 * (S * c) => 2 * c + 1 <= T
<1>1. PICK x \in Int : x = T * v
  OBVIOUS
<1>2. PICK y \in Int : y = S * c
  OBVIOUS
<1>3. PICK z \in Int : z = S * T
  OBVIOUS
<1>4. 2 * x <= z
  <2>1. 2 * x = T * (2 * v)
    BY <1>1
  <2>2. z = T * S
    BY <1>3
  <2>3. T * (2 * v) <= T * S
    OBVIOUS
  <2> QED
    BY <2>1, <2>2, <2>3
<1>5. S * (2 * c) = 2 * y /\ S * (2 * c + 1) = 2 * y + S
  BY <1>2
<1>6. ASSUME y <= x PROVE 2 * c <= T
  <2>1. 2 * y < z + S
    BY <1>4, <1>6
  <2>2. S * (2 * c) < S * T + S
    BY <1>3, <1>5, <2>1
  <2>3. 2 * c \in Int
    OBVIOUS
  <2> QED
    BY <2>2, <2>3, CommonFactor
<1>7. ASSUME S <= 2 * x - 2 * y PROVE 2 * c + 1 <= T
  <2>1. 2 * y + S < z + S
    BY <1>4, <1>7
  <2>2. S * (2 * c + 1) < S * T + S
    BY <1>3, <1>5, <2>1
  <2>3. 2 * c + 1 \in Int
    OBVIOUS
  <2> QED
    BY <2>2, <2>3, CommonFactor
<1> QED
  BY <1>1, <1>2, <1>6, <1>7

LEMMA ShareOfTwo ==
  ASSUME NEW T \in Nat, NEW v \in Nat, NEW w \in Nat, NEW S \in Nat \ {0}, S = v + w,
         NEW r, r = Allocate(T, <<v, w>>)[1]
  PROVE  /\ r \in Nat /\ r <= T
         /\ w = 0 => r = T
         /\ 2 * v <= S => 2 * r <= T + 1
<1>1. PICK ratios : ratios = <<v, w>>
  OBVIOUS
<1>2. ratios \in Seq(Nat) /\ Len(ratios) = 2 /\ ratios[1] = v /\ ratios[2] = w /\ DOMAIN ratios = 1..2
  BY <1>1
<1>3. SumSeq(ratios) = S
  <2>1. v \in Int /\ w \in Int
    OBVIOUS
  <2> QED
    BY <1>1, <2>1, SumOfTwo
<1>4. PICK parts : parts = Allocate(T, ratios)
  OBVIOUS
<1>5. Splits(parts, T, ratios)
  <2>1. SumSeq(ratios) > 0
    BY <1>3
  <2> QED
    BY <1>2, <1>4, <2>1, AllocateSplits
<1>6. parts \in Seq(Nat) /\ Len(parts) = 2 /\ SumSeq(parts) = T
  BY <1>2, <1>5 DEF Splits
<1>7. PICK r2 \in Nat : r2 = parts[2]
  <2>1. 2 \in 1..Len(parts)
    BY <1>6
  <2> QED
    BY <1>6, <2>1, ElementOfSeq
<1>8. r \in Nat /\ r = parts[1]
  <2>1. 1 \in 1..Len(parts)
    BY <1>6
  <2>2. parts[1] \in Nat
    BY <1>6, <2>1, ElementOfSeq
  <2> QED
    BY <1>1, <1>4, <2>2
<1>9. r + r2 = T
  <2>1. parts = <<r, r2>>
    BY <1>6, <1>7, <1>8
  <2>2. r \in Int /\ r2 \in Int
    BY <1>7, <1>8
  <2>3. SumSeq(<<r, r2>>) = r + r2
    BY <2>2, SumOfTwo
  <2> QED
    BY <1>6, <2>1, <2>3
<1>10. PICK whole \in Seq(Nat) : whole = Cut(T, ratios) /\ Len(whole) = 2 /\ CutShort(T, ratios, S, whole)
  BY <1>2, <1>3, CutIs
<1>11. PICK c1 \in Nat, c2 \in Nat : c1 = whole[1] /\ c2 = whole[2]
  <2>1. 1 \in 1..Len(whole) /\ 2 \in 1..Len(whole)
    BY <1>10
  <2>2. whole[1] \in Nat /\ whole[2] \in Nat
    BY <1>10, <2>1, ElementOfSeq
  <2> QED
    BY <2>2
<1>12. S * c1 <= T * v /\ T * v < S * c1 + S
  BY <1>2, <1>10, <1>11 DEF CutShort
<1>13. PICK left \in Nat : left = LeftOver(T, ratios) /\ left < 2
  BY <1>2, <1>5 DEF Splits
<1>14. left = T - (c1 + c2)
  <2>1. whole = <<c1, c2>>
    BY <1>10, <1>11
  <2>2. c1 \in Int /\ c2 \in Int
    OBVIOUS
  <2>3. SumSeq(<<c1, c2>>) = c1 + c2
    BY <2>2, SumOfTwo
  <2> QED
    BY <1>10, <1>13, <2>1, <2>3 DEF LeftOver
<1>15. PICK ahead : ahead = Claims(T, ratios, 1)
  OBVIOUS
<1>16. r = c1 \/ (r = c1 + 1 /\ Cardinality(ahead) < left)
  BY <1>2, <1>5, <1>8, <1>10, <1>11, <1>13, <1>15 DEF Splits
<1>17. Cardinality(ahead) \in Nat /\ (Cardinality(ahead) = 0 => 2 \notin ahead)
  <2>1. ahead \subseteq 1..2
    BY <1>2, <1>15 DEF Claims
  <2>2. IsFiniteSet(1..2)
    <3>1. 1 \in Int /\ 2 \in Int
      OBVIOUS
    <3> QED
      BY <3>1, FS_Interval
  <2>3. IsFiniteSet(ahead)
    BY <2>1, <2>2, FS_Subset
  <2> QED
    BY <2>3, FS_CardinalityType, FS_EmptySet
<1>18. w = 0 => r = T
  <2>1. SUFFICES ASSUME w = 0 PROVE r = T
    OBVIOUS
  <2>2. T * v = S * T
    BY <2>1
  <2>3. S * T < S * c1 + S
    BY <1>12, <2>2
  <2>4. T <= c1
    <3>1. T \in Int /\ c1 \in Int
      OBVIOUS
    <3> QED
      BY <2>3, <3>1, CommonFactor
  <2> QED
    BY <1>8, <1>9, <1>16, <2>4
<1>19. 2 * v <= S => 2 * r <= T + 1
  <2>1. SUFFICES ASSUME 2 * v <= S PROVE 2 * r <= T + 1
    OBVIOUS
  <2>2. CASE r = c1
    <3>1. 2 * c1 <= T
      BY <1>12, <2>1, HalfIsHalf
    <3> QED
      BY <2>2, <3>1
  <2>3. CASE r = c1 + 1 /\ Cardinality(ahead) < left
    <3>1. left = 1 /\ Cardinality(ahead) = 0
      BY <1>13, <1>17, <2>3
    <3>2. PICK x \in Int : x = T * v
      OBVIOUS
    <3>3. PICK y \in Int : y = S * c1
      OBVIOUS
    <3>4. PICK z \in Int : z = S * T
      OBVIOUS
    <3>5. Rest(T, ratios, 1) = x - y
      <4>1. Rest(T, ratios, 1) = T * v - c1 * S
        BY <1>2, <1>3, <1>10, <1>11 DEF Rest
      <4>2. c1 * S = S * c1
        OBVIOUS
      <4> QED
        BY <3>2, <3>3, <4>1, <4>2
    <3>6. Rest(T, ratios, 2) = S - (x - y)
      <4>1. Rest(T, ratios, 2) = T * w - c2 * S
        BY <1>2, <1>3, <1>10, <1>11 DEF Rest
      <4>2. w = S - v /\ c2 = (T - 1) - c1
        BY <1>14, <3>1
      <4>3. T * (S - v) = z - x
        <5>1. T * (S - v) = S * T - T * v
          OBVIOUS
        <5> QED
          BY <3>2, <3>4, <5>1
      <4>4. ((T - 1) - c1) * S = (z - S) - y
        <5>1. ((T - 1) - c1) * S = (S * T - S) - S * c1
          OBVIOUS
        <5> QED
          BY <3>3, <3>4, <5>1
      <4>5. T * w = z - x
        BY <4>2, <4>3
      <4>6. c2 * S = (z - S) - y
        BY <4>2, <4>4
      <4>7. PICK p \in Int, q \in Int : p = T * w /\ q = c2 * S
        OBVIOUS
      <4>8. Rest(T, ratios, 2) = p - q /\ p = z - x /\ q = (z - S) - y
        BY <4>1, <4>5, <4>6, <4>7
      <4> QED
        BY <4>8
    <3>7. ~(Rest(T, ratios, 2) > Rest(T, ratios, 1))
      <4>1. 2 \notin ahead
        BY <1>17, <3>1
      <4> QED
        BY <1>2, <1>15, <4>1 DEF Claims
    <3>8. S <= 2 * x - 2 * y
      BY <3>5, <3>6, <3>7
    <3>9. 2 * c1 + 1 <= T
      BY <2>1, <3>2, <3>3, <3>8, HalfIsHalf
    <3> QED
      BY <2>3, <3>9
  <2> QED
    BY <1>16, <2>2, <2>3
<1> QED
  BY <1>8, <1>9, <1>18, <1>19

\* Amounts that make up the total are what the total splits into.
LEMMA SplitIsItself ==
  ASSUME NEW total \in Nat \ {0}, NEW amounts \in Seq(Nat), SumSeq(amounts) = total
  PROVE  Allocate(total, amounts) = amounts
<1>1. PICK n \in Nat : n = Len(amounts) /\ DOMAIN amounts = 1..n
  BY LenProperties
<1>2. PICK parts : parts = Allocate(total, amounts)
  OBVIOUS
<1>3. Splits(parts, total, amounts)
  BY <1>2, AllocateSplits
<1>4. PICK whole \in Seq(Nat) : whole = Cut(total, amounts) /\ Len(whole) = n /\ CutShort(total, amounts, total, whole)
  BY <1>1, CutIs
<1>5. \A i \in 1..n : amounts[i] \in Nat /\ whole[i] \in Nat
  BY <1>1, <1>4, ElementOfSeq
<1>6. \A i \in 1..n : whole[i] = amounts[i]
  <2>1. ASSUME NEW i \in 1..n PROVE whole[i] = amounts[i]
    <3>1. PICK a \in Nat, c \in Nat : a = amounts[i] /\ c = whole[i]
      BY <1>5
    <3>2. total * c <= total * a /\ total * a < total * c + total
      BY <1>1, <1>4, <3>1 DEF CutShort
    <3>3. a <= c
      BY <3>2, CommonFactor
    <3>4. total * c < total * a + total
      BY <3>2
    <3>5. c <= a
      BY <3>4, CommonFactor
    <3> QED
      BY <3>1, <3>3, <3>5
  <2> QED
    BY <2>1
<1>7. whole = amounts
  BY <1>1, <1>4, <1>6, SeqEqual
<1>8. LeftOver(total, amounts) = 0
  BY <1>4, <1>7 DEF LeftOver
<1>9. \A i \in 1..n : Cardinality(Claims(total, amounts, i)) \in Nat
  <2>1. ASSUME NEW i \in 1..n PROVE Cardinality(Claims(total, amounts, i)) \in Nat
    <3>1. Claims(total, amounts, i) \subseteq 1..n
      BY <1>1 DEF Claims
    <3>2. IsFiniteSet(1..n)
      BY FS_Interval
    <3>3. IsFiniteSet(Claims(total, amounts, i))
      BY <3>1, <3>2, FS_Subset
    <3> QED
      BY <3>3, FS_CardinalityType
  <2> QED
    BY <2>1
<1>10. \A i \in 1..n : ~(Cardinality(Claims(total, amounts, i)) < LeftOver(total, amounts))
  <2>1. \A c \in Nat : ~(c < 0)
    OBVIOUS
  <2> QED
    BY <1>8, <1>9, <2>1
<1>11. parts \in Seq(Nat) /\ Len(parts) = n /\ \A i \in 1..n : parts[i] = amounts[i]
  BY <1>1, <1>3, <1>4, <1>6, <1>10 DEF Splits
<1> QED
  BY <1>1, <1>2, <1>11, SeqEqual

LEMMA ReturnedIs ==
  ASSUME NEW sale, sale.lines \in Seq(LineItem), NEW returns \in Seq(ReturnLine)
  PROVE  ReturnedValue(sale, returns) \in Nat
<1>1. CASE returns = <<>>
  BY <1>1, ValuesOfLines DEF ReturnedValue
<1>2. CASE returns # <<>>
  <2>1. PICK lines \in Seq(LineItem) : lines = sale.lines
    OBVIOUS
  <2>2. PICK n \in Nat : n = Len(lines) /\ DOMAIN lines = 1..n
    BY LenProperties
  <2>3. PICK m \in Nat : m = Len(returns) /\ DOMAIN returns = 1..m
    BY LenProperties
  <2>4. \A l \in 1..n : lines[l].price \in Nat
    <3>1. \A l \in 1..n : lines[l] \in LineItem
      BY <2>2, ElementOfSeq
    <3> QED
      BY <3>1 DEF LineItem
  <2>5. \A i \in 1..m : returns[i].qty \in Nat
    <3>1. \A i \in 1..m : returns[i] \in ReturnLine
      BY <2>3, ElementOfSeq
    <3> QED
      BY <3>1 DEF ReturnLine
  <2> DEFINE Back(i) == [l \in 1..n |-> IF lines[l].item = returns[i].item
                                       THEN lines[l].price * returns[i].qty ELSE 0]
  <2>6. ASSUME NEW i \in 1..m PROVE SumSeq(Back(i)) \in Nat
    <3>1. PICK f : f = Back(i)
      OBVIOUS
    <3>2. ASSUME NEW l \in 1..n PROVE f[l] \in Nat
      <4>1. PICK p \in Nat, q \in Nat : p = lines[l].price /\ q = returns[i].qty
        BY <2>4, <2>5
      <4>2. p * q \in Nat
        OBVIOUS
      <4> QED
        BY <3>1, <4>1, <4>2
    <3>3. f \in Seq(Nat)
      <4>1. DOMAIN f = 1..n /\ f = [l \in 1..n |-> f[l]]
        BY <3>1
      <4> QED
        BY <3>2, <4>1, FunctionIsSeq
    <3> QED
      BY <3>1, <3>3, SumsOfNaturals
  <2>7. PICK g : g = [i \in 1..m |-> SumSeq(Back(i))]
    OBVIOUS
  <2>8. g \in Seq(Nat)
    <3>1. DOMAIN g = 1..m /\ g = [i \in 1..m |-> g[i]] /\ \A i \in 1..m : g[i] \in Nat
      BY <2>6, <2>7
    <3> QED
      BY <3>1, FunctionIsSeq
  <2>9. ReturnedValue(sale, returns) = SumSeq(g)
    BY <1>2, <2>1, <2>2, <2>3, <2>7 DEF ReturnedValue
  <2> QED
    BY <2>8, <2>9, SumsOfNaturals
<1> QED
  BY <1>1, <1>2

\* What SplitsAreExact says of one sale and one list of returns.
RefundsFairly(sale, rl) ==
  Returnable(sale, rl) =>
    LET refund == RefundOf(sale, rl)
        value == ReturnedValue(sale, rl)
        shares == SplitTotal(refund, sale.tenders)
    IN /\ refund <= sale.total /\ SumSeq(shares) = refund
       /\ (rl = <<>> => shares = Amounts(sale.tenders))
       /\ 2 * value <= Subtotal(sale.lines) => 2 * refund <= sale.total + 1

LEMMA RefundIs ==
  ASSUME NEW sale, sale.lines \in Seq(LineItem), sale.total \in Nat, Settles(sale.tenders, sale.total),
         NEW rl \in Seq(ReturnLine), Returnable(sale, rl)
  PROVE  RefundOf(sale, rl) \in Nat /\ RefundsFairly(sale, rl)
<1>1. PICK T \in Nat : T = sale.total
  OBVIOUS
<1>2. PICK tenders \in Seq(Tender) : tenders = sale.tenders
  BY DEF Settles
<1>3. Amounts(tenders) \in Seq(Nat) /\ SumSeq(Amounts(tenders)) = T
  BY <1>1, <1>2 DEF Settles
<1>4. PICK v \in Nat : v = ReturnedValue(sale, rl)
  BY ReturnedIs
<1>5. PICK S \in Nat \ {0} : S = Subtotal(sale.lines) /\ v <= S
  <2>1. Subtotal(sale.lines) \in Nat
    BY ValuesOfLines
  <2>2. v <= Subtotal(sale.lines) /\ Subtotal(sale.lines) > 0
    BY <1>4 DEF Returnable
  <2> QED
    BY <2>1, <2>2
<1>6. PICK w \in Nat : w = S - v /\ S = v + w
  <2>1. v <= S
    BY <1>5
  <2>2. S - v \in Nat /\ S = v + (S - v)
    BY <2>1
  <2> QED
    BY <2>2
<1>7. PICK r : r = RefundOf(sale, rl)
  OBVIOUS
<1>8. r = Allocate(T, <<v, w>>)[1]
  BY <1>1, <1>4, <1>5, <1>6, <1>7 DEF RefundOf
<1>9. r \in Nat /\ r <= T /\ (w = 0 => r = T) /\ (2 * v <= S => 2 * r <= T + 1)
  BY <1>6, <1>8, ShareOfTwo
<1>10. T > 0 /\ SumSeq(Amounts(tenders)) > 0
  BY <1>2, <1>3 DEF Returnable
<1>11. PICK shares : shares = SplitTotal(r, tenders)
  OBVIOUS
<1>12. SumSeq(shares) = r
  <2>1. Splits(shares, r, Claimed(tenders))
    BY <1>9, <1>10, <1>11, SplitTotalIs
  <2> QED
    BY <2>1 DEF Splits
<1>13. rl = <<>> => shares = Amounts(tenders)
  <2>1. SUFFICES ASSUME rl = <<>> PROVE shares = Amounts(tenders)
    OBVIOUS
  <2>2. v = S
    BY <1>4, <1>5, <2>1 DEF ReturnedValue
  <2>3. r = T
    BY <1>6, <1>9, <2>2
  <2>4. Claimed(tenders) = Amounts(tenders)
    BY <1>3, ClaimedAre
  <2>5. shares = Allocate(T, Amounts(tenders))
    BY <1>11, <2>3, <2>4 DEF SplitTotal, Claimed
  <2>6. T \in Nat \ {0}
    BY <1>10
  <2> QED
    BY <1>3, <2>5, <2>6, SplitIsItself
<1> QED
  BY <1>1, <1>2, <1>4, <1>5, <1>7, <1>9, <1>11, <1>12, <1>13 DEF RefundsFairly

-----------------------------------------------------------------------------
(* The register's calls and runs of sync_to.                               *)

LEMMA EventsOfAppend ==
  ASSUME NEW S, NEW s \in Seq(S), NEW e \in S
  PROVE  Append(s, e) \in Seq(S) /\ Events(Append(s, e)) = Events(s) \union {e}
<1>1. PICK n \in Nat : n = Len(s) /\ DOMAIN s = 1..n
  BY LenProperties
<1>2. PICK a \in Seq(S) : a = Append(s, e)
  BY AppendProperties
<1>3. DOMAIN a = 1..(n + 1) /\ a[n + 1] = e /\ \A i \in 1..n : a[i] = s[i]
  BY <1>1, <1>2, AppendProperties
<1>4. \A i \in 1..(n + 1) : i \in 1..n \/ i = n + 1
  OBVIOUS
<1>5. \A i \in 1..n : i \in 1..(n + 1)
  OBVIOUS
<1>6. n + 1 \in 1..(n + 1)
  OBVIOUS
<1>7. Events(a) = {a[i] : i \in 1..(n + 1)} /\ Events(s) = {s[i] : i \in 1..n}
  BY <1>1, <1>3 DEF Events, Range
<1>8. Events(a) = Events(s) \union {e}
  BY <1>3, <1>4, <1>5, <1>6, <1>7, Zenon
<1> QED
  BY <1>2, <1>8

LEMMA EventsOfTail ==
  ASSUME NEW S, NEW s \in Seq(S), s # <<>>
  PROVE  /\ Head(s) \in S /\ Head(s) \in Events(s) /\ Tail(s) \in Seq(S)
         /\ Events(s) = {Head(s)} \union Events(Tail(s))
         /\ (Len(s) = 1) <=> (Tail(s) = <<>>)
<1>1. PICK n \in Nat : n = Len(s) /\ DOMAIN s = 1..n /\ n > 0
  BY LenProperties, EmptySeq
<1>2. PICK t : t = Tail(s)
  OBVIOUS
<1>3. t \in Seq(S) /\ Len(t) = n - 1 /\ DOMAIN t = 1..(n - 1) /\ \A i \in 1..(n - 1) : t[i] = s[i + 1]
  BY <1>1, <1>2, HeadTailProperties
<1>4. Head(s) = s[1] /\ Head(s) \in S
  BY <1>1, HeadTailProperties, ElementOfSeq
<1>5. Events(s) = {s[i] : i \in 1..n} /\ Events(t) = {t[i] : i \in 1..(n - 1)}
  BY <1>1, <1>3 DEF Events, Range
<1>6. 1 \in 1..n
  BY <1>1
<1>7. Head(s) \in Events(s)
  BY <1>4, <1>5, <1>6
<1>8. \A i \in 1..n : i = 1 \/ (i - 1 \in 1..(n - 1) /\ t[i - 1] = s[i])
  <2>1. ASSUME NEW i \in 1..n, i # 1 PROVE i - 1 \in 1..(n - 1) /\ (i - 1) + 1 = i
    BY <2>1
  <2> QED
    BY <1>3, <2>1
<1>9. \A i \in 1..(n - 1) : i + 1 \in 1..n
  OBVIOUS
<1>10. Events(s) = {Head(s)} \union Events(t)
  <2>1. \A e \in Events(s) : e \in {Head(s)} \union Events(t)
    BY <1>4, <1>5, <1>8
  <2>2. \A e \in Events(t) : e \in Events(s)
    BY <1>3, <1>5, <1>9
  <2> QED
    BY <1>7, <2>1, <2>2
<1>11. (n = 1) <=> (t = <<>>)
  <2>1. t = <<>> <=> Len(t) = 0
    BY <1>3, EmptySeq
  <2> QED
    BY <1>1, <1>3, <2>1
<1> QED
  BY <1>1, <1>2, <1>3, <1>4, <1>7, <1>10, <1>11

LEMMA NoEvents == Events(<<>>) = {}
  BY DEF Events, Range

\* The shapes of the register's state.
SaleRecord == [status : {Advanced("Cart", SalePath)}, total : Nat, lines : Baskets, tenders : Seq(Tender)]
EventRecord == [kind : {"Sale", "Return"}, txn : Int, amount : Nat]
RingCall ==
  {t \in [pc : {"balance", "price"}, customer : Customer \union {NoCustomer}, redeem : Nat,
          credit : Nat, lines : Baskets, offered : Offers] :
     t.pc = "balance" \/ t.redeem > 0 => t.customer \in Customer}
SaleCall ==
  {t \in [pc : {"earn", "redeem", "log", "pend"}, customer : Customer \union {NoCustomer}, value : Nat,
          burn : Nat, event : EventRecord, next : {Idle}] :
     t.pc \in {"earn", "redeem"} => t.customer \in Customer}
BackCall == [pc : {"log", "pend"}, next : {Idle} \union RingCall, event : EventRecord]
SyncRun == [pc : {"idle", "apply", "clear", "announce"}, batch : Seq(EventRecord)]

PosTypes ==
  /\ sales \in Seq(SaleRecord) /\ posCalls \in Nat /\ hostPoints \in Int
  /\ points \in [Customer -> Int] /\ earned \in [Customer -> Int] /\ spent \in [Customer -> Int]
  /\ localLog \in Seq(EventRecord) /\ pending \in Seq(EventRecord) /\ central \in Seq(EventRecord)
  /\ till \in [Clerk -> {Idle} \union RingCall \union SaleCall \union BackCall]
  /\ syncing \in [Syncer -> SyncRun]

SalesSettle == \A s \in 1..Len(sales) : Settles(sales[s].tenders, sales[s].total)

\* A clerk whose call has an event to record, and the events that are the register's own.
Booking(t) == t.pc \in {"earn", "redeem", "log", "pend"}
Genuine(e) ==
  /\ 0 - posCalls <= e.txn /\ e.txn <= Len(sales)
  /\ e.txn >= 1 => e.amount = sales[e.txn].total

\* A transaction is of one call, and of one event.
Identified ==
  /\ \A k \in Clerk : Booking(till[k]) => Genuine(till[k].event)
  /\ \A e \in Events(localLog) : Genuine(e)
  /\ \A k, l \in Clerk : Booking(till[k]) /\ Booking(till[l]) /\ till[k].event.txn = till[l].event.txn => k = l
  /\ \A e \in Events(localLog), k \in Clerk :
       Booking(till[k]) /\ e.txn = till[k].event.txn => till[k].pc = "pend" /\ e = till[k].event
  /\ \A e, f \in Events(localLog) : e.txn = f.txn => e = f
  /\ \A k \in Clerk : till[k].pc = "pend" => till[k].event \in Events(localLog)

\* What is copied is copied from the log, and what a run of sync_to will clear is
\* applied, in its batch, or known to have overtaken it.
Delivered ==
  /\ Events(pending) \subseteq Events(localLog)
  /\ \A s \in Syncer : Events(syncing[s].batch) \subseteq Events(localLog)
  /\ \A s \in Syncer : syncing[s].pc \in {"apply", "clear"} =>
       Events(pending) \subseteq Events(syncing[s].batch) \union Events(central) \union overtaken
  /\ \A s \in Syncer : /\ syncing[s].pc = "apply" => syncing[s].batch # <<>>
                       /\ syncing[s].pc = "clear" => syncing[s].batch = <<>>
  /\ RecordedIsPendingOrSynced
  /\ CentralOnce

PosInv ==
  /\ PosTypes /\ PointsCovered /\ SalesSettle /\ Identified /\ CapturedIsRecorded /\ Delivered

\* A step of one clerk, or of none.
OthersStay(k) == \A l \in Clerk : l # k => till'[l] = till[l]
\* What was the register's own stays so, as sales and calls are added.
Grows ==
  /\ posCalls \in Nat /\ posCalls' \in Nat /\ posCalls <= posCalls'
  /\ Len(sales) \in Nat /\ Len(sales') \in Nat /\ Len(sales) <= Len(sales')
  /\ \A s \in 1..Len(sales) : sales'[s].total = sales[s].total

LEMMA GenuineStays ==
  ASSUME Grows, NEW e \in EventRecord, Genuine(e)
  PROVE  Genuine(e)'
<1>1. PICK t \in Int : t = e.txn
  BY DEF EventRecord
<1>2. PICK c \in Nat, d \in Nat : c = posCalls /\ d = posCalls' /\ c <= d
  BY DEF Grows
<1>3. PICK n \in Nat, m \in Nat : n = Len(sales) /\ m = Len(sales') /\ n <= m
  BY DEF Grows
<1>4. 0 - c <= t /\ t <= n
  BY <1>1, <1>2, <1>3 DEF Genuine
<1>5. 0 - d <= t /\ t <= m
  <2>1. c <= d /\ n <= m
    BY <1>2, <1>3
  <2> QED
    BY <1>4, <2>1
<1>6. ASSUME t >= 1 PROVE e.amount = sales'[t].total
  <2>1. e.amount = sales[t].total
    BY <1>1, <1>6 DEF Genuine
  <2>2. t \in 1..n
    BY <1>4, <1>6
  <2> QED
    BY <1>3, <2>1, <2>2 DEF Grows
<1> QED
  BY <1>1, <1>2, <1>3, <1>5, <1>6 DEF Genuine

\* A call that ends, or that goes on with the event it has and not to the pending list.
GoesOn(k) ==
  /\ ~(till[k].pc = "pend" /\ Booking(till'[k])) /\ till'[k].pc # "pend"
  /\ Booking(till'[k]) => Booking(till[k]) /\ till'[k].event = till[k].event

LEMMA IdentifiedGoesOn ==
  ASSUME Identified, Grows, NEW k \in Clerk, OthersStay(k), GoesOn(k),
         Events(localLog) \subseteq EventRecord, \A l \in Clerk : Booking(till[l]) => till[l].event \in EventRecord,
         Events(localLog') = Events(localLog)
  PROVE  Identified'
<1>1. \A l \in Clerk : Booking(till'[l]) =>
        /\ Booking(till[l]) /\ till'[l].event = till[l].event
        /\ till[l].pc = "pend" => till'[l].pc = "pend"
        /\ till'[l].pc = "pend" => till[l].pc = "pend"
  <2>1. ASSUME NEW l \in Clerk, Booking(till'[l])
        PROVE  /\ Booking(till[l]) /\ till'[l].event = till[l].event
               /\ till[l].pc = "pend" => till'[l].pc = "pend"
               /\ till'[l].pc = "pend" => till[l].pc = "pend"
    <3>1. CASE l = k
      BY <2>1, <3>1 DEF GoesOn
    <3>2. CASE l # k
      BY <2>1, <3>2 DEF OthersStay
    <3> QED
      BY <3>1, <3>2
  <2> QED
    BY <2>1
<1>2. \A l \in Clerk : Booking(till'[l]) => Genuine(till[l].event)'
  <2>1. ASSUME NEW l \in Clerk, Booking(till'[l]) PROVE Genuine(till[l].event)'
    <3>1. PICK e \in EventRecord : e = till[l].event /\ e = till'[l].event
      BY <1>1, <2>1
    <3>2. Genuine(e)
      BY <1>1, <2>1, <3>1 DEF Identified
    <3>3. Genuine(e)'
      BY <3>2, GenuineStays
    <3> QED
      BY <3>1, <3>3
  <2> QED
    BY <2>1
<1>3. \A e \in Events(localLog') : Genuine(e)'
  <2>1. ASSUME NEW e \in Events(localLog) PROVE Genuine(e)'
    <3>1. Genuine(e) /\ e \in EventRecord
      BY DEF Identified
    <3> QED
      BY <3>1, GenuineStays
  <2> QED
    BY <2>1
<1>4. \A m, l \in Clerk : Booking(till'[m]) /\ Booking(till'[l]) /\ till'[m].event.txn = till'[l].event.txn => m = l
  BY <1>1 DEF Identified
<1>5. \A e \in Events(localLog'), l \in Clerk :
        Booking(till'[l]) /\ e.txn = till'[l].event.txn => till'[l].pc = "pend" /\ e = till'[l].event
  BY <1>1 DEF Identified
<1>6. \A e, f \in Events(localLog') : e.txn = f.txn => e = f
  BY DEF Identified
<1>7. \A l \in Clerk : till'[l].pc = "pend" => till'[l].event \in Events(localLog')
  <2>1. ASSUME NEW l \in Clerk, till'[l].pc = "pend" PROVE till'[l].event \in Events(localLog')
    <3>1. Booking(till'[l])
      BY <2>1 DEF Booking
    <3>2. till[l].pc = "pend" /\ till'[l].event = till[l].event
      BY <1>1, <2>1, <3>1
    <3> QED
      BY <3>2 DEF Identified
  <2> QED
    BY <2>1
<1> QED
  BY <1>2, <1>3, <1>4, <1>5, <1>6, <1>7 DEF Identified

\* A call that is given a transaction no sale and no return has had.
StartsFresh(k) ==
  /\ ~Booking(till[k]) /\ Booking(till'[k]) /\ till'[k].pc # "pend" /\ till'[k].event \in EventRecord
  /\ Genuine(till[k].event)'
  /\ till'[k].event.txn > Len(sales) \/ till'[k].event.txn < 0 - posCalls

LEMMA IdentifiedStarts ==
  ASSUME Identified, Grows, NEW k \in Clerk, OthersStay(k), StartsFresh(k),
         Events(localLog) \subseteq EventRecord, \A l \in Clerk : Booking(till[l]) => till[l].event \in EventRecord,
         Events(localLog') = Events(localLog)
  PROVE  Identified'
<1>1. PICK new \in EventRecord : new = till'[k].event
  BY DEF StartsFresh
<1>2. \A e \in EventRecord : Genuine(e) => e.txn # new.txn
  <2>1. ASSUME NEW e \in EventRecord, Genuine(e) PROVE e.txn # new.txn
    <3>1. PICK t \in Int, u \in Int : t = e.txn /\ u = new.txn
      BY DEF EventRecord
    <3>2. PICK n \in Nat, c \in Nat : n = Len(sales) /\ c = posCalls
      BY DEF Grows
    <3>3. 0 - c <= t /\ t <= n
      BY <2>1, <3>1, <3>2 DEF Genuine
    <3>4. u > n \/ u < 0 - c
      BY <1>1, <3>1, <3>2 DEF StartsFresh
    <3>5. t # u
      BY <3>3, <3>4
    <3> QED
      BY <3>1, <3>5
  <2> QED
    BY <2>1
<1>3. \A l \in Clerk : l # k /\ Booking(till'[l]) =>
        /\ Booking(till[l]) /\ till'[l] = till[l] /\ till[l].event \in EventRecord
        /\ Genuine(till[l].event) /\ till[l].event.txn # new.txn
  BY <1>2 DEF OthersStay, Identified
<1>4. \A e \in Events(localLog) : e \in EventRecord /\ Genuine(e) /\ e.txn # new.txn
  BY <1>2 DEF Identified
<1>5. \A l \in Clerk : Booking(till'[l]) => Genuine(till[l].event)'
  <2>1. ASSUME NEW l \in Clerk, Booking(till'[l]), l # k PROVE Genuine(till[l].event)'
    <3>1. PICK e \in EventRecord : e = till[l].event /\ e = till'[l].event
      BY <1>3, <2>1
    <3>2. Genuine(e)
      BY <1>3, <2>1, <3>1
    <3>3. Genuine(e)'
      BY <3>2, GenuineStays
    <3> QED
      BY <3>1, <3>3
  <2>2. Genuine(till[k].event)'
    BY DEF StartsFresh
  <2> QED
    BY <2>1, <2>2
<1>6. \A e \in Events(localLog') : Genuine(e)'
  BY <1>4, GenuineStays
<1>7. \A m, l \in Clerk : Booking(till'[m]) /\ Booking(till'[l]) /\ till'[m].event.txn = till'[l].event.txn => m = l
  <2>1. ASSUME NEW m \in Clerk, NEW l \in Clerk, Booking(till'[m]), Booking(till'[l]),
               till'[m].event.txn = till'[l].event.txn, m # l
        PROVE  FALSE
    <3>1. CASE m = k
      BY <1>1, <1>3, <2>1, <3>1
    <3>2. CASE l = k
      BY <1>1, <1>3, <2>1, <3>2
    <3>3. CASE m # k /\ l # k
      BY <1>3, <2>1, <3>3 DEF Identified
    <3> QED
      BY <3>1, <3>2, <3>3
  <2> QED
    BY <2>1
<1>8. \A e \in Events(localLog'), l \in Clerk :
        Booking(till'[l]) /\ e.txn = till'[l].event.txn => till'[l].pc = "pend" /\ e = till'[l].event
  <2>1. ASSUME NEW e \in Events(localLog), NEW l \in Clerk, Booking(till'[l]), e.txn = till'[l].event.txn
        PROVE  till'[l].pc = "pend" /\ e = till'[l].event
    <3>1. l # k
      BY <1>1, <1>4, <2>1
    <3> QED
      BY <1>3, <2>1, <3>1 DEF Identified
  <2> QED
    BY <2>1
<1>9. \A e, f \in Events(localLog') : e.txn = f.txn => e = f
  BY DEF Identified
<1>10. \A l \in Clerk : till'[l].pc = "pend" => till'[l].event \in Events(localLog')
  <2>1. ASSUME NEW l \in Clerk, till'[l].pc = "pend" PROVE till'[l].event \in Events(localLog')
    <3>1. l # k
      BY <2>1 DEF StartsFresh
    <3>2. till'[l] = till[l]
      BY <3>1 DEF OthersStay
    <3> QED
      BY <2>1, <3>2 DEF Identified
  <2> QED
    BY <2>1
<1> QED
  BY <1>5, <1>6, <1>7, <1>8, <1>9, <1>10 DEF Identified

\* A call whose event is written to the log.
IsLogged(k) ==
  /\ till[k].pc = "log" /\ till'[k].pc = "pend" /\ till'[k].event = till[k].event
  /\ till[k].event \in EventRecord
  /\ Events(localLog') = Events(localLog) \union {till[k].event}

LEMMA IdentifiedLogs ==
  ASSUME Identified, Grows, NEW k \in Clerk, OthersStay(k), IsLogged(k),
         Events(localLog) \subseteq EventRecord, \A l \in Clerk : Booking(till[l]) => till[l].event \in EventRecord
  PROVE  Identified'
<1>1. PICK new \in EventRecord : new = till[k].event /\ new = till'[k].event
  BY DEF IsLogged
<1>2. Booking(till[k]) /\ Booking(till'[k]) /\ till[k].pc # "pend" /\ till'[k].pc = "pend"
  BY DEF IsLogged, Booking
<1>3. \A e \in Events(localLog') : e \in Events(localLog) \/ e = new
  BY <1>1 DEF IsLogged
<1>4. \A l \in Clerk : /\ Booking(till'[l]) <=> Booking(till[l])
                       /\ Booking(till[l]) => till'[l].event = till[l].event
  <2>1. ASSUME NEW l \in Clerk PROVE /\ Booking(till'[l]) <=> Booking(till[l])
                                     /\ Booking(till[l]) => till'[l].event = till[l].event
    <3>1. CASE l = k
      BY <1>1, <1>2, <3>1
    <3>2. CASE l # k
      BY <3>2 DEF OthersStay
    <3> QED
      BY <3>1, <3>2
  <2> QED
    BY <2>1
<1>5. \A e \in Events(localLog) : e \in EventRecord /\ Genuine(e) /\ e.txn # new.txn
  <2>1. \A e \in Events(localLog) : e \in EventRecord /\ Genuine(e)
    BY DEF Identified
  <2>2. \A e \in Events(localLog) : Booking(till[k]) /\ e.txn = till[k].event.txn => till[k].pc = "pend"
    BY DEF Identified
  <2> QED
    BY <1>1, <1>2, <2>1, <2>2
<1>6. Genuine(new)
  BY <1>1, <1>2 DEF Identified
<1>7. \A l \in Clerk : Booking(till'[l]) => Genuine(till[l].event)'
  <2>1. ASSUME NEW l \in Clerk, Booking(till'[l]) PROVE Genuine(till[l].event)'
    <3>1. PICK e \in EventRecord : e = till[l].event /\ e = till'[l].event
      BY <1>4, <2>1
    <3>2. Genuine(e)
      BY <1>4, <2>1, <3>1 DEF Identified
    <3>3. Genuine(e)'
      BY <3>2, GenuineStays
    <3> QED
      BY <3>1, <3>3
  <2> QED
    BY <2>1
<1>8. \A e \in Events(localLog') : Genuine(e)'
  BY <1>3, <1>5, <1>6, GenuineStays
<1>9. \A m, l \in Clerk : Booking(till'[m]) /\ Booking(till'[l]) /\ till'[m].event.txn = till'[l].event.txn => m = l
  BY <1>4 DEF Identified
<1>10. \A e \in Events(localLog'), l \in Clerk :
         Booking(till'[l]) /\ e.txn = till'[l].event.txn => till'[l].pc = "pend" /\ e = till'[l].event
  <2>1. ASSUME NEW e \in Events(localLog'), NEW l \in Clerk, Booking(till'[l]), e.txn = till'[l].event.txn
        PROVE  till'[l].pc = "pend" /\ e = till'[l].event
    <3>1. Booking(till[l]) /\ till'[l].event = till[l].event
      BY <1>4, <2>1
    <3>2. CASE e = new
      <4>1. l = k
        BY <1>1, <1>2, <2>1, <3>1, <3>2 DEF Identified
      <4> QED
        BY <1>1, <1>2, <3>2, <4>1
    <3>3. CASE e # new
      <4>1. e \in Events(localLog)
        BY <1>3, <3>3
      <4>2. l # k
        BY <1>1, <1>5, <2>1, <4>1
      <4>3. till'[l] = till[l]
        BY <4>2 DEF OthersStay
      <4> QED
        BY <2>1, <3>1, <4>1, <4>3 DEF Identified
    <3> QED
      BY <3>2, <3>3
  <2> QED
    BY <2>1
<1>11. \A e, f \in Events(localLog') : e.txn = f.txn => e = f
  BY <1>3, <1>5 DEF Identified
<1>12. \A l \in Clerk : till'[l].pc = "pend" => till'[l].event \in Events(localLog')
  <2>1. ASSUME NEW l \in Clerk, till'[l].pc = "pend" PROVE till'[l].event \in Events(localLog')
    <3>1. CASE l = k
      BY <1>1, <3>1 DEF IsLogged
    <3>2. CASE l # k
      <4>1. till'[l] = till[l]
        BY <3>2 DEF OthersStay
      <4>2. till[l].event \in Events(localLog)
        BY <2>1, <4>1 DEF Identified
      <4> QED
        BY <4>1, <4>2 DEF IsLogged
    <3> QED
      BY <3>1, <3>2
  <2> QED
    BY <2>1
<1> QED
  BY <1>7, <1>8, <1>9, <1>10, <1>11, <1>12 DEF Identified

\* A captured sale is on its way to the log until it is there, or its call fails.
Recording(t) == t.pc \in {"earn", "redeem", "log"}
Tracks(k) ==
  /\ dropped \subseteq dropped' /\ Events(localLog) \subseteq Events(localLog')
  /\ Recording(till[k]) => \/ Recording(till'[k]) /\ till'[k].event = till[k].event
                           \/ till[k].event.txn \in dropped'
                           \/ till[k].event \in Events(localLog')
  /\ \A s \in 1..Len(sales') : s \in 1..Len(sales) \/ (Recording(till'[k]) /\ till'[k].event.txn = s)

LEMMA CapturedStays ==
  ASSUME CapturedIsRecorded, Identified, Grows, NEW k \in Clerk, OthersStay(k), Tracks(k),
         DOMAIN sales = 1..Len(sales), DOMAIN sales' = 1..Len(sales')
  PROVE  CapturedIsRecorded'
<1>1. SUFFICES ASSUME NEW s \in 1..Len(sales')
               PROVE  \/ s \in dropped'
                      \/ \E e \in Events(localLog') : e.txn = s /\ e.amount = sales'[s].total
                      \/ \E l \in Clerk : Recording(till'[l]) /\ till'[l].event.txn = s
  BY DEF CapturedIsRecorded, Captured, Recording
<1>2. CASE s \notin 1..Len(sales)
  BY <1>2 DEF Tracks
<1>3. CASE s \in 1..Len(sales)
  <2>1. PICK n \in Nat : n = Len(sales) /\ s \in 1..n
    BY <1>3 DEF Grows
  <2>2. sales'[s].total = sales[s].total /\ s >= 1
    BY <1>3, <2>1 DEF Grows
  <2>3. \/ s \in dropped
        \/ \E e \in Events(localLog) : e.txn = s /\ e.amount = sales[s].total
        \/ \E l \in Clerk : Recording(till[l]) /\ till[l].event.txn = s
    BY <1>3 DEF CapturedIsRecorded, Captured, Recording
  <2>4. CASE s \in dropped
    BY <2>4 DEF Tracks
  <2>5. ASSUME NEW e \in Events(localLog), e.txn = s, e.amount = sales[s].total
        PROVE  \E f \in Events(localLog') : f.txn = s /\ f.amount = sales'[s].total
    BY <2>2, <2>5 DEF Tracks
  <2>6. ASSUME NEW l \in Clerk, Recording(till[l]), till[l].event.txn = s
        PROVE  \/ s \in dropped'
               \/ \E e \in Events(localLog') : e.txn = s /\ e.amount = sales'[s].total
               \/ Recording(till'[l]) /\ till'[l].event.txn = s
    <3>1. CASE l # k
      BY <2>6, <3>1 DEF OthersStay
    <3>2. CASE l = k
      <4>1. Genuine(till[k].event)
        BY <2>6, <3>2 DEF Identified, Recording, Booking
      <4>2. till[k].event.amount = sales[s].total
        BY <2>2, <2>6, <3>2, <4>1 DEF Genuine
      <4> QED
        BY <2>2, <2>6, <3>2, <4>2 DEF Tracks
    <3> QED
      BY <3>1, <3>2
  <2> QED
    BY <2>3, <2>4, <2>5, <2>6
<1> QED
  BY <1>2, <1>3

\* What recording an event does to its delivery.
LEMMA DeliveredStays ==
  ASSUME Delivered, NEW k \in Clerk, OthersStay(k), till[k].pc # "pend",
         UNCHANGED <<localLog, pending, central, syncing, overtaken>>
  PROVE  Delivered'
<1>1. RecordedIsPendingOrSynced'
  <2>1. ASSUME NEW l \in Clerk, till[l].pc = "pend" PROVE till'[l] = till[l]
    BY <2>1 DEF OthersStay
  <2> QED
    BY <2>1 DEF Delivered, RecordedIsPendingOrSynced
<1>2. CentralOnce'
  BY DEF Delivered, CentralOnce
<1> QED
  BY <1>1, <1>2 DEF Delivered

LEMMA DeliveredLogs ==
  ASSUME Delivered, NEW k \in Clerk, OthersStay(k), IsLogged(k),
         UNCHANGED <<pending, central, syncing, overtaken>>
  PROVE  Delivered'
<1>1. Events(localLog) \subseteq Events(localLog')
  BY DEF IsLogged
<1>2. RecordedIsPendingOrSynced'
  <2>1. ASSUME NEW l \in Clerk, till[l].pc = "pend" PROVE till'[l] = till[l]
    BY <2>1 DEF OthersStay, IsLogged
  <2>2. \A e \in Events(localLog) : \/ e \in Events(pending) \union Events(central) \union overtaken
                                    \/ \E l \in Clerk : till'[l].pc = "pend" /\ till'[l].event = e
    BY <2>1 DEF Delivered, RecordedIsPendingOrSynced
  <2>3. \A e \in Events(localLog') : e \in Events(localLog) \/ (till'[k].pc = "pend" /\ till'[k].event = e)
    BY DEF IsLogged
  <2> QED
    BY <2>2, <2>3 DEF RecordedIsPendingOrSynced
<1>3. CentralOnce'
  BY <1>1 DEF Delivered, CentralOnce
<1> QED
  BY <1>1, <1>2, <1>3 DEF Delivered

LEMMA DeliveredPends ==
  ASSUME Delivered, Identified, NEW k \in Clerk, OthersStay(k), till[k].pc = "pend",
         Events(pending') = Events(pending) \union {till[k].event},
         overtaken \subseteq overtaken',
         \A s \in Syncer : syncing[s].pc # "idle" => till[k].event \in overtaken',
         UNCHANGED <<localLog, central, syncing>>
  PROVE  Delivered'
<1>1. till[k].event \in Events(localLog)
  BY DEF Identified
<1>2. Events(pending') \subseteq Events(localLog)
  BY <1>1 DEF Delivered
<1>3. ASSUME NEW s \in Syncer, syncing[s].pc \in {"apply", "clear"}
      PROVE  Events(pending') \subseteq Events(syncing[s].batch) \union Events(central) \union overtaken'
  <2>1. Events(pending) \subseteq Events(syncing[s].batch) \union Events(central) \union overtaken
    BY <1>3 DEF Delivered
  <2>2. till[k].event \in overtaken'
    BY <1>3
  <2> QED
    BY <2>1, <2>2
<1>4. RecordedIsPendingOrSynced'
  <2>1. ASSUME NEW e \in Events(localLog), e \notin Events(pending') \union Events(central) \union overtaken'
        PROVE  \E l \in Clerk : till'[l].pc = "pend" /\ till'[l].event = e
    <3>1. e \notin Events(pending) \union Events(central) \union overtaken
      BY <2>1
    <3>2. PICK l \in Clerk : till[l].pc = "pend" /\ till[l].event = e
      BY <3>1 DEF Delivered, RecordedIsPendingOrSynced
    <3>3. l # k
      BY <2>1, <3>2
    <3> QED
      BY <3>2, <3>3 DEF OthersStay
  <2> QED
    BY <2>1 DEF RecordedIsPendingOrSynced
<1>5. CentralOnce'
  BY DEF Delivered, CentralOnce
<1>6. \A s \in Syncer : Events(syncing[s].batch) \subseteq Events(localLog)
  BY DEF Delivered
<1>7. \A s \in Syncer : /\ syncing[s].pc = "apply" => syncing[s].batch # <<>>
                        /\ syncing[s].pc = "clear" => syncing[s].batch = <<>>
  BY DEF Delivered
<1> QED
  BY <1>2, <1>3, <1>4, <1>5, <1>6, <1>7 DEF Delivered

\* A step of one run of sync_to, or of none.
OtherRunsStay(s) == \A r \in Syncer : r # s => syncing'[r] = syncing[r]

\* A run that ends, or that starts with the pending list as it stands.
LEMMA DeliveredRuns ==
  ASSUME Delivered, NEW s \in Syncer, OtherRunsStay(s), UNCHANGED <<till, localLog, pending, central, overtaken>>,
         \/ syncing'[s].pc = "idle" /\ syncing'[s].batch = <<>>
         \/ syncing'[s].pc = "apply" /\ syncing'[s].batch = pending /\ pending # <<>>
  PROVE  Delivered'
<1>1. \A r \in Syncer : Events(syncing'[r].batch) \subseteq Events(localLog)
  <2>1. ASSUME NEW r \in Syncer PROVE Events(syncing'[r].batch) \subseteq Events(localLog)
    <3>1. CASE r # s
      BY <3>1 DEF OtherRunsStay, Delivered
    <3>2. CASE r = s
      BY <3>2, NoEvents DEF Delivered
    <3> QED
      BY <3>1, <3>2
  <2> QED
    BY <2>1
<1>2. \A r \in Syncer : syncing'[r].pc \in {"apply", "clear"} =>
        Events(pending) \subseteq Events(syncing'[r].batch) \union Events(central) \union overtaken
  <2>1. ASSUME NEW r \in Syncer, syncing'[r].pc \in {"apply", "clear"}
        PROVE  Events(pending) \subseteq Events(syncing'[r].batch) \union Events(central) \union overtaken
    <3>1. CASE r # s
      BY <2>1, <3>1 DEF OtherRunsStay, Delivered
    <3>2. CASE r = s
      BY <2>1, <3>2
    <3> QED
      BY <3>1, <3>2
  <2> QED
    BY <2>1
<1>3. \A r \in Syncer : /\ syncing'[r].pc = "apply" => syncing'[r].batch # <<>>
                        /\ syncing'[r].pc = "clear" => syncing'[r].batch = <<>>
  BY DEF OtherRunsStay, Delivered
<1>4. RecordedIsPendingOrSynced' /\ CentralOnce'
  BY DEF Delivered, RecordedIsPendingOrSynced, CentralOnce
<1>5. Events(pending) \subseteq Events(localLog)
  BY DEF Delivered
<1> QED
  BY <1>1, <1>2, <1>3, <1>4, <1>5 DEF Delivered

\* The first event of a batch is at the central store, once, when it has been applied.
Applies(s, event) ==
  /\ syncing[s].pc = "apply" /\ event \in Events(syncing[s].batch)
  /\ Events(syncing[s].batch) = {event} \union Events(syncing'[s].batch)
  /\ \/ syncing'[s].pc = "apply" /\ syncing'[s].batch # <<>>
     \/ syncing'[s].pc = "clear" /\ syncing'[s].batch = <<>>

LEMMA DeliveredApplies ==
  ASSUME Delivered, Identified, NEW s \in Syncer, OtherRunsStay(s), UNCHANGED <<till, localLog, pending, overtaken>>,
         NEW event \in EventRecord, Applies(s, event), central \in Seq(EventRecord),
         central' = IF \E i \in DOMAIN central : central[i].txn = event.txn THEN central ELSE Append(central, event)
  PROVE  Delivered'
<1>1. event \in Events(localLog)
  BY DEF Applies, Delivered
<1>2. PICK n \in Nat : n = Len(central) /\ DOMAIN central = 1..n
  BY LenProperties
<1>3. Events(central) \subseteq Events(central') /\ event \in Events(central') /\ CentralOnce'
  <2>1. CASE \E i \in DOMAIN central : central[i].txn = event.txn
    <3>1. PICK i \in DOMAIN central : central[i].txn = event.txn
      BY <2>1
    <3>2. central[i] \in Events(central)
      BY DEF Events, Range
    <3>3. central[i] \in Events(localLog)
      BY <3>2 DEF Delivered, CentralOnce
    <3>4. central[i] = event
      BY <1>1, <3>1, <3>3 DEF Identified
    <3> QED
      BY <2>1, <3>2, <3>4 DEF Delivered, CentralOnce
  <2>2. CASE ~(\E i \in DOMAIN central : central[i].txn = event.txn)
    <3>1. Events(central') = Events(central) \union {event}
      BY <2>2, EventsOfAppend
    <3>2. central' = Append(central, event)
      BY <2>2
    <3>3. DOMAIN central' = 1..(n + 1) /\ central'[n + 1] = event /\ \A i \in 1..n : central'[i] = central[i]
      BY <1>2, <3>2, AppendProperties
    <3>4. \A i \in 1..(n + 1) : i \in 1..n \/ i = n + 1
      OBVIOUS
    <3>5. \A i, j \in 1..n : central[i].txn = central[j].txn => i = j
      BY <1>2 DEF Delivered, CentralOnce
    <3>6. \A i \in 1..n : central[i].txn # event.txn
      BY <1>2, <2>2
    <3>7. \A i, j \in 1..(n + 1) : central'[i].txn = central'[j].txn => i = j
      BY <3>3, <3>4, <3>5, <3>6
    <3>8. Events(central') \subseteq Events(localLog)
      BY <1>1, <3>1 DEF Delivered, CentralOnce
    <3> QED
      BY <3>1, <3>3, <3>7, <3>8 DEF CentralOnce
  <2> QED
    BY <2>1, <2>2
<1>4. \A r \in Syncer : Events(syncing'[r].batch) \subseteq Events(localLog)
  <2>1. ASSUME NEW r \in Syncer PROVE Events(syncing'[r].batch) \subseteq Events(localLog)
    <3>1. CASE r # s
      BY <3>1 DEF OtherRunsStay, Delivered
    <3>2. CASE r = s
      BY <3>2 DEF Delivered, Applies
    <3> QED
      BY <3>1, <3>2
  <2> QED
    BY <2>1
<1>5. \A r \in Syncer : syncing'[r].pc \in {"apply", "clear"} =>
        Events(pending) \subseteq Events(syncing'[r].batch) \union Events(central') \union overtaken
  <2>1. ASSUME NEW r \in Syncer, syncing'[r].pc \in {"apply", "clear"}
        PROVE  Events(pending) \subseteq Events(syncing'[r].batch) \union Events(central') \union overtaken
    <3>1. CASE r # s
      <4>1. Events(pending) \subseteq Events(syncing'[r].batch) \union Events(central) \union overtaken
        BY <2>1, <3>1 DEF OtherRunsStay, Delivered
      <4> QED
        BY <1>3, <4>1
    <3>2. CASE r = s
      <4>1. Events(pending) \subseteq Events(syncing[s].batch) \union Events(central) \union overtaken
        BY DEF Applies, Delivered
      <4>2. Events(syncing[s].batch) = {event} \union Events(syncing'[s].batch)
        BY DEF Applies
      <4> QED
        BY <1>3, <3>2, <4>1, <4>2
    <3> QED
      BY <3>1, <3>2
  <2> QED
    BY <2>1
<1>6. \A r \in Syncer : /\ syncing'[r].pc = "apply" => syncing'[r].batch # <<>>
                        /\ syncing'[r].pc = "clear" => syncing'[r].batch = <<>>
  BY DEF OtherRunsStay, Applies, Delivered
<1>7. RecordedIsPendingOrSynced'
  BY <1>3 DEF Delivered, RecordedIsPendingOrSynced
<1>8. Events(pending) \subseteq Events(localLog)
  BY DEF Delivered
<1> QED
  BY <1>3, <1>4, <1>5, <1>6, <1>7, <1>8 DEF Delivered

LEMMA DeliveredClears ==
  ASSUME Delivered, NEW s \in Syncer, OtherRunsStay(s), UNCHANGED <<till, localLog, central, overtaken>>,
         syncing[s].pc = "clear", syncing'[s].pc = "announce", syncing'[s].batch = syncing[s].batch,
         pending' = <<>>
  PROVE  Delivered'
<1>1. Events(pending) \subseteq Events(central) \union overtaken
  BY NoEvents DEF Delivered
<1>2. Events(pending') = {}
  BY NoEvents
<1>3. RecordedIsPendingOrSynced'
  <2>1. \A e \in Events(localLog) : \/ e \in Events(central) \union overtaken
                                    \/ \E l \in Clerk : till[l].pc = "pend" /\ till[l].event = e
    BY <1>1 DEF Delivered, RecordedIsPendingOrSynced
  <2> QED
    BY <2>1 DEF RecordedIsPendingOrSynced
<1>4. \A r \in Syncer : Events(syncing'[r].batch) \subseteq Events(localLog)
  BY DEF OtherRunsStay, Delivered
<1>5. \A r \in Syncer : /\ syncing'[r].pc = "apply" => syncing'[r].batch # <<>>
                        /\ syncing'[r].pc = "clear" => syncing'[r].batch = <<>>
  BY DEF OtherRunsStay, Delivered
<1>6. CentralOnce'
  BY DEF Delivered, CentralOnce
<1> QED
  BY <1>2, <1>3, <1>4, <1>5, <1>6 DEF Delivered

-----------------------------------------------------------------------------
(* The steps of a clerk.                                                   *)

LEMMA CallIs ==
  ASSUME PosTypes, NEW k \in Clerk
  PROVE  /\ till[k].pc = "idle" => till[k] = Idle
         /\ till[k].pc \in {"balance", "price"} => till[k] \in RingCall
         /\ till[k].pc \in {"earn", "redeem"} => till[k] \in SaleCall
         /\ till[k].pc \in {"log", "pend"} => till[k] \in SaleCall \union BackCall
         /\ Booking(till[k]) => till[k].event \in EventRecord
<1>1. till[k] \in {Idle} \union RingCall \union SaleCall \union BackCall
  BY DEF PosTypes
<1>2. Idle.pc = "idle"
  BY DEF Idle
<1>3. \A t \in RingCall : t.pc \in {"balance", "price"}
  BY DEF RingCall
<1>4. \A t \in SaleCall : t.pc \in {"earn", "redeem", "log", "pend"} /\ t.event \in EventRecord
  BY DEF SaleCall
<1>5. \A t \in BackCall : t.pc \in {"log", "pend"} /\ t.event \in EventRecord
  BY DEF BackCall
<1> QED
  BY <1>1, <1>2, <1>3, <1>4, <1>5 DEF Booking

LEMMA TillBecomes ==
  ASSUME PosTypes, NEW k \in Clerk, NEW t, till' = [till EXCEPT ![k] = t],
         t \in {Idle} \union RingCall \union SaleCall \union BackCall
  PROVE  /\ till' \in [Clerk -> {Idle} \union RingCall \union SaleCall \union BackCall]
         /\ till'[k] = t /\ OthersStay(k)
  BY DEF PosTypes, OthersStay

LEMMA RingIs ==
  ASSUME NEW t \in RingCall
  PROVE  /\ t.pc \in {"balance", "price"} /\ t.customer \in Customer \union {NoCustomer} /\ t.redeem \in Nat
         /\ t.credit \in Nat /\ t.lines \in Baskets /\ t.offered \in Offers
         /\ t.pc = "balance" \/ t.redeem > 0 => t.customer \in Customer
         /\ [t EXCEPT !.pc = "price"] \in RingCall /\ [t EXCEPT !.pc = "price"].pc = "price"
         /\ t # Idle
<1>1. /\ t.pc \in {"balance", "price"} /\ t.customer \in Customer \union {NoCustomer} /\ t.redeem \in Nat
      /\ t.credit \in Nat /\ t.lines \in Baskets /\ t.offered \in Offers
      /\ t.pc = "balance" \/ t.redeem > 0 => t.customer \in Customer
  BY DEF RingCall
<1>2. [t EXCEPT !.pc = "price"] \in RingCall /\ [t EXCEPT !.pc = "price"].pc = "price"
  <2>1. PICK u : u = [t EXCEPT !.pc = "price"]
    OBVIOUS
  <2>2. /\ u \in [pc : {"balance", "price"}, customer : Customer \union {NoCustomer}, redeem : Nat,
                  credit : Nat, lines : Baskets, offered : Offers]
        /\ u.pc = "price" /\ u.customer = t.customer /\ u.redeem = t.redeem
    BY <2>1 DEF RingCall
  <2> QED
    BY <1>1, <2>1, <2>2 DEF RingCall
<1>3. t # Idle
  BY <1>1 DEF Idle
<1> QED
  BY <1>1, <1>2, <1>3

LEMMA SaleCallIs ==
  ASSUME NEW t \in SaleCall, NEW to \in {"redeem", "log", "pend"}, to = "redeem" => t.customer \in Customer
  PROVE  /\ [t EXCEPT !.pc = to] \in SaleCall /\ [t EXCEPT !.pc = to].pc = to
         /\ [t EXCEPT !.pc = to].event = t.event /\ [t EXCEPT !.pc = to].next = t.next
<1>1. PICK u : u = [t EXCEPT !.pc = to]
  OBVIOUS
<1>2. /\ u \in [pc : {"earn", "redeem", "log", "pend"}, customer : Customer \union {NoCustomer}, value : Nat,
                burn : Nat, event : EventRecord, next : {Idle}]
      /\ u.pc = to /\ u.event = t.event /\ u.next = t.next /\ u.customer = t.customer
  BY <1>1 DEF SaleCall
<1> QED
  BY <1>1, <1>2 DEF SaleCall

LEMMA BackCallIs ==
  ASSUME NEW t \in BackCall
  PROVE  /\ [t EXCEPT !.pc = "pend"] \in BackCall /\ [t EXCEPT !.pc = "pend"].pc = "pend"
         /\ [t EXCEPT !.pc = "pend"].event = t.event
  BY DEF BackCall

\* Calls and sales that stay as they are, but for the number of calls.
LEMMA NothingSold ==
  ASSUME PosTypes, sales' = sales, posCalls' \in Nat, posCalls <= posCalls'
  PROVE  Grows /\ DOMAIN sales = 1..Len(sales) /\ DOMAIN sales' = 1..Len(sales')
  BY LenProperties DEF PosTypes, Grows

LEMMA LoggedEvents ==
  ASSUME PosTypes
  PROVE  Events(localLog) \subseteq EventRecord
<1>1. PICK n \in Nat : n = Len(localLog) /\ DOMAIN localLog = 1..n
  BY LenProperties DEF PosTypes
<1>2. \A i \in 1..n : localLog[i] \in EventRecord
  BY <1>1, ElementOfSeq DEF PosTypes
<1> QED
  BY <1>1, <1>2 DEF Events, Range

\* A step that sells nothing and books nothing on points.
Unbooked == UNCHANGED <<sales, points, earned, spent>>

LEMMA ClerkGoesOn ==
  ASSUME PosInv, NEW k \in Clerk, OthersStay(k), GoesOn(k), Tracks(k), PosTypes',
         till[k].pc # "pend", PointsCovered',
         sales' = sales, posCalls <= posCalls', UNCHANGED <<localLog, pending, central, syncing, overtaken>>
  PROVE  PosInv'
<1>1. Grows /\ DOMAIN sales = 1..Len(sales) /\ DOMAIN sales' = 1..Len(sales')
  BY NothingSold DEF PosInv, PosTypes
<1>2. SalesSettle'
  BY DEF PosInv, SalesSettle
<1>3. Events(localLog) \subseteq EventRecord /\ \A l \in Clerk : Booking(till[l]) => till[l].event \in EventRecord
  BY LoggedEvents, CallIs DEF PosInv
<1>4. Identified'
  BY <1>1, <1>3, IdentifiedGoesOn DEF PosInv
<1>5. CapturedIsRecorded'
  BY <1>1, CapturedStays DEF PosInv
<1>6. Delivered'
  BY DeliveredStays DEF PosInv
<1> QED
  BY <1>2, <1>4, <1>5, <1>6 DEF PosInv

LEMMA RingingIs ==
  ASSUME NEW c \in Customer \union {NoCustomer}, NEW redeem \in Nat, NEW credit \in Nat,
         NEW lines \in Baskets, NEW offered \in Offers, c = NoCustomer => redeem = 0
  PROVE  /\ Ringing(c, redeem, credit, lines, offered) \in RingCall
         /\ ~Booking(Ringing(c, redeem, credit, lines, offered))
         /\ ~Recording(Ringing(c, redeem, credit, lines, offered))
<1>1. PICK t : t = Ringing(c, redeem, credit, lines, offered)
  OBVIOUS
<1>2. /\ t.pc = (IF c = NoCustomer THEN "price" ELSE "balance") /\ t.customer = c /\ t.redeem = redeem
      /\ t \in [pc : {"balance", "price"}, customer : Customer \union {NoCustomer}, redeem : Nat,
                credit : Nat, lines : Baskets, offered : Offers]
  BY <1>1 DEF Ringing
<1>3. t.pc = "balance" \/ t.redeem > 0 => t.customer \in Customer
  <2>1. CASE c = NoCustomer
    BY <1>2, <2>1
  <2>2. CASE c # NoCustomer
    BY <1>2, <2>2
  <2> QED
    BY <2>1, <2>2
<1>4. t.pc = "price" \/ t.pc = "balance"
  BY <1>2
<1> QED
  BY <1>1, <1>2, <1>3, <1>4 DEF RingCall, Booking, Recording

LEMMA StartSaleKeeps ==
  ASSUME PosInv, NEW k \in Clerk, NEW c \in Customer \union {NoCustomer}, NEW redeem \in Redemptions,
         NEW lines \in Baskets, NEW offered \in Offers, StartSale(k, c, redeem, lines, offered)
  PROVE  PosInv'
<1>1. PICK t : t = Ringing(c, redeem, 0, lines, offered)
  OBVIOUS
<1>2. t \in RingCall /\ ~Booking(t) /\ ~Recording(t)
  <2>1. redeem \in Nat /\ 0 \in Nat /\ (c = NoCustomer => redeem = 0)
    BY PosAssumption DEF StartSale
  <2> QED
    BY <1>1, <2>1, RingingIs
<1>3. till' = [till EXCEPT ![k] = t] /\ till[k].pc = "idle"
  BY <1>1 DEF StartSale
<1>4. till' \in [Clerk -> {Idle} \union RingCall \union SaleCall \union BackCall] /\ till'[k] = t /\ OthersStay(k)
  BY <1>2, <1>3, TillBecomes DEF PosInv
<1>5. UNCHANGED <<sales, points, hostPoints, earned, spent, dropped, localLog, pending, central, syncing, overtaken>>
  BY DEF StartSale, saleState, syncState
<1>6. posCalls' \in Nat /\ posCalls <= posCalls'
  BY DEF StartSale, PosInv, PosTypes
<1>7. PosTypes'
  BY <1>4, <1>5, <1>6 DEF PosInv, PosTypes
<1>8. GoesOn(k) /\ Tracks(k)
  <2>1. GoesOn(k)
    BY <1>2, <1>3, <1>4 DEF GoesOn, Booking
  <2>2. ~Recording(till[k])
    BY <1>3 DEF Recording
  <2> QED
    BY <1>5, <2>1, <2>2 DEF Tracks
<1>9. PointsCovered'
  BY <1>5 DEF PosInv, PointsCovered
<1> QED
  BY <1>3, <1>4, <1>5, <1>6, <1>7, <1>8, <1>9, ClerkGoesOn

LEMMA PushBalanceKeeps ==
  ASSUME PosInv, NEW k \in Clerk, PushBalance(k)
  PROVE  PosInv'
<1>1. till[k] \in RingCall /\ till[k].pc = "balance"
  BY CallIs DEF PosInv, PushBalance
<1>2. PICK t : t = [till[k] EXCEPT !.pc = "price"]
  OBVIOUS
<1>3. t \in RingCall /\ t.pc = "price" /\ till[k].customer \in Customer
  BY <1>1, <1>2, RingIs
<1>4. till' = [till EXCEPT ![k] = t]
  BY <1>2 DEF PushBalance
<1>5. till' \in [Clerk -> {Idle} \union RingCall \union SaleCall \union BackCall] /\ till'[k] = t /\ OthersStay(k)
  BY <1>3, <1>4, TillBecomes DEF PosInv
<1>6. UNCHANGED <<sales, points, earned, spent, dropped, localLog, pending, central, syncing, overtaken, posCalls>>
  BY DEF PushBalance, syncState
<1>7. hostPoints' \in Int
  BY <1>3 DEF PushBalance, PosInv, PosTypes
<1>8. PosTypes'
  BY <1>5, <1>6, <1>7 DEF PosInv, PosTypes
<1>9. GoesOn(k) /\ Tracks(k)
  BY <1>1, <1>3, <1>5, <1>6 DEF GoesOn, Booking, Tracks, Recording
<1>10. PointsCovered'
  BY <1>6 DEF PosInv, PointsCovered
<1>11. posCalls <= posCalls'
  BY <1>6 DEF PosInv, PosTypes
<1> QED
  BY <1>1, <1>5, <1>6, <1>8, <1>9, <1>10, <1>11, ClerkGoesOn

\* A call that has booked nothing ends.
LEMMA EndsUnbooked ==
  ASSUME PosInv, NEW k \in Clerk, till[k].pc = "price", till' = [till EXCEPT ![k] = Idle],
         UNCHANGED <<sales, points, hostPoints, earned, spent, dropped, localLog, pending, central, syncing,
                     overtaken, posCalls>>
  PROVE  PosInv'
<1>1. Idle.pc = "idle" /\ ~Booking(Idle) /\ ~Recording(Idle)
  BY DEF Idle, Booking, Recording
<1>2. till' \in [Clerk -> {Idle} \union RingCall \union SaleCall \union BackCall] /\ till'[k] = Idle /\ OthersStay(k)
  BY TillBecomes DEF PosInv
<1>3. PosTypes'
  BY <1>2 DEF PosInv, PosTypes
<1>4. GoesOn(k) /\ Tracks(k)
  <2>1. ~Recording(till[k])
    BY DEF Recording
  <2> QED
    BY <1>1, <1>2, <2>1 DEF GoesOn, Tracks
<1>5. PointsCovered'
  BY DEF PosInv, PointsCovered
<1>6. posCalls <= posCalls'
  BY DEF PosInv, PosTypes
<1> QED
  BY <1>2, <1>3, <1>4, <1>5, <1>6, ClerkGoesOn

LEMMA PluginPanicsKeeps ==
  ASSUME PosInv, NEW k \in Clerk, PluginPanics(k)
  PROVE  PosInv'
  BY EndsUnbooked DEF PluginPanics, saleState, syncState

LEMMA EarnKeeps ==
  ASSUME PosInv, NEW k \in Clerk, Earn(k)
  PROVE  PosInv'
<1>1. till[k] \in SaleCall /\ till[k].pc = "earn"
  BY CallIs DEF PosInv, Earn
<1>2. PICK c \in Customer, v \in Nat : c = till[k].customer /\ v = till[k].value
  BY <1>1 DEF SaleCall
<1>3. PICK to \in {"redeem", "log"} : to = IF till[k].burn > 0 THEN "redeem" ELSE "log"
  OBVIOUS
<1>4. PICK t : t = [till[k] EXCEPT !.pc = to]
  OBVIOUS
<1>5. t \in SaleCall /\ t.pc = to /\ t.event = till[k].event
  <2>1. to \in {"redeem", "log", "pend"} /\ (to = "redeem" => till[k].customer \in Customer)
    BY <1>2
  <2> QED
    BY <1>1, <1>4, <2>1, SaleCallIs
<1>6. till' = [till EXCEPT ![k] = t]
  BY <1>3, <1>4 DEF Earn
<1>7. till' \in [Clerk -> {Idle} \union RingCall \union SaleCall \union BackCall] /\ till'[k] = t /\ OthersStay(k)
  BY <1>5, <1>6, TillBecomes DEF PosInv
<1>8. UNCHANGED <<sales, hostPoints, spent, dropped, localLog, pending, central, syncing, overtaken, posCalls>>
  BY DEF Earn, syncState
<1>9. points' = [points EXCEPT ![c] = @ + v] /\ earned' = [earned EXCEPT ![c] = @ + v]
  BY <1>2 DEF Earn
<1>10. /\ points' \in [Customer -> Int] /\ earned' \in [Customer -> Int]
       /\ \A d \in Customer : /\ points'[d] = points[d] + (IF d = c THEN v ELSE 0)
                              /\ earned'[d] = earned[d] + (IF d = c THEN v ELSE 0)
  BY <1>9 DEF PosInv, PosTypes
<1>11. PosTypes'
  BY <1>7, <1>8, <1>10 DEF PosInv, PosTypes
<1>12. GoesOn(k) /\ Tracks(k)
  BY <1>1, <1>3, <1>5, <1>7, <1>8 DEF GoesOn, Booking, Tracks, Recording
<1>13. PointsCovered'
  <2>1. ASSUME NEW d \in Customer PROVE points'[d] >= 0 /\ points'[d] = earned'[d] - spent'[d]
    <3>1. PICK p \in Int, e \in Int, s \in Int : p = points[d] /\ e = earned[d] /\ s = spent[d]
      BY DEF PosInv, PosTypes
    <3>2. p >= 0 /\ p = e - s
      BY <3>1 DEF PosInv, PointsCovered
    <3>3. PICK x \in Nat : x = IF d = c THEN v ELSE 0
      OBVIOUS
    <3>4. points'[d] = p + x /\ earned'[d] = e + x /\ spent'[d] = s
      BY <1>8, <1>10, <3>1, <3>3
    <3> QED
      BY <3>2, <3>4
  <2> QED
    BY <2>1 DEF PointsCovered
<1>14. posCalls <= posCalls'
  BY <1>8 DEF PosInv, PosTypes
<1> QED
  BY <1>1, <1>7, <1>8, <1>11, <1>12, <1>13, <1>14, ClerkGoesOn

LEMMA RedeemKeeps ==
  ASSUME PosInv, NEW k \in Clerk, Redeem(k)
  PROVE  PosInv'
<1>1. till[k] \in SaleCall /\ till[k].pc = "redeem"
  BY CallIs DEF PosInv, Redeem
<1>2. PICK c \in Customer, b \in Nat : c = till[k].customer /\ b = till[k].burn
  BY <1>1 DEF SaleCall
<1>3. UNCHANGED <<sales, hostPoints, earned, localLog, pending, central, syncing, overtaken, posCalls>>
  BY DEF Redeem, syncState
<1>4. posCalls <= posCalls'
  BY <1>3 DEF PosInv, PosTypes
<1>5. CASE points[c] >= b
  <2>1. /\ points' = [points EXCEPT ![c] = @ - b] /\ spent' = [spent EXCEPT ![c] = @ + b]
        /\ till' = [till EXCEPT ![k].pc = "log"] /\ dropped' = dropped
    BY <1>2, <1>5 DEF Redeem
  <2>2. PICK t : t = [till[k] EXCEPT !.pc = "log"]
    OBVIOUS
  <2>3. t \in SaleCall /\ t.pc = "log" /\ t.event = till[k].event
    BY <1>1, <2>2, SaleCallIs
  <2>4. till' = [till EXCEPT ![k] = t]
    BY <2>1, <2>2
  <2>5. till' \in [Clerk -> {Idle} \union RingCall \union SaleCall \union BackCall] /\ till'[k] = t /\ OthersStay(k)
    BY <2>3, <2>4, TillBecomes DEF PosInv
  <2>6. /\ points' \in [Customer -> Int] /\ spent' \in [Customer -> Int]
        /\ \A d \in Customer : /\ points'[d] = points[d] - (IF d = c THEN b ELSE 0)
                               /\ spent'[d] = spent[d] + (IF d = c THEN b ELSE 0)
    BY <2>1 DEF PosInv, PosTypes
  <2>7. PosTypes'
    BY <1>3, <2>5, <2>6 DEF PosInv, PosTypes
  <2>8. GoesOn(k) /\ Tracks(k)
    BY <1>1, <1>3, <2>1, <2>3, <2>5 DEF GoesOn, Booking, Tracks, Recording
  <2>9. PointsCovered'
    <3>1. ASSUME NEW d \in Customer PROVE points'[d] >= 0 /\ points'[d] = earned'[d] - spent'[d]
      <4>1. PICK p \in Int, e \in Int, s \in Int : p = points[d] /\ e = earned[d] /\ s = spent[d]
        BY DEF PosInv, PosTypes
      <4>2. p >= 0 /\ p = e - s
        BY <4>1 DEF PosInv, PointsCovered
      <4>3. PICK x \in Nat : x = (IF d = c THEN b ELSE 0) /\ p - x >= 0
        <5>1. CASE d = c
          <6>1. p >= b /\ p - b >= 0
            BY <1>5, <4>1, <5>1
          <6> QED
            BY <5>1, <6>1
        <5>2. CASE d # c
          <6>1. p - 0 >= 0 /\ 0 \in Nat
            BY <4>2
          <6> QED
            BY <5>2, <6>1
        <5> QED
          BY <5>1, <5>2
      <4>4. points'[d] = p - x /\ earned'[d] = e /\ spent'[d] = s + x
        BY <1>3, <2>6, <4>1, <4>3
      <4> QED
        BY <4>2, <4>3, <4>4
    <3> QED
      BY <3>1 DEF PointsCovered
  <2> QED
    BY <1>1, <1>3, <1>4, <2>5, <2>7, <2>8, <2>9, ClerkGoesOn
<1>6. CASE ~(points[c] >= b)
  <2>1. /\ till' = [till EXCEPT ![k] = Idle] /\ dropped' = dropped \union {till[k].event.txn}
        /\ UNCHANGED <<points, spent>>
    BY <1>2, <1>6 DEF Redeem
  <2>2. till' \in [Clerk -> {Idle} \union RingCall \union SaleCall \union BackCall] /\ till'[k] = Idle /\ OthersStay(k)
    BY <2>1, TillBecomes DEF PosInv
  <2>3. PosTypes'
    BY <1>3, <2>1, <2>2 DEF PosInv, PosTypes
  <2>4. ~Booking(Idle) /\ Idle.pc = "idle"
    BY DEF Idle, Booking
  <2>5. GoesOn(k) /\ Tracks(k)
    BY <1>1, <1>3, <2>1, <2>2, <2>4 DEF GoesOn, Tracks
  <2>6. PointsCovered'
    BY <1>3, <2>1 DEF PosInv, PointsCovered
  <2> QED
    BY <1>1, <1>3, <1>4, <2>2, <2>3, <2>5, <2>6, ClerkGoesOn
<1> QED
  BY <1>5, <1>6

\* A call that is given an event of its own.
LEMMA ClerkStarts ==
  ASSUME PosInv, NEW k \in Clerk, OthersStay(k), StartsFresh(k), Tracks(k), PosTypes', Grows,
         till[k].pc # "pend", SalesSettle', UNCHANGED <<points, earned, spent, localLog, pending, central, syncing, overtaken>>
  PROVE  PosInv'
<1>1. DOMAIN sales = 1..Len(sales) /\ DOMAIN sales' = 1..Len(sales')
  BY LenProperties DEF PosInv, PosTypes
<1>2. Events(localLog) \subseteq EventRecord /\ \A l \in Clerk : Booking(till[l]) => till[l].event \in EventRecord
  BY LoggedEvents, CallIs DEF PosInv
<1>3. Identified'
  BY <1>2, IdentifiedStarts DEF PosInv
<1>4. CapturedIsRecorded'
  BY <1>1, CapturedStays DEF PosInv
<1>5. Delivered'
  BY DeliveredStays DEF PosInv
<1>6. PointsCovered'
  BY DEF PosInv, PointsCovered
<1> QED
  BY <1>3, <1>4, <1>5, <1>6 DEF PosInv

LEMMA SaleAdded ==
  ASSUME PosTypes, SalesSettle, NEW sale \in SaleRecord, Settles(sale.tenders, sale.total),
         sales' = Append(sales, sale), posCalls' = posCalls
  PROVE  /\ sales' \in Seq(SaleRecord) /\ Grows /\ SalesSettle'
         /\ Len(sales') = Len(sales) + 1 /\ sales'[Len(sales) + 1] = sale
<1>1. PICK n \in Nat : n = Len(sales)
  BY LenProperties DEF PosTypes
<1>2. /\ sales' \in Seq(SaleRecord) /\ Len(sales') = n + 1 /\ sales'[n + 1] = sale
      /\ \A i \in 1..n : sales'[i] = sales[i]
  BY <1>1, AppendProperties DEF PosTypes
<1>3. Grows
  BY <1>1, <1>2 DEF Grows, PosTypes
<1>4. SalesSettle'
  <2>1. \A i \in 1..(n + 1) : i \in 1..n \/ i = n + 1
    OBVIOUS
  <2>2. \A i \in 1..n : Settles(sales[i].tenders, sales[i].total)
    BY <1>1 DEF SalesSettle
  <2>3. ASSUME NEW i \in 1..(n + 1) PROVE Settles(sales'[i].tenders, sales'[i].total)
    <3>1. CASE i \in 1..n
      <4>1. sales'[i] = sales[i]
        BY <1>2, <3>1
      <4> QED
        BY <2>2, <3>1, <4>1
    <3>2. CASE i = n + 1
      <4>1. sales'[i] = sale
        BY <1>2, <3>2
      <4> QED
        BY <4>1
    <3> QED
      BY <2>1, <3>1, <3>2
  <2>4. \A i \in 1..Len(sales') : Settles(sales'[i].tenders, sales'[i].total)
    BY <1>2, <2>3
  <2>5. (\A s \in 1..Len(sales) : Settles(sales[s].tenders, sales[s].total))'
    BY <2>4 DEF Settles
  <2> QED
    BY <2>5 DEF SalesSettle
<1> QED
  BY <1>1, <1>2, <1>3, <1>4

LEMMA CaptureKeeps ==
  ASSUME PosInv, NEW k \in Clerk, Capture(k)
  PROVE  PosInv'
<1>1. till[k] \in RingCall /\ till[k].pc = "price"
  BY CallIs DEF PosInv, Capture
<1>2. PICK t \in RingCall : t = till[k]
  BY <1>1
<1>3. /\ t.customer \in Customer \union {NoCustomer} /\ t.redeem \in Nat /\ t.credit \in Nat
      /\ t.lines \in Baskets /\ t.lines \in Seq(LineItem) /\ t.offered \in Seq(Tender)
  BY RingIs, PosAssumption
<1>4. PICK total \in Nat : total = Discounted(hostPoints, Subtotal(t.lines)) + TaxTotal(t.lines)
  <2>1. Subtotal(t.lines) \in Nat /\ TaxTotal(t.lines) \in Nat
    BY <1>3, ValuesOfLines
  <2>2. Discounted(hostPoints, Subtotal(t.lines)) \in Nat
    BY <2>1, DiscountIs DEF PosInv, PosTypes
  <2> QED
    BY <2>1, <2>2
<1>5. PICK credit \in Nat : credit = t.redeem + t.credit
  BY <1>3
<1>6. PICK refused \in BOOLEAN :
        refused = ((t.redeem > 0 /\ points[t.customer] < t.redeem)
                   \/ (total > credit /\ ~Covers(total - credit, t.offered)))
  OBVIOUS
<1>7. UNCHANGED <<points, hostPoints, earned, spent, dropped, localLog, pending, central, syncing, overtaken, posCalls>>
  BY DEF Capture, syncState
<1>8. CASE refused
  <2>1. till' = [till EXCEPT ![k] = Idle] /\ sales' = sales
    BY <1>2, <1>4, <1>5, <1>6, <1>8 DEF Capture
  <2> QED
    BY <1>1, <1>7, <2>1, EndsUnbooked
<1>9. CASE ~refused
  <2>1. total > credit => Covers(total - credit, t.offered)
    BY <1>6, <1>9
  <2>2. PICK tenders : tenders = Applied(total, credit, t.offered)
    OBVIOUS
  <2>3. Settles(tenders, total)
    BY <1>3, <2>1, <2>2, AppliedSettles
  <2>4. PICK sale : sale = [status |-> Advanced("Cart", SalePath), total |-> total, lines |-> t.lines, tenders |-> tenders]
    OBVIOUS
  <2>5. sale \in SaleRecord /\ sale.total = total /\ sale.tenders = tenders
    <3>1. tenders \in Seq(Tender)
      BY <2>3 DEF Settles
    <3> QED
      BY <1>3, <2>4, <3>1 DEF SaleRecord
  <2>6. PICK n \in Nat : n = Len(sales)
    BY LenProperties DEF PosInv, PosTypes
  <2>7. PICK e : e = [kind |-> "Sale", txn |-> n + 1, amount |-> total]
    OBVIOUS
  <2>8. e \in EventRecord /\ e.txn = n + 1 /\ e.amount = total
    BY <2>7 DEF EventRecord
  <2>9. PICK v \in Nat, b \in Nat : v = Subtotal(t.lines) /\ b = AtMost(t.redeem, total)
    <3>1. Subtotal(t.lines) \in Nat /\ AtMost(t.redeem, total) \in Nat
      BY <1>3, ValuesOfLines DEF AtMost
    <3> QED
      BY <3>1
  <2>10. PICK u : u = [pc |-> IF t.customer = NoCustomer THEN "log" ELSE "earn", customer |-> t.customer,
                       value |-> v, burn |-> b, event |-> e, next |-> Idle]
    OBVIOUS
  <2>11. /\ sales' = Append(sales, sale) /\ till' = [till EXCEPT ![k] = u]
    BY <1>2, <1>4, <1>5, <1>6, <1>9, <2>2, <2>4, <2>6, <2>7, <2>9, <2>10 DEF Capture
  <2>12. /\ u \in [pc : {"earn", "redeem", "log", "pend"}, customer : Customer \union {NoCustomer}, value : Nat,
                   burn : Nat, event : EventRecord, next : {Idle}]
         /\ u.pc = (IF t.customer = NoCustomer THEN "log" ELSE "earn") /\ u.customer = t.customer /\ u.event = e
    BY <1>3, <2>8, <2>10
  <2>13. u \in SaleCall /\ Booking(u) /\ Recording(u) /\ u.pc # "pend"
    <3>1. CASE t.customer = NoCustomer
      BY <2>12, <3>1 DEF SaleCall, Booking, Recording
    <3>2. CASE t.customer # NoCustomer
      BY <1>3, <2>12, <3>2 DEF SaleCall, Booking, Recording
    <3> QED
      BY <3>1, <3>2
  <2>14. till' \in [Clerk -> {Idle} \union RingCall \union SaleCall \union BackCall] /\ till'[k] = u /\ OthersStay(k)
    BY <2>11, <2>13, TillBecomes DEF PosInv
  <2>15. /\ sales' \in Seq(SaleRecord) /\ Grows /\ SalesSettle'
         /\ Len(sales') = n + 1 /\ sales'[n + 1] = sale
    BY <1>7, <2>3, <2>5, <2>6, <2>11, SaleAdded DEF PosInv
  <2>16. PosTypes'
    BY <1>7, <2>14, <2>15 DEF PosInv, PosTypes
  <2>17. StartsFresh(k)
    <3>1. ~Booking(till[k])
      BY <1>1 DEF Booking
    <3>2. Genuine(till[k].event)'
      <4>1. till'[k].event = e
        BY <2>12, <2>14
      <4>2. 0 - posCalls' <= n + 1
        BY <1>7 DEF PosInv, PosTypes
      <4>3. e.amount = sales'[e.txn].total
        BY <2>5, <2>8, <2>15
      <4> QED
        BY <2>8, <2>15, <4>1, <4>2, <4>3 DEF Genuine
    <3>3. e.txn > Len(sales)
      BY <2>6, <2>8
    <3> QED
      BY <2>8, <2>12, <2>13, <2>14, <3>1, <3>2, <3>3 DEF StartsFresh
  <2>18. Tracks(k)
    <3>1. ~Recording(till[k])
      BY <1>1 DEF Recording
    <3>2. \A s \in 1..(n + 1) : s \in 1..n \/ s = n + 1
      OBVIOUS
    <3>3. Recording(till'[k]) /\ till'[k].event.txn = n + 1
      BY <2>8, <2>12, <2>13, <2>14
    <3>4. \A s \in 1..Len(sales') : s \in 1..Len(sales) \/ (Recording(till'[k]) /\ till'[k].event.txn = s)
      BY <2>6, <2>15, <3>2, <3>3
    <3> QED
      BY <1>7, <3>1, <3>4 DEF Tracks
  <2> QED
    BY <1>1, <1>7, <2>14, <2>15, <2>16, <2>17, <2>18, ClerkStarts
<1> QED
  BY <1>8, <1>9

LEMMA SaleIs ==
  ASSUME PosTypes, SalesSettle, NEW s \in DOMAIN sales
  PROVE  /\ s \in 1..Len(sales) /\ sales[s].lines \in Seq(LineItem) /\ sales[s].total \in Nat
         /\ Settles(sales[s].tenders, sales[s].total)
<1>1. PICK n \in Nat : n = Len(sales) /\ DOMAIN sales = 1..n
  BY LenProperties DEF PosTypes
<1>2. sales[s] \in SaleRecord
  BY <1>1, ElementOfSeq DEF PosTypes
<1> QED
  BY <1>1, <1>2, PosAssumption DEF SaleRecord, SalesSettle

LEMMA StartReturnKeeps ==
  ASSUME PosInv, NEW k \in Clerk, NEW s \in DOMAIN sales, NEW returns \in Seq(ReturnLine),
         NEW next \in {Idle} \union RingCall, StartReturn(k, s, returns, next)
  PROVE  PosInv'
<1>1. PICK r \in Nat : r = RefundOf(sales[s], returns)
  BY SaleIs, RefundIs DEF PosInv, StartReturn
<1>2. PICK c \in Nat : c = posCalls /\ posCalls' = c + 1
  BY DEF StartReturn, PosInv, PosTypes
<1>3. PICK e : e = [kind |-> "Return", txn |-> -1 - c, amount |-> r]
  OBVIOUS
<1>4. e \in EventRecord /\ e.txn = -1 - c
  BY <1>3 DEF EventRecord
<1>5. PICK after \in {Idle} \union RingCall : after = IF next = Idle THEN Idle ELSE [next EXCEPT !.credit = r]
  <2>1. CASE next = Idle
    BY <2>1
  <2>2. CASE next # Idle
    <3>1. next \in RingCall
      BY <2>2
    <3>2. PICK t : t = [next EXCEPT !.credit = r]
      OBVIOUS
    <3>3. /\ t \in [pc : {"balance", "price"}, customer : Customer \union {NoCustomer}, redeem : Nat,
                    credit : Nat, lines : Baskets, offered : Offers]
          /\ t.pc = next.pc /\ t.redeem = next.redeem /\ t.customer = next.customer
      BY <3>1, <3>2 DEF RingCall
    <3>4. t \in RingCall
      BY <3>1, <3>3 DEF RingCall
    <3> QED
      BY <2>2, <3>2, <3>4
  <2> QED
    BY <2>1, <2>2
<1>6. PICK u : u = [pc |-> "log", next |-> after, event |-> e]
  OBVIOUS
<1>7. u \in BackCall /\ u.pc = "log" /\ u.event = e /\ Booking(u)
  BY <1>4, <1>6 DEF BackCall, Booking
<1>8. till' = [till EXCEPT ![k] = u] /\ till[k].pc = "idle"
  BY <1>1, <1>2, <1>3, <1>5, <1>6 DEF StartReturn
<1>9. till' \in [Clerk -> {Idle} \union RingCall \union SaleCall \union BackCall] /\ till'[k] = u /\ OthersStay(k)
  BY <1>7, <1>8, TillBecomes DEF PosInv
<1>10. UNCHANGED <<sales, points, hostPoints, earned, spent, dropped, localLog, pending, central, syncing, overtaken>>
  BY DEF StartReturn, saleState, syncState
<1>11. posCalls' \in Nat /\ posCalls <= posCalls'
  BY <1>2
<1>12. PosTypes'
  BY <1>9, <1>10, <1>11 DEF PosInv, PosTypes
<1>13. Grows
  BY <1>10, <1>11, NothingSold DEF PosInv
<1>14. StartsFresh(k)
  <2>1. ~Booking(till[k])
    BY <1>8 DEF Booking
  <2>2. PICK n \in Nat : n = Len(sales')
    BY <1>13 DEF Grows
  <2>3. 0 - posCalls' <= e.txn /\ e.txn <= n /\ ~(e.txn >= 1) /\ e.txn < 0 - posCalls
    BY <1>2, <1>4
  <2>4. Genuine(till[k].event)'
    BY <1>7, <1>9, <2>2, <2>3 DEF Genuine
  <2> QED
    BY <1>4, <1>7, <1>9, <2>1, <2>3, <2>4 DEF StartsFresh
<1>15. Tracks(k)
  <2>1. ~Recording(till[k])
    BY <1>8 DEF Recording
  <2> QED
    BY <1>10, <2>1 DEF Tracks
<1>16. SalesSettle'
  BY <1>10 DEF PosInv, SalesSettle
<1> QED
  BY <1>8, <1>9, <1>10, <1>12, <1>13, <1>14, <1>15, <1>16, ClerkStarts

LEMMA LogLocalKeeps ==
  ASSUME PosInv, NEW k \in Clerk, LogLocal(k)
  PROVE  PosInv'
<1>1. till[k] \in SaleCall \union BackCall /\ till[k].pc = "log"
  BY CallIs DEF PosInv, LogLocal
<1>2. PICK e \in EventRecord : e = till[k].event
  BY <1>1, CallIs DEF PosInv, Booking
<1>3. PICK t : t = [till[k] EXCEPT !.pc = "pend"]
  OBVIOUS
<1>4. t \in SaleCall \union BackCall /\ t.pc = "pend" /\ t.event = e
  <2>1. CASE till[k] \in SaleCall
    <3>1. "pend" \in {"redeem", "log", "pend"} /\ "pend" # "redeem"
      OBVIOUS
    <3> QED
      BY <1>2, <1>3, <2>1, <3>1, SaleCallIs
  <2>2. CASE till[k] \in BackCall
    BY <1>2, <1>3, <2>2, BackCallIs
  <2> QED
    BY <1>1, <2>1, <2>2
<1>5. till' = [till EXCEPT ![k] = t] /\ localLog' = Append(localLog, e)
  BY <1>2, <1>3 DEF LogLocal
<1>6. till' \in [Clerk -> {Idle} \union RingCall \union SaleCall \union BackCall] /\ till'[k] = t /\ OthersStay(k)
  BY <1>4, <1>5, TillBecomes DEF PosInv
<1>7. localLog' \in Seq(EventRecord) /\ Events(localLog') = Events(localLog) \union {e}
  BY <1>5, EventsOfAppend DEF PosInv, PosTypes
<1>8. UNCHANGED <<sales, points, hostPoints, earned, spent, dropped, pending, central, syncing, overtaken, posCalls>>
  BY DEF LogLocal, saleState, syncState
<1>9. PosTypes'
  BY <1>6, <1>7, <1>8 DEF PosInv, PosTypes
<1>10. IsLogged(k)
  BY <1>1, <1>2, <1>4, <1>6, <1>7 DEF IsLogged
<1>11. Grows /\ DOMAIN sales = 1..Len(sales) /\ DOMAIN sales' = 1..Len(sales')
  <2>1. posCalls' \in Nat /\ posCalls <= posCalls'
    BY <1>8 DEF PosInv, PosTypes
  <2> QED
    BY <1>8, <2>1, NothingSold DEF PosInv
<1>12. Events(localLog) \subseteq EventRecord /\ \A l \in Clerk : Booking(till[l]) => till[l].event \in EventRecord
  BY LoggedEvents, CallIs DEF PosInv
<1>13. Identified'
  BY <1>6, <1>10, <1>11, <1>12, IdentifiedLogs DEF PosInv
<1>14. Tracks(k)
  BY <1>2, <1>7, <1>8 DEF Tracks
<1>15. CapturedIsRecorded'
  BY <1>6, <1>11, <1>14, CapturedStays DEF PosInv
<1>16. Delivered'
  BY <1>6, <1>8, <1>10, DeliveredLogs DEF PosInv
<1>17. PointsCovered' /\ SalesSettle'
  BY <1>8 DEF PosInv, PointsCovered, SalesSettle
<1> QED
  BY <1>9, <1>13, <1>15, <1>16, <1>17 DEF PosInv

LEMMA PendKeeps ==
  ASSUME PosInv, NEW k \in Clerk, Pend(k)
  PROVE  PosInv'
<1>1. till[k] \in SaleCall \union BackCall /\ till[k].pc = "pend"
  BY CallIs DEF PosInv, Pend
<1>2. PICK e \in EventRecord : e = till[k].event
  BY <1>1, CallIs DEF PosInv, Booking
<1>3. PICK t \in {Idle} \union RingCall : t = till[k].next
  BY <1>1 DEF SaleCall, BackCall
<1>4. t.pc \in {"idle", "balance", "price"}
  <2>1. Idle.pc = "idle"
    BY DEF Idle
  <2>2. \A c \in RingCall : c.pc \in {"balance", "price"}
    BY DEF RingCall
  <2> QED
    BY <2>1, <2>2
<1>5. till' = [till EXCEPT ![k] = t] /\ pending' = Append(pending, e)
  BY <1>2, <1>3 DEF Pend
<1>6. till' \in [Clerk -> {Idle} \union RingCall \union SaleCall \union BackCall] /\ till'[k] = t /\ OthersStay(k)
  BY <1>5, TillBecomes DEF PosInv
<1>7. pending' \in Seq(EventRecord) /\ Events(pending') = Events(pending) \union {e}
  BY <1>5, EventsOfAppend DEF PosInv, PosTypes
<1>8. UNCHANGED <<sales, points, hostPoints, earned, spent, dropped, localLog, central, syncing, posCalls>>
  BY DEF Pend, saleState, syncState
<1>9. PosTypes'
  BY <1>6, <1>7, <1>8 DEF PosInv, PosTypes
<1>10. overtaken \subseteq overtaken' /\ \A s \in Syncer : syncing[s].pc # "idle" => e \in overtaken'
  BY <1>2 DEF Pend
<1>11. Grows /\ DOMAIN sales = 1..Len(sales) /\ DOMAIN sales' = 1..Len(sales')
  <2>1. posCalls' \in Nat /\ posCalls <= posCalls'
    BY <1>8 DEF PosInv, PosTypes
  <2> QED
    BY <1>8, <2>1, NothingSold DEF PosInv
<1>12. Events(localLog) \subseteq EventRecord /\ \A l \in Clerk : Booking(till[l]) => till[l].event \in EventRecord
  BY LoggedEvents, CallIs DEF PosInv
<1>13. GoesOn(k)
  BY <1>4, <1>6 DEF GoesOn, Booking
<1>14. Identified'
  BY <1>6, <1>8, <1>11, <1>12, <1>13, IdentifiedGoesOn DEF PosInv
<1>15. Tracks(k)
  BY <1>1, <1>8 DEF Tracks, Recording
<1>16. CapturedIsRecorded'
  BY <1>6, <1>11, <1>15, CapturedStays DEF PosInv
<1>17. Delivered'
  BY <1>1, <1>2, <1>6, <1>7, <1>8, <1>10, DeliveredPends DEF PosInv
<1>18. PointsCovered' /\ SalesSettle'
  BY <1>8 DEF PosInv, PointsCovered, SalesSettle
<1> QED
  BY <1>9, <1>14, <1>16, <1>17, <1>18 DEF PosInv

-----------------------------------------------------------------------------
(* The steps of sync_to.                                                   *)

LEMMA RunBecomes ==
  ASSUME PosTypes, NEW s \in Syncer, NEW run \in SyncRun, syncing' = [syncing EXCEPT ![s] = run]
  PROVE  syncing' \in [Syncer -> SyncRun] /\ syncing'[s] = run /\ OtherRunsStay(s)
  BY DEF PosTypes, OtherRunsStay

\* A step of sync_to touches no sale and no event.
LEMMA RunKeeps ==
  ASSUME PosInv, PosTypes', Delivered', UNCHANGED <<saleState, till, localLog, posCalls>>
  PROVE  PosInv'
<1>1. PointsCovered' /\ SalesSettle'
  BY DEF PosInv, PointsCovered, SalesSettle, saleState
<1>2. Identified'
  <2>1. \A e : Genuine(e)' <=> Genuine(e)
    BY DEF Genuine, saleState
  <2> QED
    BY <2>1 DEF PosInv, Identified, saleState
<1>3. CapturedIsRecorded'
  BY DEF PosInv, CapturedIsRecorded, Captured, saleState
<1> QED
  BY <1>1, <1>2, <1>3 DEF PosInv

LEMMA StartSyncKeeps ==
  ASSUME PosInv, NEW s \in Syncer, StartSync(s)
  PROVE  PosInv'
<1>1. PICK run : run = [pc |-> "apply", batch |-> pending]
  OBVIOUS
<1>2. run \in SyncRun /\ run.pc = "apply" /\ run.batch = pending
  BY <1>1 DEF SyncRun, PosInv, PosTypes
<1>3. syncing' \in [Syncer -> SyncRun] /\ syncing'[s] = run /\ OtherRunsStay(s)
  BY <1>1, <1>2, RunBecomes DEF StartSync, PosInv
<1>4. PosTypes'
  BY <1>3 DEF StartSync, saleState, PosInv, PosTypes
<1>5. Delivered'
  BY <1>2, <1>3, DeliveredRuns DEF StartSync, PosInv
<1> QED
  BY <1>4, <1>5, RunKeeps DEF StartSync

\* A run of sync_to that is over, finished or given up.
LEMMA RunEnds ==
  ASSUME PosInv, NEW s \in Syncer, syncing' = [syncing EXCEPT ![s] = [pc |-> "idle", batch |-> <<>>]],
         UNCHANGED <<saleState, till, localLog, pending, central, overtaken, posCalls>>
  PROVE  PosInv'
<1>1. PICK run : run = [pc |-> "idle", batch |-> <<>>]
  OBVIOUS
<1>2. run \in SyncRun /\ run.pc = "idle" /\ run.batch = <<>>
  <2>1. <<>> \in Seq(EventRecord)
    OBVIOUS
  <2> QED
    BY <1>1, <2>1 DEF SyncRun
<1>3. syncing' \in [Syncer -> SyncRun] /\ syncing'[s] = run /\ OtherRunsStay(s)
  BY <1>1, <1>2, RunBecomes DEF PosInv
<1>4. PosTypes'
  BY <1>3 DEF saleState, PosInv, PosTypes
<1>5. Delivered'
  BY <1>2, <1>3, DeliveredRuns DEF PosInv
<1> QED
  BY <1>4, <1>5, RunKeeps

LEMMA AbortSyncKeeps ==
  ASSUME PosInv, NEW s \in Syncer, AbortSync(s)
  PROVE  PosInv'
  BY RunEnds DEF AbortSync

LEMMA AnnounceKeeps ==
  ASSUME PosInv, NEW s \in Syncer, NEW ok \in BOOLEAN, Announce(s, ok)
  PROVE  PosInv'
  BY RunEnds DEF Announce

LEMMA ApplySaleKeeps ==
  ASSUME PosInv, NEW s \in Syncer, ApplySale(s)
  PROVE  PosInv'
<1>1. syncing[s] \in SyncRun /\ syncing[s].pc = "apply"
  BY DEF PosInv, PosTypes, ApplySale
<1>2. PICK batch \in Seq(EventRecord) : batch = syncing[s].batch /\ batch # <<>>
  BY <1>1 DEF SyncRun, PosInv, Delivered
<1>3. PICK event \in EventRecord : event = Head(batch) /\ event \in Events(batch)
  BY <1>2, EventsOfTail
<1>4. PICK left \in Seq(EventRecord) :
        left = Tail(batch) /\ Events(batch) = {event} \union Events(left) /\ (Len(batch) = 1 <=> left = <<>>)
  BY <1>2, <1>3, EventsOfTail
<1>5. PICK to \in {"clear", "apply"} : to = IF Len(batch) = 1 THEN "clear" ELSE "apply"
  OBVIOUS
<1>6. PICK run \in SyncRun : run = [pc |-> to, batch |-> left] /\ run.pc = to /\ run.batch = left
  <2>1. PICK run : run = [pc |-> to, batch |-> left]
    OBVIOUS
  <2>2. run \in SyncRun /\ run.pc = to /\ run.batch = left
    BY <2>1 DEF SyncRun
  <2> QED
    BY <2>1, <2>2
<1>7. syncing' = [syncing EXCEPT ![s] = run]
  <2>1. syncing' = [syncing EXCEPT ![s].batch = Tail(@), ![s].pc = to]
    BY <1>2, <1>5 DEF ApplySale
  <2>2. syncing' = [syncing EXCEPT ![s] = [[syncing[s] EXCEPT !.batch = left] EXCEPT !.pc = to]]
    BY <1>1, <1>2, <1>4, <2>1 DEF PosInv, PosTypes
  <2>3. [[syncing[s] EXCEPT !.batch = left] EXCEPT !.pc = to] = run
    BY <1>1, <1>6 DEF SyncRun
  <2> QED
    BY <2>2, <2>3
<1>8. syncing' \in [Syncer -> SyncRun] /\ syncing'[s] = run /\ OtherRunsStay(s)
  BY <1>6, <1>7, RunBecomes DEF PosInv
<1>9. central' = IF \E i \in DOMAIN central : central[i].txn = event.txn THEN central ELSE Append(central, event)
  BY <1>2, <1>3 DEF ApplySale
<1>10. central \in Seq(EventRecord) /\ central' \in Seq(EventRecord)
  BY <1>9, EventsOfAppend DEF PosInv, PosTypes
<1>11. UNCHANGED <<saleState, localLog, pending, till, posCalls, overtaken>>
  BY DEF ApplySale
<1>12. PosTypes'
  BY <1>8, <1>10, <1>11 DEF saleState, PosInv, PosTypes
<1>13. Applies(s, event)
  <2>1. \/ to = "apply" /\ left # <<>>
        \/ to = "clear" /\ left = <<>>
    BY <1>4, <1>5
  <2> QED
    BY <1>1, <1>2, <1>3, <1>4, <1>6, <1>8, <2>1 DEF Applies
<1>14. Delivered'
  BY <1>8, <1>9, <1>10, <1>11, <1>13, DeliveredApplies DEF PosInv
<1> QED
  BY <1>11, <1>12, <1>14, RunKeeps

LEMMA ClearPendingKeeps ==
  ASSUME PosInv, NEW s \in Syncer, ClearPending(s)
  PROVE  PosInv'
<1>1. syncing[s] \in SyncRun /\ syncing[s].pc = "clear"
  BY DEF PosInv, PosTypes, ClearPending
<1>2. PICK run : run = [syncing[s] EXCEPT !.pc = "announce"]
  OBVIOUS
<1>3. run \in SyncRun /\ run.pc = "announce" /\ run.batch = syncing[s].batch
  BY <1>1, <1>2 DEF SyncRun
<1>4. syncing' = [syncing EXCEPT ![s] = run]
  BY <1>2 DEF ClearPending
<1>5. syncing' \in [Syncer -> SyncRun] /\ syncing'[s] = run /\ OtherRunsStay(s)
  BY <1>3, <1>4, RunBecomes DEF PosInv
<1>6. pending' = <<>> /\ UNCHANGED <<saleState, localLog, central, till, posCalls, overtaken>>
  BY DEF ClearPending
<1>7. <<>> \in Seq(EventRecord)
  OBVIOUS
<1>8. PosTypes'
  BY <1>5, <1>6, <1>7 DEF saleState, PosInv, PosTypes
<1>9. Delivered'
  BY <1>1, <1>3, <1>5, <1>6, DeliveredClears DEF PosInv
<1> QED
  BY <1>6, <1>8, <1>9, RunKeeps

LEMMA PosBegins == PosInit => PosInv
<1>1. SUFFICES ASSUME PosInit PROVE PosInv
  OBVIOUS
<1>2. <<>> \in Seq(SaleRecord) /\ <<>> \in Seq(EventRecord)
  OBVIOUS
<1>3. \A k \in Clerk : till[k] = Idle /\ till[k].pc = "idle"
  BY <1>1 DEF PosInit, Idle
<1>4. PICK run : run = [pc |-> "idle", batch |-> <<>>]
  OBVIOUS
<1>5. run \in SyncRun /\ run.pc = "idle" /\ run.batch = <<>>
  BY <1>2, <1>4 DEF SyncRun
<1>6. \A s \in Syncer : syncing[s] = run
  BY <1>1, <1>4 DEF PosInit
<1>7. PosTypes
  <2>1. points \in [Customer -> Int] /\ earned \in [Customer -> Int] /\ spent \in [Customer -> Int]
    BY <1>1 DEF PosInit
  <2>2. till \in [Clerk -> {Idle} \union RingCall \union SaleCall \union BackCall]
    BY <1>1 DEF PosInit
  <2>3. syncing \in [Syncer -> SyncRun]
    BY <1>1, <1>4, <1>5 DEF PosInit
  <2> QED
    BY <1>1, <1>2, <2>1, <2>2, <2>3 DEF PosInit, PosTypes
<1>8. PointsCovered
  BY <1>1 DEF PosInit, PointsCovered
<1>9. SalesSettle /\ CapturedIsRecorded
  <2>1. Len(sales) = 0 /\ DOMAIN sales = {}
    BY <1>1 DEF PosInit
  <2> QED
    BY <2>1 DEF SalesSettle, CapturedIsRecorded, Captured
<1>10. Events(localLog) = {} /\ Events(pending) = {} /\ Events(central) = {} /\ DOMAIN central = {}
  BY <1>1, NoEvents DEF PosInit
<1>11. Identified
  BY <1>3, <1>10 DEF Identified, Booking
<1>12. Delivered
  BY <1>5, <1>6, <1>10, NoEvents DEF Delivered, RecordedIsPendingOrSynced, CentralOnce
<1> QED
  BY <1>7, <1>8, <1>9, <1>11, <1>12 DEF PosInv

LEMMA PosSteps == PosInv /\ [PosNext]_posvars => PosInv'
<1>1. SUFFICES ASSUME PosInv, [PosNext]_posvars PROVE PosInv'
  OBVIOUS
<1>2. ASSUME NEW k \in Clerk, NEW c \in Customer \union {NoCustomer}, NEW r \in Redemptions, NEW b \in Baskets,
             NEW o \in Offers, StartSale(k, c, r, b, o)
      PROVE  PosInv'
  BY <1>1, <1>2, StartSaleKeeps
<1>3. ASSUME NEW k \in Clerk, NEW s \in DOMAIN sales, NEW rl \in ReturnLists, StartReturn(k, s, rl, Idle)
      PROVE  PosInv'
  <2>1. rl \in Seq(ReturnLine) /\ Idle \in {Idle} \union RingCall
    BY PosAssumption
  <2> QED
    BY <1>1, <1>3, <2>1, StartReturnKeeps
<1>4. ASSUME NEW k \in Clerk, NEW s \in DOMAIN sales, NEW b \in Baskets, NEW o \in Offers,
             NEW c \in Customer \union {NoCustomer}, StartReturn(k, s, <<>>, Ringing(c, 0, 0, b, o))
      PROVE  PosInv'
  <2>1. 0 \in Nat /\ (c = NoCustomer => 0 = 0)
    OBVIOUS
  <2>2. Ringing(c, 0, 0, b, o) \in {Idle} \union RingCall
    BY <2>1, RingingIs
  <2>3. <<>> \in Seq(ReturnLine)
    OBVIOUS
  <2> QED
    BY <1>1, <1>4, <2>2, <2>3, StartReturnKeeps
<1>5. ASSUME NEW k \in Clerk, Ring(k) PROVE PosInv'
  BY <1>1, <1>5, PushBalanceKeeps, PluginPanicsKeeps, CaptureKeeps, EarnKeeps, RedeemKeeps, LogLocalKeeps, PendKeeps
     DEF Ring
<1>6. ASSUME NEW s \in Syncer, Sync(s) PROVE PosInv'
  BY <1>1, <1>6, StartSyncKeeps, ApplySaleKeeps, AbortSyncKeeps, ClearPendingKeeps, AnnounceKeeps DEF Sync
<1>7. CASE UNCHANGED posvars
  <2>1. UNCHANGED <<saleState, till, localLog, posCalls, pending, central, syncing, overtaken>>
    BY <1>7 DEF posvars, saleState
  <2>2. PosTypes'
    BY <1>1, <2>1 DEF saleState, PosInv, PosTypes
  <2>3. Delivered'
    BY <1>1, <2>1 DEF PosInv, Delivered, RecordedIsPendingOrSynced, CentralOnce
  <2> QED
    BY <1>1, <2>1, <2>2, <2>3, RunKeeps
<1> QED
  BY <1>1, <1>2, <1>3, <1>4, <1>5, <1>6, <1>7 DEF PosNext

LEMMA SplitsHold ==
  ASSUME PosTypes, SalesSettle
  PROVE  SplitsAreExact
<1>1. ASSUME NEW s \in DOMAIN sales
      PROVE  SumSeq(Amounts(sales[s].tenders)) = sales[s].total
  BY SaleIs DEF Settles
<1>2. ASSUME NEW s \in DOMAIN sales, NEW rl \in ReturnLists
      PROVE  RefundsFairly(sales[s], rl)
  <2>1. rl \in Seq(ReturnLine)
    BY PosAssumption
  <2>2. PICK sale : sale = sales[s]
    OBVIOUS
  <2>3. sale.lines \in Seq(LineItem) /\ sale.total \in Nat /\ Settles(sale.tenders, sale.total)
    BY <2>2, SaleIs
  <2>4. RefundsFairly(sale, rl)
    <3>1. CASE Returnable(sale, rl)
      BY <2>1, <2>3, <3>1, RefundIs
    <3>2. CASE ~Returnable(sale, rl)
      BY <3>2 DEF RefundsFairly
    <3> QED
      BY <3>1, <3>2
  <2> QED
    BY <2>2, <2>4
<1> QED
  BY <1>1, <1>2 DEF SplitsAreExact, Captured, RefundsFairly

\* What the register promises, for any number of clerks, customers and runs of sync_to
\* (ring_sale, return_sale, LoyaltyEngine and PosSync of examples/pos/src): points and
\* splits are exact, and a captured sale reaches the central store once, but for the
\* two windows that lose one.
THEOREM SalesStand == PosSpec => []SalesAccounted
<1>1. PosInv => SalesAccounted
  BY SplitsHold DEF PosInv, Delivered, SalesAccounted
<1> QED
  BY <1>1, PosBegins, PosSteps, PTL DEF PosSpec
=============================================================================
