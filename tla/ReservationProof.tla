-------------------------- MODULE ReservationProof --------------------------
(* What the reservation engine guarantees for every number of SKUs,        *)
(* callers, holds and quantities, with and without a cache, and under      *)
(* which use of its calls.                                                 *)
EXTENDS Reservation, FiniteSetTheorems, TLAPS

-----------------------------------------------------------------------------
(* The quantity maps and states of SkuState: what `held()` sums to after   *)
(* one entry changes, and that every change keeps a state a state.         *)

\* One entry of a quantity map contributes as many units as its quantity.
LEMMA EntryUnits ==
  ASSUME NEW h, NEW n \in Nat
  PROVE  /\ IsFiniteSet({h} \X (1..n))
         /\ Cardinality({h} \X (1..n)) = n
<1>1. IsFiniteSet(1..n) /\ Cardinality(1..n) = n
  BY FS_Interval
<1>2. IsFiniteSet({h}) /\ Cardinality({h}) = 1
  BY FS_Singleton
<1>3. /\ IsFiniteSet({h} \X (1..n))
      /\ Cardinality({h} \X (1..n)) = Cardinality({h}) * Cardinality(1..n)
  BY <1>1, <1>2, FS_Product
<1> QED
  BY <1>1, <1>2, <1>3

\* Two sets of units that have none in common.
LEMMA DisjointUnits ==
  ASSUME NEW S, NEW T, IsFiniteSet(S), IsFiniteSet(T), S \cap T = {}
  PROVE  Cardinality(S \cup T) = Cardinality(S) + Cardinality(T)
<1>1. Cardinality(S) \in Nat /\ Cardinality(T) \in Nat
  BY FS_CardinalityType
<1>2. Cardinality(S \cap T) = 0
  BY FS_EmptySet
<1>3. Cardinality(S \cup T) = Cardinality(S) + Cardinality(T) - Cardinality(S \cap T)
  BY FS_Union
<1> QED
  BY <1>1, <1>2, <1>3

\* The units of any part of a quantity map are finitely many.
LEMMA PartFinite ==
  ASSUME NEW f \in QtyMap, NEW K \in SUBSET Hold
  PROVE  IsFiniteSet(UNION {{k} \X (1..f[k]) : k \in K})
<1> DEFINE U == {{k} \X (1..f[k]) : k \in K}
           g == [k \in K |-> {k} \X (1..f[k])]
<1>1. IsFiniteSet(K)
  BY HoldFinite, FS_Subset
<1>2. g \in Surjection(K, U)
  BY DEF Surjection
<1>3. IsFiniteSet(U)
  BY <1>1, <1>2, FS_Surjection
<1>4. \A T \in U : IsFiniteSet(T)
  <2> TAKE T \in U
  <2>1. PICK k \in K : T = {k} \X (1..f[k])
    OBVIOUS
  <2>2. f[k] \in Nat
    BY DEF QtyMap
  <2> QED
    BY <2>1, <2>2, EntryUnits
<1> QED
  BY <1>3, <1>4, FS_UNION

\* The sum after one entry is set to q.
LEMMA HeldUpdate ==
  ASSUME NEW f \in QtyMap, NEW h \in Hold, NEW q \in Nat
  PROVE  /\ [f EXCEPT ![h] = q] \in QtyMap
         /\ Held([f EXCEPT ![h] = q]) = Held(f) - f[h] + q
<1> DEFINE g == [f EXCEPT ![h] = q]
           Rest == UNION {{k} \X (1..f[k]) : k \in Hold \ {h}}
<1>1. g \in QtyMap /\ f[h] \in Nat
  BY DEF QtyMap
<1>2. IsFiniteSet(Rest)
  BY PartFinite
<1>3. Units(f) = Rest \cup ({h} \X (1..f[h]))
  BY DEF Units
<1>4. Units(g) = Rest \cup ({h} \X (1..q))
  <2>1. \A k \in Hold \ {h} : g[k] = f[k]
    BY DEF QtyMap
  <2>2. g[h] = q
    BY DEF QtyMap
  <2> QED
    BY <2>1, <2>2 DEF Units
<1>5. \A n \in Nat : Rest \cap ({h} \X (1..n)) = {}
  OBVIOUS
<1>6. \A n \in Nat : Cardinality(Rest \cup ({h} \X (1..n))) = Cardinality(Rest) + n
  <2> TAKE n \in Nat
  <2>1. IsFiniteSet({h} \X (1..n)) /\ Cardinality({h} \X (1..n)) = n
    BY EntryUnits
  <2>2. Rest \cap ({h} \X (1..n)) = {}
    BY <1>5
  <2> HIDE DEF Rest
  <2> DEFINE T == {h} \X (1..n)
  <2>3. IsFiniteSet(T) /\ Rest \cap T = {} /\ Cardinality(T) = n
    BY <2>1, <2>2
  <2> HIDE DEF T
  <2>4. Cardinality(Rest \cup T) = Cardinality(Rest) + Cardinality(T)
    BY <1>2, <2>3, DisjointUnits
  <2> QED
    BY <2>3, <2>4 DEF T
<1>7. Cardinality(Rest) \in Nat
  BY <1>2, FS_CardinalityType
<1>8. Cardinality(Units(f)) = Cardinality(Rest) + f[h]
  BY <1>1, <1>3, <1>6
<1>9. Cardinality(Units(g)) = Cardinality(Rest) + q
  BY <1>4, <1>6
<1> HIDE DEF Rest
<1> QED
  BY <1>1, <1>7, <1>8, <1>9 DEF Held

\* The sum is a natural number, and zero for the empty map.
LEMMA HeldNat ==
  ASSUME NEW f \in QtyMap
  PROVE  Held(f) \in Nat
BY PartFinite, FS_CardinalityType DEF Held, Units

LEMMA HeldNothing == NoQty \in QtyMap /\ Held(NoQty) = 0
<1>1. NoQty \in QtyMap
  BY DEF NoQty, QtyMap
<1>2. Units(NoQty) = {}
  BY DEF Units, NoQty
<1> QED
  BY <1>1, <1>2, FS_EmptySet DEF Held

-----------------------------------------------------------------------------
(* Each change keeps a state a state and moves availability by what it     *)
(* says.                                                                   *)

LEMMA EmptySkuState ==
  EmptySku \in SkuStates /\ Available(EmptySku) = 0
BY HeldNothing DEF EmptySku, SkuStates, Available

LEMMA AddStockState ==
  ASSUME NEW st \in SkuStates, NEW q \in Nat
  PROVE  /\ AddStock(st, q) \in SkuStates
         /\ Available(AddStock(st, q)) = Available(st) + q
BY HeldNat DEF AddStock, SkuStates, Available

\* Setting one entry of the holds.
LEMMA SetHoldState ==
  ASSUME NEW st \in SkuStates, NEW h \in Hold, NEW q \in Nat,
         NEW t, t = [st EXCEPT !.holds[h] = q]
  PROVE  /\ t \in SkuStates
         /\ Available(t) = Available(st) + st.holds[h] - q
<1>1. st.holds \in QtyMap /\ st.holds[h] \in Nat
  BY DEF SkuStates, QtyMap
<1>2. /\ t.holds = [st.holds EXCEPT ![h] = q]
      /\ t.onHand = st.onHand /\ t.committed = st.committed
      /\ t = [onHand |-> st.onHand, committed |-> st.committed,
              holds |-> t.holds, backorders |-> st.backorders]
  BY DEF SkuStates
<1>3. t.holds \in QtyMap /\ Held(t.holds) = Held(st.holds) - st.holds[h] + q
  BY <1>1, <1>2, HeldUpdate
<1>4. st.onHand \in Int /\ st.committed \in Int /\ st.backorders \in QtyMap
  BY DEF SkuStates
<1>5. t \in SkuStates
  BY <1>2, <1>3, <1>4 DEF SkuStates
<1>6. Held(st.holds) \in Nat
  BY <1>1, HeldNat
<1> QED
  BY <1>1, <1>2, <1>3, <1>4, <1>5, <1>6 DEF Available

LEMMA PutHoldState ==
  ASSUME NEW st \in SkuStates, NEW h \in Hold, NEW q \in Nat
  PROVE  /\ PutHold(st, h, q) \in SkuStates
         /\ Available(PutHold(st, h, q)) = Available(st) + st.holds[h] - q
BY SetHoldState DEF PutHold

LEMMA DropHoldState ==
  ASSUME NEW st \in SkuStates, NEW h \in Hold
  PROVE  /\ DropHold(st, h) \in SkuStates
         /\ Available(DropHold(st, h)) = Available(st) + st.holds[h]
<1>1. st.holds[h] \in Nat /\ st.holds \in QtyMap
  BY DEF SkuStates, QtyMap
<1>2. Available(st) \in Int
  BY <1>1, HeldNat DEF Available, SkuStates
<1>3. /\ DropHold(st, h) \in SkuStates
      /\ Available(DropHold(st, h)) = Available(st) + st.holds[h] - 0
  BY SetHoldState DEF DropHold
<1> QED
  BY <1>1, <1>2, <1>3

\* Committing a hold leaves availability as it was.
LEMMA CommitHoldState ==
  ASSUME NEW st \in SkuStates, NEW h \in Hold
  PROVE  /\ CommitHold(st, h) \in SkuStates
         /\ Available(CommitHold(st, h)) = Available(st)
<1> DEFINE c == CommitHold(st, h)
           f == [st.holds EXCEPT ![h] = 0]
<1>1. /\ st.holds[h] \in Nat /\ st.holds \in QtyMap
      /\ st.onHand \in Int /\ st.committed \in Int /\ st.backorders \in QtyMap
  BY DEF SkuStates, QtyMap
<1>2. f \in QtyMap /\ Held(f) = Held(st.holds) - st.holds[h] + 0
  BY <1>1, HeldUpdate
<1>3. \A n, g : [st EXCEPT !.committed = n, !.holds = g]
                = [onHand |-> st.onHand, committed |-> n,
                   holds |-> g, backorders |-> st.backorders]
  <2> TAKE n, g
  <2> DEFINE r == [st EXCEPT !.committed = n]
  <2>1. r = [onHand |-> st.onHand, committed |-> n,
             holds |-> st.holds, backorders |-> st.backorders]
    BY DEF SkuStates
  <2>2. [st EXCEPT !.committed = n, !.holds = g] = [r EXCEPT !.holds = g]
    OBVIOUS
  <2> HIDE DEF r
  <2>3. [r EXCEPT !.holds = g]
          = [onHand |-> st.onHand, committed |-> n,
             holds |-> g, backorders |-> st.backorders]
    BY <2>1
  <2> QED
    BY <2>2, <2>3
<1>4. c = [st EXCEPT !.committed = st.committed + st.holds[h], !.holds = f]
  BY DEF CommitHold, SkuStates
<1>5. c = [onHand |-> st.onHand, committed |-> st.committed + st.holds[h],
           holds |-> f, backorders |-> st.backorders]
  BY <1>3, <1>4
<1> HIDE DEF c, f
<1>6. c \in SkuStates
  BY <1>1, <1>2, <1>5 DEF SkuStates
<1>7. Held(st.holds) \in Nat
  BY <1>1, HeldNat
<1>8. c.onHand = st.onHand /\ c.committed = st.committed + st.holds[h] /\ c.holds = f
  BY <1>5
<1>9. Available(c) = Available(st)
  BY <1>1, <1>2, <1>7, <1>8 DEF Available
<1> QED
  BY <1>6, <1>9 DEF c

LEMMA BackorderStates ==
  ASSUME NEW st \in SkuStates, NEW b \in Hold, NEW h \in Hold, NEW q \in Nat
  PROVE  /\ PutBackorder(st, b, q) \in SkuStates
         /\ PromoteBackorder(st, b, h, q) \in SkuStates
BY DEF PutBackorder, PromoteBackorder, SkuStates, QtyMap

-----------------------------------------------------------------------------
(* The projection of the event of a change is that change, but for the     *)
(* event of a promoted backorder.                                          *)

LEMMA ProjectStock ==
  ASSUME NEW st \in SkuStates, NEW q \in Nat
  PROVE  /\ Project(st, Received(q)) = AddStock(st, q)
         /\ Project(st, Returned(q)) = AddStock(st, q)
<1>1. Project(st, Received(q)) = AddStock(st, q)
  BY DEF Project, Received, AddStock
<1>2. Project(st, Returned(q)) = AddStock(st, q)
  BY DEF Project, Returned, AddStock
<1> QED
  BY <1>1, <1>2

LEMMA ProjectEvents ==
  ASSUME NEW st \in SkuStates, NEW h \in Hold, NEW q \in Nat
  PROVE  /\ Project(st, HoldPlaced(h, q)) = PutHold(st, h, q)
         /\ Project(st, Released(h)) = DropHold(st, h)
         /\ Present(st.holds, h)
              => Project(st, Captured(h)) = CommitHold(st, h)
         /\ Project(st, BackorderPlaced(h, q)) = PutBackorder(st, h, q)
<1>1. Project(st, HoldPlaced(h, q)) = PutHold(st, h, q)
  BY DEF Project, HoldPlaced, PutHold
<1>2. Project(st, Released(h)) = DropHold(st, h)
  BY DEF Project, Released, DropHold
<1>3. Present(st.holds, h) => Project(st, Captured(h)) = CommitHold(st, h)
  BY DEF Project, Captured, CommitHold
<1>4. Project(st, BackorderPlaced(h, q)) = PutBackorder(st, h, q)
  BY DEF Project, BackorderPlaced, PutBackorder
<1> QED
  BY <1>1, <1>2, <1>3, <1>4

\* A projected state is a state.
LEMMA ProjectState ==
  ASSUME NEW st \in SkuStates, NEW h \in Hold, NEW q \in Nat
  PROVE  /\ Project(st, HoldPlaced(h, q)) \in SkuStates
         /\ Project(st, Released(h)) \in SkuStates
         /\ Project(st, Captured(h)) \in SkuStates
         /\ Project(st, BackorderPlaced(h, q)) \in SkuStates
         /\ Project(st, BackorderFilled(h, q)) \in SkuStates
<1>1. Project(st, Captured(h)) \in SkuStates
  <2>1. CASE Present(st.holds, h)
    BY <2>1, CommitHoldState, ProjectEvents
  <2>2. CASE ~Present(st.holds, h)
    BY <2>2 DEF Project, Captured
  <2> QED
    BY <2>1, <2>2
<1>2. Project(st, BackorderFilled(h, q)) \in SkuStates
  <2>1. st.backorders[h] \in Nat
    BY DEF SkuStates, QtyMap
  <2>2. [st EXCEPT !.holds[h] = st.backorders[h], !.backorders[h] = 0] \in SkuStates
    BY <2>1 DEF SkuStates, QtyMap
  <2> QED
    BY <2>2 DEF Project, BackorderFilled
<1> QED
  BY <1>1, <1>2, ProjectEvents, PutHoldState, DropHoldState, BackorderStates

-----------------------------------------------------------------------------
(* Type correctness.  TypeOK splits into what the engine keeps and what    *)
(* the callers do; most actions disturb few parts of the first.            *)

EngineOK ==
  /\ now \in Nat
  /\ live \in [Sku -> SkuStates] /\ replayed \in [Sku -> SkuStates]
  /\ expiresAt \in [Hold -> Time] /\ expiryIndex \in [Hold -> Time]
  /\ cachedHold \in [Hold -> Time]
  /\ cachedOnHand \in [Sku -> Int \cup {None}]
  /\ issued \subseteq Hold /\ known \subseteq Hold

CallersOK ==
  /\ pc \in [Caller -> Labels] /\ loc \in [Caller -> Locals]
  /\ \A p \in Caller : LocalsOK(pc[p], loc[p])

LEMMA TypeParts == TypeOK <=> EngineOK /\ CallersOK
BY DEF TypeOK, EngineOK, CallersOK

LEMMA TypePartsNext ==
  ASSUME EngineOK', CallersOK'
  PROVE  TypeOK'
BY DEF TypeOK, EngineOK, CallersOK, LocalsOK

\* One caller moves to label l with locals r.
LEMMA CallerMoves ==
  ASSUME CallersOK, NEW p \in Caller, NEW l \in Labels, NEW r \in Locals,
         LocalsOK(l, r), Goto(p, l), Set(p, r)
  PROVE  CallersOK'
<1>1. pc' \in [Caller -> Labels] /\ loc' \in [Caller -> Locals]
  BY DEF CallersOK, Goto, Set
<1>2. \A q \in Caller : LocalsOK(pc'[q], loc'[q])
  <2> TAKE q \in Caller
  <2>1. CASE q = p
    BY <2>1 DEF CallersOK, Goto, Set
  <2>2. CASE q # p
    BY <2>2 DEF CallersOK, Goto, Set
  <2> QED
    BY <2>1, <2>2
<1> QED
  BY <1>1, <1>2 DEF CallersOK, LocalsOK

\* One caller moves to label l and keeps its locals.
LEMMA CallerGoes ==
  ASSUME CallersOK, NEW p \in Caller, NEW l \in Labels,
         LocalsOK(l, loc[p]), Goto(p, l), UNCHANGED loc
  PROVE  CallersOK'
<1>1. loc[p] \in Locals /\ Set(p, loc[p])
  BY DEF CallersOK, Set
<1> QED
  BY <1>1, CallerMoves

\* One caller assigns to its locals and stays where it is.
LEMMA CallerStays ==
  ASSUME CallersOK, NEW p \in Caller, NEW r \in Locals,
         LocalsOK(pc[p], r), Set(p, r), UNCHANGED pc
  PROVE  CallersOK'
<1>1. pc[p] \in Labels /\ Goto(p, pc[p])
  BY DEF CallersOK, Goto
<1> QED
  BY <1>1, CallerMoves

LEMMA NoCallOK == NoCall \in Locals /\ LocalsOK("idle", NoCall)
BY DEF NoCall, Locals, LocalsOK, AllCalls, Sweeping

LEMMA CallerFinishes ==
  ASSUME CallersOK, NEW p \in Caller, Finish(p)
  PROVE  CallersOK'
BY NoCallOK, CallerMoves DEF Finish, Labels

LEMMA CallersUnchanged ==
  ASSUME CallersOK, UNCHANGED <<pc, loc>>
  PROVE  CallersOK'
BY DEF CallersOK, LocalsOK

-----------------------------------------------------------------------------
(* The assignments the code makes to a caller's locals keep their type.    *)

LEMMA AssignVictim ==
  ASSUME NEW r \in Locals, NEW v \in (Sku \cup {None}) \X (Hold \cup {None})
  PROVE  [r EXCEPT !.victim = v] \in Locals
BY DEF Locals

LEMMA AssignCandidates ==
  ASSUME NEW r \in Locals, NEW c \in SUBSET (Sku \X Hold), NEW v \in Sku \X Hold
  PROVE  /\ [r EXCEPT !.cand = c] \in Locals
         /\ [r EXCEPT !.cand = c, !.victim = v] \in Locals
BY DEF Locals

LEMMA AssignCall ==
  ASSUME NEW op \in AllCalls, NEW s \in Sku
  PROVE  [NoCall EXCEPT !.op = op, !.sku = s] \in Locals
BY NoCallOK DEF Locals

LEMMA AssignRelease ==
  ASSUME NEW op \in AllCalls, NEW v \in Sku \X Hold
  PROVE  [NoCall EXCEPT !.op = op, !.victim = v] \in Locals
BY NoCallOK DEF Locals

LEMMA AssignFulfill ==
  ASSUME NEW op \in AllCalls, NEW s \in Sku, NEW t \in SUBSET Sku
  PROVE  [NoCall EXCEPT !.op = op, !.sku = s, !.todo = t] \in Locals
BY NoCallOK DEF Locals

LEMMA AssignSweep ==
  ASSUME NEW op \in AllCalls, NEW s \in Sku \cup {None}, NEW q \in Nat,
         NEW t \in Nat, NEW d \in SUBSET Hold
  PROVE  [NoCall EXCEPT !.op = op, !.sku = s, !.qty = q, !.ttl = t,
                        !.todo = Sku, !.due = d] \in Locals
BY NoCallOK DEF Locals

LEMMA AssignScan ==
  ASSUME NEW r \in Locals, NEW t \in SUBSET Sku, NEW c \in SUBSET (Sku \X Hold)
  PROVE  [r EXCEPT !.todo = t, !.cand = c] \in Locals
BY DEF Locals

LEMMA AssignWant ==
  ASSUME NEW r \in Locals, NEW i \in Int
  PROVE  [r EXCEPT !.want = i] \in Locals
BY DEF Locals

LEMMA AssignExpires ==
  ASSUME NEW r \in Locals, NEW n \in Nat
  PROVE  [r EXCEPT !.expires = n] \in Locals
BY DEF Locals

LEMMA AssignHold ==
  ASSUME NEW r \in Locals, NEW h \in Hold
  PROVE  [r EXCEPT !.hold = h] \in Locals
BY DEF Locals

LEMMA AssignBackorder ==
  ASSUME NEW r \in Locals, NEW b \in Hold, NEW q \in Nat, NEW g \in SUBSET Hold
  PROVE  /\ [r EXCEPT !.bo = b, !.qty = q] \in Locals
         /\ [r EXCEPT !.bo = None, !.qty = 0, !.got = g] \in Locals
BY DEF Locals

LEMMA AssignSku ==
  ASSUME NEW r \in Locals, NEW s \in Sku, NEW t \in SUBSET Sku
  PROVE  [r EXCEPT !.sku = s, !.todo = t] \in Locals
BY DEF Locals

\* A caller in a sweep, or a releasing call, leaves release_cache_and_index().
LEMMA CallerResumes ==
  ASSUME CallersOK, NEW p \in Caller, Resume(p)
  PROVE  CallersOK'
<1>1. CASE loc[p].op \in Sweeping
  <2> DEFINE r == [loc[p] EXCEPT !.victim = <<None, None>>]
  <2>1. r \in Locals
    <3>1. loc[p] \in Locals
      BY DEF CallersOK
    <3> QED
      BY <3>1, AssignVictim
  <2>2. LocalsOK("sweep", r)
    <3>1. LocalsOK(pc[p], loc[p])
      BY DEF CallersOK
    <3>2. loc[p] \in Locals
      BY DEF CallersOK
    <3>3. r.op = loc[p].op /\ r.sku = loc[p].sku /\ r.qty = loc[p].qty
      BY <3>2 DEF Locals
    <3> HIDE DEF r
    <3> QED
      BY <1>1, <3>1, <3>3 DEF LocalsOK
  <2> QED
    BY <1>1, <2>1, <2>2, CallerMoves DEF Resume, Labels
<1>2. CASE loc[p].op \notin Sweeping
  BY <1>2, CallerFinishes DEF Resume
<1> QED
  BY <1>1, <1>2

-----------------------------------------------------------------------------
(* What each action does to the engine's state keeps its type.             *)

\* One critical section: a state and the event it appends.
LEMMA RecordType ==
  ASSUME EngineOK, NEW s \in Sku, NEW st \in SkuStates, NEW ev,
         Project(replayed[s], ev) \in SkuStates, Record(s, st, ev)
  PROVE  live' \in [Sku -> SkuStates] /\ replayed' \in [Sku -> SkuStates]
BY DEF EngineOK, Record

LEMMA EngineUnchanged ==
  ASSUME EngineOK,
         UNCHANGED <<now, live, replayed, expiresAt, Stores, issued, known>>
  PROVE  EngineOK'
BY DEF EngineOK, Stores

LEMMA AddToStockType ==
  ASSUME TypeOK, NEW p \in Caller, NEW s \in Sku, NEW q \in Qty,
         Receive(p, s, q) \/ ReturnStock(p, s, q)
  PROVE  TypeOK'
<1> EngineOK /\ CallersOK
  BY TypeParts
<1> live[s] \in SkuStates /\ replayed[s] \in SkuStates
  BY DEF EngineOK
<1>q. q \in Nat
  BY ConstantsAssumption
<1> PICK op \in {"receive", "return_stock"}, ev \in {Received(q), Returned(q)} :
      AddToStock(p, op, s, q, ev)
  BY DEF Receive, ReturnStock
<1>1. EngineOK'
  <2>1. AddStock(live[s], q) \in SkuStates
    BY <1>q, AddStockState
  <2>2. Project(replayed[s], ev) \in SkuStates
    BY <1>q, ProjectStock, AddStockState
  <2>3. live' \in [Sku -> SkuStates] /\ replayed' \in [Sku -> SkuStates]
    BY <2>1, <2>2, RecordType DEF AddToStock
  <2> QED
    BY <2>3 DEF AddToStock, EngineOK, Stores
<1>2. CallersOK'
  <2> DEFINE r == [NoCall EXCEPT !.op = op, !.sku = s]
  <2>1. CASE WithCache
    <3>1. r \in Locals
      BY AssignCall DEF AllCalls
    <3>2. LocalsOK("read", r)
      BY DEF NoCall, LocalsOK
    <3> QED
      BY <2>1, <3>1, <3>2, CallerMoves DEF AddToStock, Labels
  <2>2. CASE ~WithCache
    BY <2>2, CallersUnchanged DEF AddToStock
  <2> QED
    BY <2>1, <2>2
<1> QED
  BY <1>1, <1>2, TypePartsNext

LEMMA OnHandType ==
  ASSUME TypeOK, NEW p \in Caller, ReadOnHand(p) \/ PutOnHand(p)
  PROVE  TypeOK'
<1> EngineOK /\ CallersOK
  BY TypeParts
<1>0. loc[p] \in Locals /\ LocalsOK(pc[p], loc[p])
  BY DEF CallersOK
<1>1. CASE ReadOnHand(p)
  <2> DEFINE r == [loc[p] EXCEPT !.want = live[loc[p].sku].onHand]
  <2>1. loc[p].sku \in Sku
    BY <1>0, <1>1 DEF ReadOnHand, At, LocalsOK
  <2>2. live[loc[p].sku].onHand \in Int
    BY <2>1 DEF EngineOK, SkuStates
  <2>3. r \in Locals
    BY <1>0, <2>2, AssignWant
  <2>4. r.op = loc[p].op /\ r.sku = loc[p].sku /\ r.qty = loc[p].qty
    BY <1>0 DEF Locals
  <2>5. LocalsOK("put", r)
    BY <1>0, <2>1, <2>4 DEF LocalsOK
  <2>6. CallersOK'
    BY <1>1, <2>3, <2>5, CallerMoves DEF ReadOnHand, Labels
  <2>7. EngineOK'
    BY <1>1, EngineUnchanged DEF ReadOnHand
  <2> QED
    BY <2>6, <2>7, TypePartsNext
<1>2. CASE PutOnHand(p)
  <2>1. loc[p].want \in Int
    BY <1>0 DEF Locals
  <2>2. EngineOK'
    BY <1>2, <2>1 DEF PutOnHand, EngineOK
  <2>3. CallersOK'
    BY <1>2, CallerFinishes DEF PutOnHand
  <2> QED
    BY <2>2, <2>3, TypePartsNext
<1> QED
  BY <1>1, <1>2

LEMMA SweepBeginsType ==
  ASSUME TypeOK, NEW p \in Caller, NEW op \in Sweeping, NEW s \in Sku \cup {None},
         NEW q \in Nat, NEW t \in Nat,
         op # "sweep_expired" => s \in Sku /\ q \in Qty,
         StartSweep(p, op, s, q, t)
  PROVE  TypeOK'
<1> EngineOK /\ CallersOK
  BY TypeParts
<1> DEFINE r == [NoCall EXCEPT !.op = op, !.sku = s, !.qty = q, !.ttl = t,
                               !.todo = Sku, !.due = DueHolds]
<1>1. r \in Locals
  BY AssignSweep DEF DueHolds, Sweeping, AllCalls
<1>2. r.op = op /\ r.sku = s /\ r.qty = q
  BY DEF NoCall
<1>3. LocalsOK("scan", r)
  BY <1>2 DEF LocalsOK, Sweeping
<1> HIDE DEF r
<1>4. CallersOK'
  BY <1>1, <1>3, CallerMoves DEF StartSweep, Labels, r
<1>5. EngineOK'
  BY EngineUnchanged DEF StartSweep
<1> QED
  BY <1>4, <1>5, TypePartsNext

LEMMA ScanType ==
  ASSUME TypeOK, NEW p \in Caller, Scan(p)
  PROVE  TypeOK'
<1> EngineOK /\ CallersOK
  BY TypeParts
<1>0. loc[p] \in Locals /\ LocalsOK("scan", loc[p])
  BY DEF CallersOK, Scan, At
<1>1. PICK s \in loc[p].todo :
        /\ Set(p, [loc[p] EXCEPT !.todo = @ \ {s},
                                 !.cand = @ \cup ({s} \X Keys(live[s].holds))])
        /\ Goto(p, IF loc[p].todo = {s} THEN "sweep" ELSE "scan")
  BY DEF Scan
<1> DEFINE l == IF loc[p].todo = {s} THEN "sweep" ELSE "scan"
           t == loc[p].todo \ {s}
           c == loc[p].cand \cup ({s} \X Keys(live[s].holds))
           r == [loc[p] EXCEPT !.todo = t, !.cand = c]
<1>2. loc[p].todo \in SUBSET Sku /\ loc[p].cand \in SUBSET (Sku \X Hold)
  BY <1>0 DEF Locals
<1>3. t \in SUBSET Sku /\ c \in SUBSET (Sku \X Hold)
  BY <1>2 DEF Keys
<1> HIDE DEF t, c
<1>4. r \in Locals
  BY <1>0, <1>3, AssignScan
<1>5. r.op = loc[p].op /\ r.sku = loc[p].sku /\ r.qty = loc[p].qty
  BY <1>0 DEF Locals
<1>6. LocalsOK(l, r)
  BY <1>0, <1>5 DEF LocalsOK
<1>7. CallersOK'
  BY <1>1, <1>4, <1>6, CallerMoves DEF Labels, t, c
<1>8. EngineOK'
  BY EngineUnchanged DEF Scan
<1> QED
  BY <1>7, <1>8, TypePartsNext

LEMMA CheckCandidateType ==
  ASSUME TypeOK, NEW p \in Caller, CheckCandidate(p)
  PROVE  TypeOK'
<1> EngineOK /\ CallersOK
  BY TypeParts
<1>0. loc[p] \in Locals /\ LocalsOK("sweep", loc[p]) /\ pc[p] = "sweep"
  BY DEF CallersOK, CheckCandidate, At
<1>1. PICK c \in loc[p].cand :
        \/ /\ Set(p, [loc[p] EXCEPT !.cand = @ \ {c}, !.victim = c])
           /\ Goto(p, "evict")
        \/ /\ Set(p, [loc[p] EXCEPT !.cand = @ \ {c}])
           /\ UNCHANGED pc
  BY DEF CheckCandidate
<1> DEFINE d == loc[p].cand \ {c}
           r == [loc[p] EXCEPT !.cand = d, !.victim = c]
           k == [loc[p] EXCEPT !.cand = d]
<1>2. loc[p].cand \in SUBSET (Sku \X Hold)
  BY <1>0 DEF Locals
<1>3. c \in Sku \X Hold /\ d \in SUBSET (Sku \X Hold)
  BY <1>2
<1> HIDE DEF d
<1>4. r \in Locals /\ k \in Locals
  BY <1>0, <1>3, AssignCandidates
<1>5. /\ r.op = loc[p].op /\ r.sku = loc[p].sku /\ r.qty = loc[p].qty
      /\ r.victim = c
  BY <1>0 DEF Locals
<1>6. k.op = loc[p].op /\ k.sku = loc[p].sku /\ k.qty = loc[p].qty
  BY <1>0 DEF Locals
<1>7. LocalsOK("evict", r) /\ LocalsOK("sweep", k)
  BY <1>0, <1>3, <1>5, <1>6 DEF LocalsOK
<1>8. CallersOK'
  <2>1. CASE Set(p, r) /\ Goto(p, "evict")
    BY <2>1, <1>4, <1>7, CallerMoves DEF Labels
  <2>2. CASE Set(p, k) /\ UNCHANGED pc
    BY <2>2, <1>0, <1>4, <1>7, CallerStays
  <2> QED
    BY <1>1, <2>1, <2>2 DEF d
<1>9. EngineOK'
  BY EngineUnchanged DEF CheckCandidate
<1> QED
  BY <1>8, <1>9, TypePartsNext

LEMMA EvictType ==
  ASSUME TypeOK, NEW p \in Caller, Evict(p)
  PROVE  TypeOK'
<1> EngineOK /\ CallersOK
  BY TypeParts
<1>0. loc[p] \in Locals /\ LocalsOK("evict", loc[p])
  BY DEF CallersOK, Evict, At
<1> DEFINE s == loc[p].victim[1]
           h == loc[p].victim[2]
<1>1. s \in Sku /\ h \in Hold
  BY <1>0 DEF LocalsOK
<1>2. /\ Record(s, DropHold(live[s], h), Released(h))
      /\ expiresAt' = [expiresAt EXCEPT ![h] = None]
  BY DEF Evict, DropVictim
<1> HIDE DEF s, h
<1>3. live[s] \in SkuStates /\ replayed[s] \in SkuStates
  BY <1>1 DEF EngineOK
<1>4. DropHold(live[s], h) \in SkuStates /\ Project(replayed[s], Released(h)) \in SkuStates
  BY <1>1, <1>3, DropHoldState, ProjectEvents
<1>5. live' \in [Sku -> SkuStates] /\ replayed' \in [Sku -> SkuStates]
  BY <1>1, <1>2, <1>4, RecordType
<1>6. EngineOK'
  BY <1>1, <1>2, <1>5 DEF Evict, EngineOK, Stores, Time
<1>7. LocalsOK("unindex", loc[p])
  BY <1>0 DEF LocalsOK
<1>8. CallersOK'
  BY <1>7, CallerGoes DEF Evict, Labels
<1> QED
  BY <1>6, <1>8, TypePartsNext

LEMMA EvictNothingType ==
  ASSUME TypeOK, NEW p \in Caller, EvictNothing(p)
  PROVE  TypeOK'
<1> EngineOK /\ CallersOK
  BY TypeParts
<1>1. loc[p].op \in Sweeping
  BY DEF CallersOK, EvictNothing, At, LocalsOK
<1>2. CallersOK'
  BY <1>1, CallerResumes DEF EvictNothing, Resume
<1>3. EngineOK'
  BY EngineUnchanged DEF EvictNothing
<1> QED
  BY <1>2, <1>3, TypePartsNext

LEMMA UnindexType ==
  ASSUME TypeOK, NEW p \in Caller, Unindex(p) \/ Uncache(p)
  PROVE  TypeOK'
<1> EngineOK /\ CallersOK
  BY TypeParts
<1>0. loc[p] \in Locals /\ LocalsOK(pc[p], loc[p]) /\ pc[p] \in {"unindex", "uncache"}
  BY DEF CallersOK, Unindex, Uncache, At
<1>1. CASE Unindex(p)
  <2>1. EngineOK'
    BY <1>1 DEF Unindex, EngineOK, Time
  <2>2. CASE WithCache
    <3>1. LocalsOK("uncache", loc[p])
      BY <1>0 DEF LocalsOK
    <3>2. CallersOK'
      BY <1>1, <2>2, <3>1, CallerGoes DEF Unindex, Labels
    <3> QED
      BY <2>1, <3>2, TypePartsNext
  <2>3. CASE ~WithCache
    <3>1. CallersOK'
      BY <1>1, <2>3, CallerResumes DEF Unindex
    <3> QED
      BY <2>1, <3>1, TypePartsNext
  <2> QED
    BY <2>2, <2>3
<1>2. CASE Uncache(p)
  <2>1. EngineOK'
    BY <1>2 DEF Uncache, EngineOK, Time
  <2>2. CallersOK'
    BY <1>2, CallerResumes DEF Uncache
  <2> QED
    BY <2>1, <2>2, TypePartsNext
<1> QED
  BY <1>1, <1>2

LEMMA SweepDoneType ==
  ASSUME TypeOK, NEW p \in Caller, SweepDone(p)
  PROVE  TypeOK'
<1> EngineOK /\ CallersOK
  BY TypeParts
<1>0. loc[p] \in Locals /\ LocalsOK("sweep", loc[p])
  BY DEF CallersOK, SweepDone, At
<1>1. EngineOK'
  BY EngineUnchanged DEF SweepDone
<1>2. CASE loc[p].op = "sweep_expired"
  <2>1. CallersOK'
    BY <1>2, CallerFinishes DEF SweepDone
  <2> QED
    BY <1>1, <2>1, TypePartsNext
<1>3. CASE loc[p].op # "sweep_expired"
  <2> DEFINE n == now + loc[p].ttl
             r == [loc[p] EXCEPT !.expires = n]
             l == IF loc[p].op = "reserve" THEN "alloc" ELSE "peek"
  <2>1. n \in Nat
    BY <1>0 DEF EngineOK, Locals
  <2> HIDE DEF n
  <2>2. r \in Locals
    BY <1>0, <2>1, AssignExpires
  <2>3. r.op = loc[p].op /\ r.sku = loc[p].sku /\ r.qty = loc[p].qty
    BY <1>0 DEF Locals
  <2>4. LocalsOK(l, r)
    BY <1>0, <1>3, <2>3 DEF LocalsOK, Sweeping
  <2>5. CallersOK'
    BY <1>3, <2>2, <2>4, CallerMoves DEF SweepDone, Labels, n
  <2> QED
    BY <1>1, <2>5, TypePartsNext
<1> QED
  BY <1>2, <1>3

\* A hold placed by reserve() or reserve_or_backorder().
LEMMA PlaceHoldType ==
  ASSUME EngineOK, NEW p, NEW h \in Hold, NEW q \in Nat,
         loc[p] \in Locals, loc[p].sku \in Sku,
         PlaceHold(p, h, q), UNCHANGED <<now, Stores, known>>
  PROVE  EngineOK'
<1> DEFINE s == loc[p].sku
<1>1. live[s] \in SkuStates /\ replayed[s] \in SkuStates /\ loc[p].expires \in Nat
  BY DEF EngineOK, Locals
<1>2. /\ PutHold(live[s], h, q) \in SkuStates
      /\ Project(replayed[s], HoldPlaced(h, q)) \in SkuStates
  BY <1>1, PutHoldState, ProjectEvents
<1>3. live' \in [Sku -> SkuStates] /\ replayed' \in [Sku -> SkuStates]
  BY <1>2, RecordType DEF PlaceHold
<1> QED
  BY <1>1, <1>3 DEF PlaceHold, EngineOK, Stores, Time

LEMMA AllocType ==
  ASSUME TypeOK, NEW p \in Caller, Alloc(p) \/ InsufficientStock(p)
  PROVE  TypeOK'
<1> EngineOK /\ CallersOK
  BY TypeParts
<1>0. loc[p] \in Locals /\ LocalsOK("alloc", loc[p])
  BY DEF CallersOK, Alloc, InsufficientStock, At
<1>1. loc[p].sku \in Sku /\ loc[p].qty \in Nat /\ loc[p].op = "reserve"
  BY <1>0, ConstantsAssumption DEF LocalsOK
<1>2. CASE Alloc(p)
  <2>1. PICK h \in Fresh : /\ PlaceHold(p, h, loc[p].qty)
                           /\ Set(p, [loc[p] EXCEPT !.hold = h])
    BY <1>2 DEF Alloc
  <2>2. h \in Hold
    BY DEF Fresh
  <2>3. EngineOK'
    BY <1>0, <1>1, <1>2, <2>1, <2>2, PlaceHoldType DEF Alloc
  <2> DEFINE r == [loc[p] EXCEPT !.hold = h]
  <2>4. r \in Locals
    BY <1>0, <2>2, AssignHold
  <2>5. r.op = loc[p].op /\ r.sku = loc[p].sku /\ r.qty = loc[p].qty /\ r.hold = h
    BY <1>0 DEF Locals
  <2>6. LocalsOK("index", r)
    BY <1>0, <2>2, <2>5 DEF LocalsOK
  <2>7. CallersOK'
    BY <1>2, <2>1, <2>4, <2>6, CallerMoves DEF Alloc, Labels
  <2> QED
    BY <2>3, <2>7, TypePartsNext
<1>3. CASE InsufficientStock(p)
  <2>1. CallersOK'
    BY <1>3, CallerFinishes DEF InsufficientStock
  <2>2. EngineOK'
    BY <1>3, EngineUnchanged DEF InsufficientStock
  <2> QED
    BY <2>1, <2>2, TypePartsNext
<1> QED
  BY <1>2, <1>3

LEMMA IndexHoldType ==
  ASSUME TypeOK, NEW p \in Caller, IndexHold(p) \/ MirrorHold(p)
  PROVE  TypeOK'
<1> EngineOK /\ CallersOK
  BY TypeParts
<1>0. /\ loc[p] \in Locals /\ LocalsOK(pc[p], loc[p])
      /\ pc[p] \in {"index", "mirror"}
  BY DEF CallersOK, IndexHold, MirrorHold, At
<1>1. loc[p].hold \in Hold /\ loc[p].expires \in Nat /\ loc[p].ttl \in Nat
  BY <1>0 DEF LocalsOK, Locals
<1>2. CASE IndexHold(p)
  <2>1. known' \subseteq Hold
    BY <1>1, <1>2 DEF IndexHold, EngineOK
  <2>2. EngineOK'
    BY <1>1, <1>2, <2>1 DEF IndexHold, EngineOK, Time
  <2>3. CASE WithCache
    <3>1. LocalsOK("mirror", loc[p])
      BY <1>0 DEF LocalsOK
    <3>2. CallersOK'
      BY <1>2, <2>3, <3>1, CallerGoes DEF IndexHold, Labels
    <3> QED
      BY <2>2, <3>2, TypePartsNext
  <2>4. CASE ~WithCache
    <3>1. CallersOK'
      BY <1>2, <2>4, CallerFinishes DEF IndexHold
    <3> QED
      BY <2>2, <3>1, TypePartsNext
  <2> QED
    BY <2>3, <2>4
<1>3. CASE MirrorHold(p)
  <2>1. now + loc[p].ttl \in Nat
    BY <1>1 DEF EngineOK
  <2>2. EngineOK'
    BY <1>1, <1>3, <2>1 DEF MirrorHold, EngineOK, Time
  <2>3. CallersOK'
    BY <1>3, CallerFinishes DEF MirrorHold
  <2> QED
    BY <2>2, <2>3, TypePartsNext
<1> QED
  BY <1>2, <1>3

LEMMA PeekType ==
  ASSUME TypeOK, NEW p \in Caller, Peek(p)
  PROVE  TypeOK'
<1> EngineOK /\ CallersOK
  BY TypeParts
<1>0. loc[p] \in Locals /\ LocalsOK("peek", loc[p])
  BY DEF CallersOK, Peek, At
<1> DEFINE a == Available(live[loc[p].sku])
           w == Lesser(AsU32(a), loc[p].qty)
           r == [loc[p] EXCEPT !.want = w]
           l == IF w > 0 THEN "place" ELSE "short"
<1>1. loc[p].sku \in Sku /\ loc[p].qty \in Nat
  BY <1>0, ConstantsAssumption DEF LocalsOK
<1>2. a \in Int
  <2>1. live[loc[p].sku] \in SkuStates
    BY <1>1 DEF EngineOK
  <2>2. Held(live[loc[p].sku].holds) \in Nat
    BY <2>1, HeldNat DEF SkuStates
  <2> QED
    BY <2>1, <2>2 DEF Available, SkuStates
<1> HIDE DEF a
<1>3. AsU32(a) \in Nat
  BY <1>2, ConstantsAssumption DEF AsU32
<1>4. w \in 0..loc[p].qty
  BY <1>1, <1>3 DEF Lesser
<1> HIDE DEF w
<1>5. r \in Locals
  BY <1>0, <1>1, <1>4, AssignWant
<1>6. /\ r.op = loc[p].op /\ r.sku = loc[p].sku /\ r.qty = loc[p].qty
      /\ r.want = w
  BY <1>0 DEF Locals
<1>7. LocalsOK(l, r)
  BY <1>0, <1>1, <1>4, <1>6 DEF LocalsOK
<1>8. CallersOK'
  BY <1>5, <1>7, CallerMoves DEF Peek, Labels, w, a
<1>9. EngineOK'
  BY EngineUnchanged DEF Peek
<1> QED
  BY <1>8, <1>9, TypePartsNext

LEMMA PlaceType ==
  ASSUME TypeOK, NEW p \in Caller, Place(p)
  PROVE  TypeOK'
<1> EngineOK /\ CallersOK
  BY TypeParts
<1>0. loc[p] \in Locals /\ LocalsOK("place", loc[p])
  BY DEF CallersOK, Place, At
<1>0a. loc[p].sku \in Sku /\ loc[p].want \in 1..loc[p].qty
  BY <1>0 DEF LocalsOK
<1>0b. loc[p].qty \in Nat
  BY <1>0 DEF Locals
<1>1. loc[p].want \in Nat
  BY <1>0a, <1>0b
<1>2. PICK h \in Fresh : /\ PlaceHold(p, h, loc[p].want)
                         /\ Set(p, [loc[p] EXCEPT !.hold = h])
  BY DEF Place
<1>3. h \in Hold
  BY DEF Fresh
<1>4. EngineOK'
  BY <1>0, <1>0a, <1>1, <1>2, <1>3, PlaceHoldType DEF Place
<1> DEFINE r == [loc[p] EXCEPT !.hold = h]
           l == IF loc[p].want < loc[p].qty THEN "short" ELSE "index"
<1>5. r \in Locals
  BY <1>0, <1>3, AssignHold
<1>6. /\ r.op = loc[p].op /\ r.sku = loc[p].sku /\ r.qty = loc[p].qty
      /\ r.want = loc[p].want /\ r.hold = h
  BY <1>0 DEF Locals
<1>7. LocalsOK(l, r)
  BY <1>0, <1>0a, <1>0b, <1>1, <1>3, <1>6 DEF LocalsOK
<1>8. CallersOK'
  BY <1>2, <1>5, <1>7, CallerMoves DEF Place, Labels
<1> QED
  BY <1>4, <1>8, TypePartsNext

LEMMA ShortType ==
  ASSUME TypeOK, NEW p \in Caller, Short(p)
  PROVE  TypeOK'
<1> EngineOK /\ CallersOK
  BY TypeParts
<1>0. loc[p] \in Locals /\ LocalsOK("short", loc[p])
  BY DEF CallersOK, Short, At
<1> DEFINE s == loc[p].sku
           q == loc[p].qty - loc[p].want
<1>0a. s \in Sku /\ loc[p].want \in 0..loc[p].qty
  BY <1>0 DEF LocalsOK
<1>0b. loc[p].qty \in Nat
  BY <1>0 DEF Locals
<1>1. s \in Sku /\ q \in Nat
  BY <1>0a, <1>0b
<1>2. PICK b \in Fresh :
        /\ Record(s, PutBackorder(live[s], b, q), BackorderPlaced(b, q))
        /\ issued' = issued \cup {b}
  BY DEF Short
<1>3. b \in Hold
  BY DEF Fresh
<1>4. live[s] \in SkuStates /\ replayed[s] \in SkuStates
  BY <1>1 DEF EngineOK
<1> HIDE DEF s, q
<1>5. /\ PutBackorder(live[s], b, q) \in SkuStates
      /\ Project(replayed[s], BackorderPlaced(b, q)) \in SkuStates
  BY <1>1, <1>3, <1>4, BackorderStates, ProjectEvents
<1>6. live' \in [Sku -> SkuStates] /\ replayed' \in [Sku -> SkuStates]
  BY <1>1, <1>2, <1>5, RecordType
<1>7. EngineOK'
  BY <1>2, <1>3, <1>6 DEF Short, EngineOK, Stores
<1>8. CallersOK'
  <2>1. CASE loc[p].want > 0
    <3>1. LocalsOK("index", loc[p])
      BY <1>0, <2>1 DEF LocalsOK
    <3> QED
      BY <2>1, <3>1, CallerGoes DEF Short, Labels
  <2>2. CASE ~(loc[p].want > 0)
    BY <2>2, CallerFinishes DEF Short
  <2> QED
    BY <2>1, <2>2
<1> QED
  BY <1>7, <1>8, TypePartsNext

LEMMA StartFulfillType ==
  ASSUME TypeOK, NEW p \in Caller, StartFulfill(p)
  PROVE  TypeOK'
<1> EngineOK /\ CallersOK
  BY TypeParts
<1>1. PICK s \in Sku : Set(p, [NoCall EXCEPT !.op = "fulfill_backorders",
                                             !.sku = s, !.todo = Sku \ {s}])
  BY DEF StartFulfill
<1> DEFINE r == [NoCall EXCEPT !.op = "fulfill_backorders",
                               !.sku = s, !.todo = Sku \ {s}]
<1>2. r \in Locals
  BY AssignFulfill DEF AllCalls
<1>3. r.op = "fulfill_backorders" /\ r.sku = s
  BY DEF NoCall
<1>4. LocalsOK("pick", r)
  BY <1>3 DEF LocalsOK
<1>5. CallersOK'
  BY <1>1, <1>2, <1>4, CallerMoves DEF StartFulfill, Labels
<1>6. EngineOK'
  BY EngineUnchanged DEF StartFulfill
<1> QED
  BY <1>5, <1>6, TypePartsNext

LEMMA PickType ==
  ASSUME TypeOK, NEW p \in Caller, Pick(p)
  PROVE  TypeOK'
<1> EngineOK /\ CallersOK
  BY TypeParts
<1>0. loc[p] \in Locals /\ LocalsOK("pick", loc[p])
  BY DEF CallersOK, Pick, At
<1>1. PICK b \in Coverable(live[loc[p].sku]) :
        Set(p, [loc[p] EXCEPT !.bo = b, !.qty = live[loc[p].sku].backorders[b]])
  BY DEF Pick
<1> DEFINE q == live[loc[p].sku].backorders[b]
           r == [loc[p] EXCEPT !.bo = b, !.qty = q]
<1>2. b \in Hold /\ q \in Nat
  <2>1. loc[p].sku \in Sku
    BY <1>0 DEF LocalsOK
  <2>2. b \in Hold
    BY DEF Coverable, Keys
  <2> QED
    BY <2>1, <2>2 DEF EngineOK, SkuStates, QtyMap
<1> HIDE DEF q
<1>3. r \in Locals
  BY <1>0, <1>2, AssignBackorder
<1>4. r.op = loc[p].op /\ r.sku = loc[p].sku /\ r.bo = b
  BY <1>0 DEF Locals
<1>5. LocalsOK("fill", r)
  <2>1. r.op \notin {"reserve", "reserve_or_backorder"}
    BY <1>0, <1>4 DEF LocalsOK
  <2> QED
    BY <1>0, <1>2, <1>4, <2>1 DEF LocalsOK
<1>6. CallersOK'
  BY <1>1, <1>3, <1>5, CallerMoves DEF Pick, Labels, q
<1>7. EngineOK'
  BY EngineUnchanged DEF Pick
<1> QED
  BY <1>6, <1>7, TypePartsNext

LEMMA FillType ==
  ASSUME TypeOK, NEW p \in Caller, Fill(p)
  PROVE  TypeOK'
<1> EngineOK /\ CallersOK
  BY TypeParts
<1>0. loc[p] \in Locals /\ LocalsOK("fill", loc[p])
  BY DEF CallersOK, Fill, At
<1> DEFINE s == loc[p].sku
           q == loc[p].qty
           b == loc[p].bo
<1>1. s \in Sku /\ q \in Nat /\ b \in Hold
  BY <1>0 DEF LocalsOK, Locals
<1>2. PICK h \in Fresh :
        /\ Record(s, PromoteBackorder(live[s], b, h, q), BackorderFilled(h, q))
        /\ expiresAt' = [expiresAt EXCEPT ![h] = FarFuture]
        /\ issued' = issued \cup {h}
        /\ Set(p, [loc[p] EXCEPT !.bo = None, !.qty = 0, !.got = @ \cup {h}])
  BY DEF Fill
<1>3. h \in Hold
  BY DEF Fresh
<1>4. live[s] \in SkuStates /\ replayed[s] \in SkuStates
  BY <1>1 DEF EngineOK
<1> HIDE DEF s, q, b
<1>5. /\ PromoteBackorder(live[s], b, h, q) \in SkuStates
      /\ Project(replayed[s], BackorderFilled(h, q)) \in SkuStates
  BY <1>1, <1>3, <1>4, BackorderStates, ProjectState
<1>6. live' \in [Sku -> SkuStates] /\ replayed' \in [Sku -> SkuStates]
  BY <1>1, <1>2, <1>5, RecordType
<1>7. FarFuture \in Nat
  BY ConstantsAssumption
<1>8. EngineOK'
  BY <1>2, <1>3, <1>6, <1>7 DEF Fill, EngineOK, Stores, Time
<1> DEFINE g == loc[p].got \cup {h}
           r == [loc[p] EXCEPT !.bo = None, !.qty = 0, !.got = g]
<1>9. g \in SUBSET Hold
  BY <1>0, <1>3 DEF Locals
<1> HIDE DEF g
<1>10. r \in Locals
  BY <1>0, <1>1, <1>9, AssignBackorder
<1>11. r.op = loc[p].op /\ r.sku = s
  BY <1>0 DEF Locals, s
<1>12. LocalsOK("pick", r)
  <2>1. r.op \notin {"reserve", "reserve_or_backorder"}
    BY <1>0, <1>11 DEF LocalsOK
  <2> QED
    BY <1>0, <1>1, <1>11, <2>1 DEF LocalsOK
<1>13. CallersOK'
  BY <1>2, <1>10, <1>12, CallerMoves DEF Fill, Labels, g
<1> QED
  BY <1>8, <1>13, TypePartsNext

LEMMA NothingToPickType ==
  ASSUME TypeOK, NEW p \in Caller, NothingToPick(p)
  PROVE  TypeOK'
<1> EngineOK /\ CallersOK
  BY TypeParts
<1>0. /\ loc[p] \in Locals /\ LocalsOK("pick", loc[p])
      /\ pc[p] = "pick"
  BY DEF CallersOK, NothingToPick, At
<1>1. CASE loc[p].todo = {}
  <2>1. known' \subseteq Hold
    BY <1>0, <1>1 DEF NothingToPick, EngineOK, Locals
  <2>2. EngineOK'
    BY <2>1 DEF NothingToPick, EngineOK, Stores
  <2>3. CallersOK'
    BY <1>1, CallerFinishes DEF NothingToPick
  <2> QED
    BY <2>2, <2>3, TypePartsNext
<1>2. CASE loc[p].todo # {}
  <2>1. PICK s \in loc[p].todo :
          Set(p, [loc[p] EXCEPT !.sku = s, !.todo = @ \ {s}])
    BY <1>2 DEF NothingToPick
  <2> DEFINE t == loc[p].todo \ {s}
             r == [loc[p] EXCEPT !.sku = s, !.todo = t]
  <2>2. s \in Sku /\ t \in SUBSET Sku
    BY <1>0 DEF Locals
  <2> HIDE DEF t
  <2>3. r \in Locals
    BY <1>0, <2>2, AssignSku
  <2>4. r.op = loc[p].op /\ r.sku = s
    BY <1>0 DEF Locals
  <2>5. LocalsOK("pick", r)
    BY <1>0, <2>2, <2>4 DEF LocalsOK
  <2>6. UNCHANGED pc
    BY <1>2 DEF NothingToPick
  <2>7. CallersOK'
    BY <1>0, <2>1, <2>3, <2>5, <2>6, CallerStays DEF t
  <2>8. EngineOK'
    BY <1>2, EngineUnchanged DEF NothingToPick
  <2> QED
    BY <2>7, <2>8, TypePartsNext
<1> QED
  BY <1>1, <1>2

LEMMA ReleasingType ==
  ASSUME TypeOK, NEW p \in Caller, NEW s \in Sku, NEW h \in Hold,
         Confirm(p, s, h) \/ Release(p, s, h)
  PROVE  TypeOK'
<1> EngineOK /\ CallersOK
  BY TypeParts
<1>1. live[s] \in SkuStates /\ replayed[s] \in SkuStates
  BY DEF EngineOK
<1>2. PICK op \in {"confirm", "release"},
           st \in {CommitHold(live[s], h), DropHold(live[s], h)},
           ev \in {Captured(h), Released(h)} :
        /\ Record(s, st, ev)
        /\ Set(p, [NoCall EXCEPT !.op = op, !.victim = <<s, h>>])
  BY DEF Confirm, Release
<1>3. st \in SkuStates
  BY <1>1, CommitHoldState, DropHoldState
<1>4. Project(replayed[s], ev) \in SkuStates
  BY <1>1, ProjectState
<1>5. live' \in [Sku -> SkuStates] /\ replayed' \in [Sku -> SkuStates]
  BY <1>2, <1>3, <1>4, RecordType
<1>6. EngineOK'
  BY <1>5 DEF Confirm, Release, EngineOK, Stores, Time
<1> DEFINE r == [NoCall EXCEPT !.op = op, !.victim = <<s, h>>]
<1>7. r \in Locals
  BY AssignRelease DEF AllCalls
<1>8. r.op = op /\ r.victim = <<s, h>>
  BY DEF NoCall
<1>9. LocalsOK("unindex", r)
  BY <1>8 DEF LocalsOK
<1>10. CallersOK'
  BY <1>2, <1>7, <1>9, CallerMoves DEF Confirm, Release, Labels
<1> QED
  BY <1>6, <1>10, TypePartsNext

LEMMA QuietType ==
  ASSUME TypeOK, Tick \/ UNCHANGED vars
  PROVE  TypeOK'
<1> EngineOK /\ CallersOK
  BY TypeParts
<1>1. EngineOK'
  BY DEF Tick, vars, EngineOK, Stores
<1>2. CallersOK'
  BY CallersUnchanged DEF Tick, vars
<1> QED
  BY <1>1, <1>2, TypePartsNext

LEMMA InitType ==
  ASSUME Init
  PROVE  TypeOK
<1>1. EngineOK
  BY EmptySkuState DEF Init, EngineOK, Time
<1>2. CallersOK
  BY NoCallOK DEF Init, CallersOK, Labels
<1> QED
  BY <1>1, <1>2, TypeParts

\* Begin and Step, one case per action.
LEMMA NextType ==
  ASSUME TypeOK, [Next]_vars
  PROVE  TypeOK'
<1>1. CASE Tick \/ UNCHANGED vars
  BY <1>1, QuietType
<1>2. ASSUME NEW p \in Caller, Begin(p)
      PROVE  TypeOK'
  <2>1. ASSUME NEW s \in Sku, NEW q \in Qty, Receive(p, s, q) \/ ReturnStock(p, s, q)
        PROVE  TypeOK'
    BY <2>1, AddToStockType
  <2>2. ASSUME NEW op \in {"reserve", "reserve_or_backorder"}, NEW s \in Sku,
               NEW q \in Qty, NEW t \in Ttl, StartSweep(p, op, s, q, t)
        PROVE  TypeOK'
    <3>1. q \in Nat /\ t \in Nat /\ op \in Sweeping
      BY ConstantsAssumption DEF Sweeping
    <3> QED
      BY <2>2, <3>1, SweepBeginsType
  <2>3. CASE StartSweep(p, "sweep_expired", None, 0, 0)
    BY <2>3, SweepBeginsType DEF Sweeping
  <2>4. CASE StartFulfill(p)
    BY <2>4, StartFulfillType
  <2>5. ASSUME NEW s \in Sku, NEW h \in Hold, Confirm(p, s, h) \/ Release(p, s, h)
        PROVE  TypeOK'
    BY <2>5, ReleasingType
  <2> QED
    BY <1>2, <2>1, <2>2, <2>3, <2>4, <2>5 DEF Begin
<1>3. ASSUME NEW p \in Caller, Step(p)
      PROVE  TypeOK'
  BY <1>3, OnHandType, ScanType, CheckCandidateType, EvictType, EvictNothingType,
     UnindexType, SweepDoneType, AllocType, IndexHoldType, PeekType, PlaceType,
     ShortType, PickType, FillType, NothingToPickType DEF Step
<1> QED
  BY <1>1, <1>2, <1>3 DEF Next

\* The engine's state and its callers' locals keep their types: every map is
\* total on its keys, every quantity is a natural number although it is
\* computed by `as u32`, and a call only uses locals it has assigned.
THEOREM TypeCorrect == Spec => []TypeOK
<1>1. Init => TypeOK
  BY InitType
<1>2. TypeOK /\ [Next]_vars => TypeOK'
  BY NextType
<1> QED
  BY <1>1, <1>2, PTL DEF Spec

-----------------------------------------------------------------------------
(* The five ways a step changes the pool, and that it changes it in no     *)
(* other way.                                                              *)

Quiet == UNCHANGED <<live, replayed, issued>>

Restocks(s, q) ==
  /\ \E ev \in {Received(q), Returned(q)} : Record(s, AddStock(live[s], q), ev)
  /\ UNCHANGED issued

Holds(s, h, q) ==
  /\ h \in Fresh
  /\ Record(s, PutHold(live[s], h, q), HoldPlaced(h, q))
  /\ issued' = issued \cup {h}

Owes(s, b, q) ==
  /\ Record(s, PutBackorder(live[s], b, q), BackorderPlaced(b, q))
  /\ issued' = issued \cup {b}

Drops(s, h) ==
  /\ Present(live[s].holds, h)
  /\ Record(s, DropHold(live[s], h), Released(h))
  /\ UNCHANGED issued

Commits(s, h) ==
  /\ Present(live[s].holds, h)
  /\ Record(s, CommitHold(live[s], h), Captured(h))
  /\ UNCHANGED issued

\* reserve() holds what it has seen to be available.
ReserveHolds ==
  \E s \in Sku, h \in Hold, q \in Qty : Available(live[s]) >= q /\ Holds(s, h, q)

\* reserve_or_backorder() holds what was available at an earlier step.
PartlyHolds == \E s \in Sku, h \in Hold, q \in Nat : Holds(s, h, q) \/ Owes(s, h, q)

Effect ==
  \/ Quiet
  \/ \E s \in Sku, q \in Qty : Restocks(s, q)
  \/ \E s \in Sku, h \in Hold : Drops(s, h) \/ Commits(s, h)
  \/ ReserveHolds
  \/ PartlyHolds /\ \E p \in Caller : pc[p] \in {"place", "short"}

\* Every step but the filling of a backorder has one of these effects.
LEMMA StepEffect ==
  ASSUME TypeOK, [Next]_vars, \A p \in Caller : ~Fill(p)
  PROVE  Effect
<1>1. CASE Tick \/ UNCHANGED vars
  BY <1>1 DEF Tick, vars, Effect, Quiet
<1>2. ASSUME NEW p \in Caller, Begin(p)
      PROVE  Effect
  <2>1. ASSUME NEW s \in Sku, NEW q \in Qty, Receive(p, s, q) \/ ReturnStock(p, s, q)
        PROVE  Effect
    <3>1. Restocks(s, q)
      BY <2>1 DEF Receive, ReturnStock, AddToStock, Restocks
    <3> QED
      BY <3>1 DEF Effect
  <2>2. ASSUME NEW s \in Sku, NEW h \in Hold, Confirm(p, s, h) \/ Release(p, s, h)
        PROVE  Effect
    <3>1. Drops(s, h) \/ Commits(s, h)
      BY <2>2 DEF Confirm, Release, Drops, Commits
    <3> QED
      BY <3>1 DEF Effect
  <2>3. CASE \/ StartFulfill(p)
             \/ \E op, s, q, t : StartSweep(p, op, s, q, t)
    BY <2>3 DEF StartFulfill, StartSweep, Effect, Quiet
  <2> QED
    BY <1>2, <2>1, <2>2, <2>3 DEF Begin
<1>3. ASSUME NEW p \in Caller, Step(p)
      PROVE  Effect
  <2>0. loc[p] \in Locals /\ LocalsOK(pc[p], loc[p])
    BY DEF TypeOK
  <2>1. CASE Evict(p)
    <3> DEFINE s == loc[p].victim[1]
               h == loc[p].victim[2]
    <3>1. s \in Sku /\ h \in Hold
      BY <2>0, <2>1 DEF Evict, At, LocalsOK
    <3>2. Drops(s, h)
      BY <2>1 DEF Evict, DropVictim, Drops
    <3> HIDE DEF s, h
    <3> QED
      BY <3>1, <3>2 DEF Effect
  <2>2. CASE Alloc(p)
    <3> DEFINE s == loc[p].sku
               q == loc[p].qty
    <3>1. s \in Sku /\ q \in Qty
      BY <2>0, <2>2 DEF Alloc, At, LocalsOK
    <3>2. PICK h \in Fresh : PlaceHold(p, h, q)
      BY <2>2 DEF Alloc
    <3>3. Available(live[s]) >= q /\ Holds(s, h, q) /\ h \in Hold
      BY <2>2, <3>2 DEF Alloc, PlaceHold, Holds, Fresh
    <3> HIDE DEF s, q
    <3> QED
      BY <3>1, <3>3 DEF Effect, ReserveHolds
  <2>3. CASE Place(p)
    <3> DEFINE s == loc[p].sku
               q == loc[p].want
    <3>1. s \in Sku /\ pc[p] = "place" /\ q \in 1..loc[p].qty
      BY <2>0, <2>3 DEF Place, At, LocalsOK
    <3>2. loc[p].qty \in Nat
      BY <2>0 DEF Locals
    <3>3. q \in Nat
      BY <3>1, <3>2
    <3>4. PICK h \in Fresh : PlaceHold(p, h, q)
      BY <2>3 DEF Place
    <3>5. Holds(s, h, q) /\ h \in Hold
      BY <3>4 DEF PlaceHold, Holds, Fresh
    <3> HIDE DEF s, q
    <3> QED
      BY <3>1, <3>3, <3>5 DEF Effect, PartlyHolds
  <2>4. CASE Short(p)
    <3> DEFINE s == loc[p].sku
               q == loc[p].qty - loc[p].want
    <3>1. s \in Sku /\ pc[p] = "short" /\ loc[p].want \in 0..loc[p].qty
      BY <2>0, <2>4 DEF Short, At, LocalsOK
    <3>2. loc[p].qty \in Nat
      BY <2>0 DEF Locals
    <3>3. q \in Nat
      BY <3>1, <3>2
    <3>4. PICK b \in Fresh : Owes(s, b, q)
      BY <2>4 DEF Short, Owes
    <3>5. b \in Hold
      BY DEF Fresh
    <3> HIDE DEF s, q
    <3> QED
      BY <3>1, <3>3, <3>4, <3>5 DEF Effect, PartlyHolds
  <2>5. CASE ReadOnHand(p) \/ PutOnHand(p) \/ Scan(p) \/ CheckCandidate(p)
    BY <2>5 DEF ReadOnHand, PutOnHand, Scan, CheckCandidate, Effect, Quiet
  <2>6. CASE EvictNothing(p) \/ Unindex(p) \/ Uncache(p) \/ SweepDone(p)
    BY <2>6 DEF EvictNothing, Unindex, Uncache, SweepDone, Effect, Quiet
  <2>7. CASE InsufficientStock(p) \/ IndexHold(p) \/ MirrorHold(p)
    BY <2>7 DEF InsufficientStock, IndexHold, MirrorHold, Effect, Quiet
  <2>8. CASE Peek(p) \/ Pick(p) \/ NothingToPick(p)
    BY <2>8 DEF Peek, Pick, NothingToPick, Effect, Quiet
  <2> QED
    BY <1>3, <2>1, <2>2, <2>3, <2>4, <2>5, <2>6, <2>7, <2>8 DEF Step
<1> QED
  BY <1>1, <1>2, <1>3 DEF Next

-----------------------------------------------------------------------------
(* Replaying the log gives the live state, if no backorder is ever filled. *)

NoFill == \A p \in Caller : pc[p] \notin {"pick", "fill"}

ReplayInv == TypeOK /\ NoFill /\ ReplayMatchesLive

LEMMA NoFillNext ==
  ASSUME TypeOK, NoFill, [Next]_vars, "fulfill_backorders" \notin Calls
  PROVE  NoFill'
<1> SUFFICES ASSUME NEW q \in Caller
             PROVE  pc'[q] \notin {"pick", "fill"}
  BY DEF NoFill
<1>0. pc \in [Caller -> Labels] /\ pc[q] \notin {"pick", "fill"}
  BY DEF TypeOK, NoFill
<1>1. CASE Tick \/ UNCHANGED vars
  BY <1>0, <1>1 DEF Tick, vars
<1>2. ASSUME NEW p \in Caller, Begin(p)
      PROVE  pc'[q] \notin {"pick", "fill"}
  BY <1>0, <1>2 DEF Begin, Receive, ReturnStock, AddToStock, StartSweep,
     StartFulfill, Confirm, Release, Goto
<1>3. ASSUME NEW p \in Caller, Step(p)
      PROVE  pc'[q] \notin {"pick", "fill"}
  <2>1. pc[p] \notin {"pick", "fill"}
    BY DEF NoFill
  <2>2. CASE ReadOnHand(p) \/ PutOnHand(p) \/ Scan(p) \/ CheckCandidate(p)
    BY <1>0, <2>2 DEF ReadOnHand, PutOnHand, Scan, CheckCandidate, Finish, Goto
  <2>3. CASE Evict(p) \/ EvictNothing(p) \/ Unindex(p) \/ Uncache(p) \/ SweepDone(p)
    BY <1>0, <2>3 DEF Evict, EvictNothing, Unindex, Uncache, SweepDone, Resume,
       Finish, Goto
  <2>4. CASE Alloc(p) \/ InsufficientStock(p) \/ IndexHold(p) \/ MirrorHold(p)
    BY <1>0, <2>4 DEF Alloc, InsufficientStock, IndexHold, MirrorHold, Finish, Goto
  <2>5. CASE Peek(p) \/ Place(p) \/ Short(p)
    BY <1>0, <2>5 DEF Peek, Place, Short, Finish, Goto
  <2>6. ~(Pick(p) \/ Fill(p) \/ NothingToPick(p))
    BY <2>1 DEF Pick, Fill, NothingToPick, At
  <2> QED
    BY <1>3, <2>2, <2>3, <2>4, <2>5, <2>6 DEF Step
<1> QED
  BY <1>1, <1>2, <1>3 DEF Next

LEMMA EffectReplays ==
  ASSUME TypeOK, ReplayMatchesLive, Effect
  PROVE  ReplayMatchesLive'
<1> SUFFICES ASSUME ~Quiet
             PROVE  ReplayMatchesLive'
  BY DEF Quiet, ReplayMatchesLive
<1>1. PICK s \in Sku : \E st, ev : Record(s, st, ev) /\ Project(live[s], ev) = st
  <2>1. \A s \in Sku : live[s] \in SkuStates
    BY DEF TypeOK
  <2>2. ASSUME NEW s \in Sku, NEW q \in Qty, Restocks(s, q)
        PROVE  \E st, ev : Record(s, st, ev) /\ Project(live[s], ev) = st
    <3>1. q \in Nat
      BY ConstantsAssumption
    <3> QED
      BY <2>1, <2>2, <3>1, ProjectStock DEF Restocks
  <2>3. ASSUME NEW s \in Sku, NEW h \in Hold, Drops(s, h) \/ Commits(s, h)
        PROVE  \E st, ev : Record(s, st, ev) /\ Project(live[s], ev) = st
    <3>1. 0 \in Nat
      OBVIOUS
    <3>2. /\ Project(live[s], Released(h)) = DropHold(live[s], h)
          /\ Present(live[s].holds, h)
               => Project(live[s], Captured(h)) = CommitHold(live[s], h)
      BY <2>1, <3>1, ProjectEvents
    <3> QED
      BY <2>3, <3>2 DEF Drops, Commits
  <2>4. ASSUME NEW s \in Sku, NEW h \in Hold, NEW q \in Nat, Holds(s, h, q) \/ Owes(s, h, q)
        PROVE  \E st, ev : Record(s, st, ev) /\ Project(live[s], ev) = st
    BY <2>1, <2>4, ProjectEvents DEF Holds, Owes
  <2>5. Qty \subseteq Nat
    BY ConstantsAssumption
  <2> QED
    BY <2>2, <2>3, <2>4, <2>5 DEF Effect, ReserveHolds, PartlyHolds
<1>2. PICK st, ev : Record(s, st, ev) /\ Project(live[s], ev) = st
  BY <1>1
<1> QED
  BY <1>2 DEF TypeOK, ReplayMatchesLive, Record

\* Rebuilding the read model from the log gives the live state, after any
\* interleaving of stock arrivals, reservations, placed backorders, sweeps,
\* confirms and releases: rebuild_read_models() can only drift through the
\* filling of a backorder.
THEOREM ReplayNeverDrifts ==
  ASSUME "fulfill_backorders" \notin Calls
  PROVE  Spec => []ReplayMatchesLive
<1>1. Init => ReplayInv
  <2> SUFFICES ASSUME Init
               PROVE  ReplayInv
    OBVIOUS
  <2>1. NoFill /\ ReplayMatchesLive
    BY DEF Init, NoFill, ReplayMatchesLive
  <2> QED
    BY <2>1, InitType DEF ReplayInv
<1>2. ReplayInv /\ [Next]_vars => ReplayInv'
  <2> SUFFICES ASSUME ReplayInv, [Next]_vars
               PROVE  ReplayInv'
    OBVIOUS
  <2> TypeOK /\ NoFill /\ ReplayMatchesLive
    BY DEF ReplayInv
  <2>1. TypeOK'
    BY NextType
  <2>2. NoFill'
    BY NoFillNext
  <2>3. \A p \in Caller : ~Fill(p)
    BY DEF NoFill, Fill, At
  <2>4. ReplayMatchesLive'
    BY <2>3, StepEffect, EffectReplays
  <2> QED
    BY <2>1, <2>2, <2>4 DEF ReplayInv
<1>3. ReplayInv => ReplayMatchesLive
  BY DEF ReplayInv
<1> QED
  BY <1>1, <1>2, <1>3, PTL DEF Spec

-----------------------------------------------------------------------------
(* No unit is allocated twice, if orders are reserved whole.               *)

\* No caller is in reserve_or_backorder() or fulfill_backorders().
WholeOnly ==
  \A p \in Caller : /\ pc[p] \notin {"peek", "place", "short", "pick", "fill"}
                    /\ loc[p].op # "reserve_or_backorder"

\* A hold identity is in use only once it has been drawn.
HoldsIssued ==
  \A s \in Sku, h \in Hold : Present(live[s].holds, h) => h \in issued

OversellInv == TypeOK /\ WholeOnly /\ HoldsIssued /\ NoOversell

LEMMA WholeOnlyNext ==
  ASSUME TypeOK, WholeOnly, [Next]_vars,
         Calls \cap {"reserve_or_backorder", "fulfill_backorders"} = {}
  PROVE  WholeOnly'
<1> DEFINE Apart(q) == /\ pc'[q] \notin {"peek", "place", "short", "pick", "fill"}
                       /\ loc'[q].op # "reserve_or_backorder"
<1> SUFFICES ASSUME NEW q \in Caller
             PROVE  Apart(q)
  BY DEF WholeOnly
<1>0. /\ pc \in [Caller -> Labels] /\ loc \in [Caller -> Locals]
      /\ pc[q] \notin {"peek", "place", "short", "pick", "fill"}
      /\ loc[q].op # "reserve_or_backorder"
      /\ loc[q] \in Locals
  BY DEF TypeOK, WholeOnly
<1>1. CASE Tick \/ UNCHANGED vars
  BY <1>0, <1>1 DEF Tick, vars
<1>2. ASSUME NEW p \in Caller, Begin(p)
      PROVE  Apart(q)
  <2>1. CASE \E s \in Sku, n \in Qty : Receive(p, s, n) \/ ReturnStock(p, s, n)
    <3>1. PICK op \in {"receive", "return_stock"}, s \in Sku :
            \/ Goto(p, "read") /\ Set(p, [NoCall EXCEPT !.op = op, !.sku = s])
            \/ UNCHANGED <<pc, loc>>
      BY <2>1 DEF Receive, ReturnStock, AddToStock
    <3>2. [NoCall EXCEPT !.op = op, !.sku = s].op = op
      BY DEF NoCall
    <3> QED
      BY <1>0, <3>1, <3>2 DEF Goto, Set
  <2>2. CASE \E op, s, n, t : StartSweep(p, op, s, n, t)
    <3>1. PICK op, s, n, t : StartSweep(p, op, s, n, t)
      BY <2>2
    <3>2. op # "reserve_or_backorder"
      BY <3>1 DEF StartSweep
    <3> DEFINE r == [NoCall EXCEPT !.op = op, !.sku = s, !.qty = n, !.ttl = t,
                                   !.todo = Sku, !.due = DueHolds]
    <3>3. r.op = op
      BY DEF NoCall
    <3>4. Goto(p, "scan") /\ Set(p, r)
      BY <3>1 DEF StartSweep
    <3> HIDE DEF r
    <3> QED
      BY <1>0, <3>2, <3>3, <3>4 DEF Goto, Set
  <2>3. CASE \E s \in Sku, h \in Hold : Confirm(p, s, h) \/ Release(p, s, h)
    <3>1. PICK op \in {"confirm", "release"}, s \in Sku, h \in Hold :
            Goto(p, "unindex") /\ Set(p, [NoCall EXCEPT !.op = op, !.victim = <<s, h>>])
      BY <2>3 DEF Confirm, Release
    <3>2. [NoCall EXCEPT !.op = op, !.victim = <<s, h>>].op = op
      BY DEF NoCall
    <3> QED
      BY <1>0, <3>1, <3>2 DEF Goto, Set
  <2>4. ~StartFulfill(p)
    BY DEF StartFulfill
  <2> QED
    BY <1>2, <2>1, <2>2, <2>3, <2>4 DEF Begin
<1>3. ASSUME NEW p \in Caller, Step(p)
      PROVE  Apart(q)
  <2>0. /\ pc[p] \notin {"peek", "place", "short", "pick", "fill"}
        /\ loc[p].op # "reserve_or_backorder"
        /\ loc[p] \in Locals /\ LocalsOK(pc[p], loc[p])
    BY DEF TypeOK, WholeOnly
  <2> DEFINE Keeps(r) == r.op \in {loc[p].op, "none"}
             Clear == {"idle", "put", "scan", "sweep", "evict", "unindex",
                       "uncache", "alloc", "index", "mirror"}
  <2>1. \A x : LET r == loc[p] IN
          /\ Keeps([r EXCEPT !.want = x]) /\ Keeps([r EXCEPT !.victim = x])
          /\ Keeps([r EXCEPT !.expires = x]) /\ Keeps([r EXCEPT !.hold = x])
          /\ Keeps([r EXCEPT !.cand = x]) /\ Keeps(r) /\ Keeps(NoCall)
    BY <2>0 DEF Locals, NoCall
  <2>2. \A x, y : /\ Keeps([loc[p] EXCEPT !.todo = x, !.cand = y])
                  /\ Keeps([loc[p] EXCEPT !.cand = x, !.victim = y])
    BY <2>0 DEF Locals
  <2>3. \E l \in Clear : \E r :
          Keeps(r) /\ pc' = [pc EXCEPT ![p] = l] /\ loc' = [loc EXCEPT ![p] = r]
    <3> HIDE DEF Keeps
    <3>0. pc = [pc EXCEPT ![p] = pc[p]] /\ loc = [loc EXCEPT ![p] = loc[p]]
      BY <1>0
    <3>1. CASE ReadOnHand(p) \/ PutOnHand(p)
      BY <2>1, <3>1 DEF ReadOnHand, PutOnHand, Finish, Goto, Set
    <3>2. CASE Scan(p)
      BY <2>2, <3>2 DEF Scan, Goto, Set
    <3>3. CASE CheckCandidate(p)
      <4>1. pc[p] = "sweep"
        BY <3>3 DEF CheckCandidate, At
      <4>2. PICK c \in loc[p].cand :
              \/ /\ Set(p, [loc[p] EXCEPT !.cand = @ \ {c}, !.victim = c])
                 /\ Goto(p, "evict")
              \/ /\ Set(p, [loc[p] EXCEPT !.cand = @ \ {c}])
                 /\ UNCHANGED pc
        BY <3>3 DEF CheckCandidate
      <4>3. CASE /\ Set(p, [loc[p] EXCEPT !.cand = @ \ {c}, !.victim = c])
                 /\ Goto(p, "evict")
        BY <2>2, <4>3 DEF Goto, Set
      <4>4. CASE /\ Set(p, [loc[p] EXCEPT !.cand = @ \ {c}])
                 /\ UNCHANGED pc
        <5> DEFINE d == loc[p].cand \ {c}
        <5>1. Keeps([loc[p] EXCEPT !.cand = d])
          <6> HIDE DEF d
          <6> QED
            BY <2>1
        <5>2. pc' = [pc EXCEPT ![p] = "sweep"]
          BY <3>0, <4>1, <4>4
        <5> QED
          BY <4>4, <5>1, <5>2 DEF Set
      <4> QED
        BY <4>2, <4>3, <4>4
    <3>4. CASE Evict(p) \/ EvictNothing(p)
      BY <2>1, <3>0, <3>4 DEF Evict, EvictNothing, Goto, Set
    <3>5. CASE Unindex(p) \/ Uncache(p)
      BY <2>1, <3>0, <3>5 DEF Unindex, Uncache, Resume, Finish, Goto, Set
    <3>6. CASE SweepDone(p)
      <4>1. loc[p].op \in {"reserve", "sweep_expired"}
        BY <2>0, <3>6 DEF SweepDone, At, LocalsOK, Sweeping
      <4> QED
        BY <2>1, <3>6, <4>1 DEF SweepDone, Finish, Goto, Set
    <3>7. CASE Alloc(p) \/ InsufficientStock(p)
      BY <2>1, <3>7 DEF Alloc, InsufficientStock, Finish, Goto, Set
    <3>8. CASE IndexHold(p) \/ MirrorHold(p)
      BY <2>1, <3>0, <3>8 DEF IndexHold, MirrorHold, Finish, Goto, Set
    <3>9. ~(Peek(p) \/ Place(p) \/ Short(p) \/ Pick(p) \/ Fill(p) \/ NothingToPick(p))
      BY <2>0 DEF Peek, Place, Short, Pick, Fill, NothingToPick, At
    <3> QED
      BY <1>3, <3>1, <3>2, <3>3, <3>4, <3>5, <3>6, <3>7, <3>8, <3>9 DEF Step
  <2> QED
    BY <1>0, <2>0, <2>3
<1> QED
  BY <1>1, <1>2, <1>3 DEF Next

LEMMA EffectKeepsStock ==
  ASSUME OversellInv, Effect
  PROVE  HoldsIssued' /\ NoOversell'
<1> TypeOK /\ WholeOnly /\ HoldsIssued /\ NoOversell
  BY DEF OversellInv
<1>0. /\ live \in [Sku -> SkuStates] /\ replayed \in [Sku -> SkuStates]
      /\ \A s \in Sku : live[s] \in SkuStates /\ live[s].holds \in QtyMap
      /\ \A s \in Sku : Available(live[s]) \in Int
  <2>1. live \in [Sku -> SkuStates] /\ replayed \in [Sku -> SkuStates]
    BY DEF TypeOK
  <2>2. \A s \in Sku : live[s] \in SkuStates /\ live[s].holds \in QtyMap
    BY <2>1 DEF SkuStates
  <2>3. \A s \in Sku : Available(live[s]) \in Int
    <3> TAKE s \in Sku
    <3>1. Held(live[s].holds) \in Nat
      BY <2>2, HeldNat
    <3> QED
      BY <2>2, <3>1 DEF Available, SkuStates
  <2> QED
    BY <2>1, <2>2, <2>3
\* a step that records a state no poorer than it must be
<1>a. ASSUME NEW s \in Sku, NEW st \in SkuStates, NEW ev, Record(s, st, ev),
             Available(st) >= 0, issued \subseteq issued',
             \A h \in Hold : Present(st.holds, h) => h \in issued'
      PROVE  HoldsIssued' /\ NoOversell'
  BY <1>0, <1>a DEF HoldsIssued, NoOversell, Record
<1>1. CASE Quiet
  BY <1>1 DEF Quiet, HoldsIssued, NoOversell
<1>2. ASSUME NEW s \in Sku, NEW q \in Qty, Restocks(s, q)
      PROVE  HoldsIssued' /\ NoOversell'
  <2>1. q \in Nat
    BY ConstantsAssumption
  <2>2. /\ AddStock(live[s], q) \in SkuStates
        /\ Available(AddStock(live[s], q)) = Available(live[s]) + q
    BY <1>0, <2>1, AddStockState
  <2>3. AddStock(live[s], q).holds = live[s].holds
    BY <1>0 DEF AddStock, SkuStates
  <2>4. Available(AddStock(live[s], q)) >= 0
    BY <1>0, <2>1, <2>2 DEF NoOversell
  <2>5. \A h \in Hold : Present(live[s].holds, h) => h \in issued'
    BY <1>2 DEF HoldsIssued, Restocks
  <2> QED
    BY <1>2, <1>a, <2>2, <2>3, <2>4, <2>5 DEF Restocks
<1>3. ASSUME NEW s \in Sku, NEW h \in Hold, Drops(s, h)
      PROVE  HoldsIssued' /\ NoOversell'
  <2> DEFINE st == DropHold(live[s], h)
  <2>1. st \in SkuStates /\ Available(st) = Available(live[s]) + live[s].holds[h]
    BY <1>0, DropHoldState
  <2>2. live[s].holds[h] \in Nat
    BY <1>0 DEF QtyMap
  <2>3. \A k \in Hold : Present(st.holds, k) => Present(live[s].holds, k)
    BY <1>0 DEF DropHold, SkuStates, QtyMap, Present
  <2> HIDE DEF st
  <2>4. Available(st) >= 0
    BY <1>0, <2>1, <2>2 DEF NoOversell
  <2>5. \A k \in Hold : Present(st.holds, k) => k \in issued'
    BY <1>3, <2>3 DEF HoldsIssued, Drops
  <2> QED
    BY <1>3, <1>a, <2>1, <2>4, <2>5 DEF Drops, st
<1>4. ASSUME NEW s \in Sku, NEW h \in Hold, Commits(s, h)
      PROVE  HoldsIssued' /\ NoOversell'
  <2> DEFINE st == CommitHold(live[s], h)
  <2>1. st \in SkuStates /\ Available(st) = Available(live[s])
    BY <1>0, CommitHoldState
  <2>2. st.holds = [live[s].holds EXCEPT ![h] = 0]
    BY <1>0 DEF CommitHold, SkuStates
  <2>3. \A k \in Hold : Present(st.holds, k) => Present(live[s].holds, k)
    BY <1>0, <2>2 DEF QtyMap, Present
  <2> HIDE DEF st
  <2>4. Available(st) >= 0
    BY <1>0, <2>1 DEF NoOversell
  <2>5. \A k \in Hold : Present(st.holds, k) => k \in issued'
    BY <1>4, <2>3 DEF HoldsIssued, Commits
  <2> QED
    BY <1>4, <1>a, <2>1, <2>4, <2>5 DEF Commits, st
<1>5. ASSUME NEW s \in Sku, NEW h \in Hold, NEW q \in Qty,
             Available(live[s]) >= q, Holds(s, h, q)
      PROVE  HoldsIssued' /\ NoOversell'
  <2> DEFINE st == PutHold(live[s], h, q)
  <2>1. q \in Nat
    BY ConstantsAssumption
  <2>2. st \in SkuStates /\ Available(st) = Available(live[s]) + live[s].holds[h] - q
    BY <1>0, <2>1, PutHoldState
  <2>3. live[s].holds[h] \in Nat
    BY <1>0 DEF QtyMap
  <2>4. \A k \in Hold : Present(st.holds, k) => k = h \/ Present(live[s].holds, k)
    BY <1>0 DEF PutHold, SkuStates, QtyMap, Present
  <2> HIDE DEF st
  <2>5. Available(st) >= 0
    BY <1>0, <1>5, <2>1, <2>2, <2>3
  <2>6. \A k \in Hold : Present(st.holds, k) => k \in issued'
    BY <1>5, <2>4 DEF HoldsIssued, Holds
  <2> QED
    BY <1>5, <1>a, <2>2, <2>5, <2>6 DEF Holds, st
<1>6. ~ \E p \in Caller : pc[p] \in {"place", "short"}
  BY DEF WholeOnly
<1> QED
  BY <1>1, <1>2, <1>3, <1>4, <1>5, <1>6 DEF Effect, ReserveHolds

LEMMA OversellInit ==
  ASSUME Init
  PROVE  OversellInv
<1>1. WholeOnly
  BY DEF Init, WholeOnly, NoCall
<1>2. HoldsIssued
  BY DEF Init, HoldsIssued, EmptySku, NoQty, Present
<1>3. NoOversell
  BY EmptySkuState DEF Init, NoOversell
<1> QED
  BY <1>1, <1>2, <1>3, InitType DEF OversellInv

LEMMA OversellNext ==
  ASSUME OversellInv, [Next]_vars,
         Calls \cap {"reserve_or_backorder", "fulfill_backorders"} = {}
  PROVE  OversellInv' /\ Effect
<1> TypeOK /\ WholeOnly
  BY DEF OversellInv
<1>1. TypeOK'
  BY NextType
<1>2. WholeOnly'
  BY WholeOnlyNext
<1>3. \A p \in Caller : ~Fill(p)
  BY DEF WholeOnly, Fill, At
<1>4. Effect
  BY <1>3, StepEffect
<1>5. HoldsIssued' /\ NoOversell'
  BY <1>4, EffectKeepsStock
<1> QED
  BY <1>1, <1>2, <1>4, <1>5 DEF OversellInv

\* reserve(), confirm(), release() and the sweeps never allocate a unit twice,
\* whatever their interleaving and however the cache fails: only
\* reserve_or_backorder() and fulfill_backorders() can.
THEOREM NeverOversells ==
  ASSUME Calls \cap {"reserve_or_backorder", "fulfill_backorders"} = {}
  PROVE  Spec => []NoOversell
<1>1. Init => OversellInv
  BY OversellInit
<1>2. OversellInv /\ [Next]_vars => OversellInv'
  BY OversellNext
<1>3. OversellInv => NoOversell
  BY DEF OversellInv
<1> QED
  BY <1>1, <1>2, <1>3, PTL DEF Spec

-----------------------------------------------------------------------------
(* The engine implements the stock pool, under the same use of its calls.  *)

free == [s \in Sku |-> Available(live[s])]
promised == [s \in Sku |-> live[s].holds]
shipped == [s \in Sku |-> live[s].committed]

\* What the recorded change of one SKU does to the mapped variables.
LEMMA PoolWrite ==
  ASSUME TypeOK, NEW s \in Sku, NEW st \in SkuStates, NEW ev, Record(s, st, ev)
  PROVE  /\ free' = [free EXCEPT ![s] = Available(st)]
         /\ promised' = [promised EXCEPT ![s] = st.holds]
         /\ shipped' = [shipped EXCEPT ![s] = st.committed]
BY DEF TypeOK, Record, free, promised, shipped

LEMMA PoolUpdate ==
  ASSUME TypeOK, NEW s \in Sku, NEW st \in SkuStates, NEW ev, Record(s, st, ev)
  PROVE  /\ \A n : Available(st) = free[s] + n => free' = [free EXCEPT ![s] = @ + n]
         /\ Available(st) = free[s] => free' = free
         /\ \A h, q : st.holds = [promised[s] EXCEPT ![h] = q]
                        => promised' = [promised EXCEPT ![s][h] = q]
         /\ st.holds = promised[s] => promised' = promised
         /\ \A n : st.committed = shipped[s] + n => shipped' = [shipped EXCEPT ![s] = @ + n]
         /\ st.committed = shipped[s] => shipped' = shipped
<1>1. /\ free' = [free EXCEPT ![s] = Available(st)]
      /\ promised' = [promised EXCEPT ![s] = st.holds]
      /\ shipped' = [shipped EXCEPT ![s] = st.committed]
  BY PoolWrite
<1>2. /\ free = [free EXCEPT ![s] = free[s]]
      /\ promised = [promised EXCEPT ![s] = promised[s]]
      /\ shipped = [shipped EXCEPT ![s] = shipped[s]]
  BY DEF free, promised, shipped
<1> QED
  BY <1>1, <1>2

LEMMA EffectInPool ==
  ASSUME OversellInv, Effect
  PROVE  [Pool!Next]_Pool!poolVars
<1> TypeOK /\ WholeOnly /\ HoldsIssued
  BY DEF OversellInv
<1>0. /\ \A s \in Sku : live[s] \in SkuStates
      /\ \A s \in Sku, h \in Hold : live[s].holds[h] \in Nat
      /\ \A s \in Sku : free[s] = Available(live[s]) /\ promised[s] = live[s].holds
                        /\ shipped[s] = live[s].committed
  BY DEF TypeOK, SkuStates, QtyMap, free, promised, shipped
<1>av. ASSUME NEW s \in Sku
       PROVE  Available(live[s]) \in Int /\ live[s].committed \in Int
  <2>1. live[s].holds \in QtyMap
    BY <1>0 DEF SkuStates
  <2>2. Held(live[s].holds) \in Nat
    BY <2>1, HeldNat
  <2> QED
    BY <1>0, <2>2 DEF Available, SkuStates
<1>1. CASE Quiet
  BY <1>1 DEF Quiet, Pool!poolVars
<1>2. ASSUME NEW s \in Sku, NEW q \in Qty, Restocks(s, q)
      PROVE  Pool!Replenish(s, q)
  <2> DEFINE st == AddStock(live[s], q)
  <2>1. q \in Nat
    BY ConstantsAssumption
  <2>2. st \in SkuStates /\ Available(st) = Available(live[s]) + q
    BY <1>0, <2>1, AddStockState
  <2>3. st.holds = live[s].holds /\ st.committed = live[s].committed
    BY <1>0 DEF AddStock, SkuStates
  <2>4. PICK ev : Record(s, st, ev)
    BY <1>2 DEF Restocks
  <2> HIDE DEF st
  <2>5. /\ free' = [free EXCEPT ![s] = @ + q]
        /\ promised' = promised /\ shipped' = shipped
    BY <1>0, <2>2, <2>3, <2>4, PoolUpdate
  <2> QED
    BY <1>2, <2>5 DEF Pool!Replenish, Restocks, free, promised, shipped
<1>3. ASSUME NEW s \in Sku, NEW h \in Hold, Drops(s, h)
      PROVE  Pool!Cancel(s, h)
  <2> DEFINE st == DropHold(live[s], h)
  <2>1. st \in SkuStates /\ Available(st) = Available(live[s]) + live[s].holds[h]
    BY <1>0, DropHoldState
  <2>2. st.holds = [live[s].holds EXCEPT ![h] = 0] /\ st.committed = live[s].committed
    BY <1>0 DEF DropHold, SkuStates
  <2>3. Record(s, st, Released(h))
    BY <1>3 DEF Drops
  <2> HIDE DEF st
  <2>4. /\ free' = [free EXCEPT ![s] = @ + promised[s][h]]
        /\ promised' = [promised EXCEPT ![s][h] = 0]
        /\ shipped' = shipped
    BY <1>0, <2>1, <2>2, <2>3, PoolUpdate
  <2>5. promised[s][h] > 0
    BY <1>0, <1>3 DEF Drops, Present
  <2> QED
    BY <1>3, <2>4, <2>5 DEF Pool!Cancel, Drops, free, promised, shipped
<1>4. ASSUME NEW s \in Sku, NEW h \in Hold, Commits(s, h)
      PROVE  Pool!Ship(s, h)
  <2> DEFINE st == CommitHold(live[s], h)
  <2>1. st \in SkuStates /\ Available(st) = Available(live[s])
    BY <1>0, CommitHoldState
  <2>2. /\ st.holds = [live[s].holds EXCEPT ![h] = 0]
        /\ st.committed = live[s].committed + live[s].holds[h]
    BY <1>0 DEF CommitHold, SkuStates
  <2>3. Record(s, st, Captured(h))
    BY <1>4 DEF Commits
  <2> HIDE DEF st
  <2>4. /\ free' = free
        /\ promised' = [promised EXCEPT ![s][h] = 0]
        /\ shipped' = [shipped EXCEPT ![s] = @ + promised[s][h]]
    BY <1>0, <2>1, <2>2, <2>3, PoolUpdate
  <2>5. promised[s][h] > 0
    BY <1>0, <1>4 DEF Commits, Present
  <2> QED
    BY <1>4, <2>4, <2>5 DEF Pool!Ship, Commits, free, promised, shipped
<1>5. ASSUME NEW s \in Sku, NEW h \in Hold, NEW q \in Qty,
             Available(live[s]) >= q, Holds(s, h, q)
      PROVE  Pool!Promise(s, h, q)
  <2> DEFINE st == PutHold(live[s], h, q)
  <2>1. q \in Nat
    BY ConstantsAssumption
  <2>2. live[s].holds[h] = 0
    \* a fresh identity names no hold yet
    BY <1>0, <1>5 DEF Holds, Fresh, HoldsIssued, Present
  <2>3. st \in SkuStates /\ Available(st) = Available(live[s]) + live[s].holds[h] - q
    BY <1>0, <2>1, PutHoldState
  <2>4. Available(st) = free[s] - q
    BY <1>0, <1>av, <2>1, <2>2, <2>3
  <2>5. st.holds = [live[s].holds EXCEPT ![h] = q] /\ st.committed = live[s].committed
    BY <1>0 DEF PutHold, SkuStates
  <2>6. Record(s, st, HoldPlaced(h, q))
    BY <1>5 DEF Holds
  <2> HIDE DEF st
  <2>7. /\ free' = [free EXCEPT ![s] = @ - q]
        /\ promised' = [promised EXCEPT ![s][h] = q]
        /\ shipped' = shipped
    <3>1. st.holds = [promised[s] EXCEPT ![h] = q] /\ st.committed = shipped[s]
      BY <1>0, <2>5
    <3>2. st \in SkuStates
      BY <2>3
    <3>3. free' = [free EXCEPT ![s] = @ - q]
      <4>1. free' = [free EXCEPT ![s] = Available(st)]
        BY <2>6, <3>2, PoolWrite
      <4> QED
        BY <2>4, <4>1
    <3>4. promised' = [promised EXCEPT ![s][h] = q]
      <4>1. promised' = [promised EXCEPT ![s] = st.holds]
        BY <2>6, <3>2, PoolWrite
      <4> QED
        BY <3>1, <4>1
    <3>5. shipped' = shipped
      BY <2>6, <3>1, <3>2, PoolUpdate
    <3> QED
      BY <3>3, <3>4, <3>5
  <2>8. q <= free[s]
    BY <1>0, <1>5, <1>av, <2>1
  <2>9. h \notin issued /\ issued' = issued \cup {h}
    BY <1>5 DEF Holds, Fresh
  <2> QED
    BY <2>7, <2>8, <2>9 DEF Pool!Promise, free, promised, shipped
<1>6. ~ \E p \in Caller : pc[p] \in {"place", "short"}
  BY DEF WholeOnly
<1> QED
  BY <1>1, <1>2, <1>3, <1>4, <1>5, <1>6 DEF Effect, ReserveHolds, Pool!Next

\* With reserve(), confirm(), release() and sweeps only, the engine is a stock
\* pool: locks, clocks, caches and half-finished sweeps do not show in what it
\* promises and ships.
THEOREM EngineIsStockPool ==
  ASSUME Calls \cap {"reserve_or_backorder", "fulfill_backorders"} = {}
  PROVE  Spec => PoolRefinement
<1>1. Init => OversellInv /\ Pool!Init
  <2>1. Init => Pool!Init
    BY EmptySkuState DEF Init, Pool!Init, EmptySku, NoQty
  <2> QED
    BY <2>1, OversellInit
<1>2. OversellInv /\ [Next]_vars => OversellInv' /\ [Pool!Next]_Pool!poolVars
  <2> SUFFICES ASSUME OversellInv, [Next]_vars
               PROVE  OversellInv' /\ [Pool!Next]_Pool!poolVars
    OBVIOUS
  <2>1. OversellInv' /\ Effect
    BY OversellNext
  <2> QED
    BY <2>1, EffectInPool
<1> QED
  BY <1>1, <1>2, PTL DEF Spec, PoolRefinement, Pool!Spec

-----------------------------------------------------------------------------
(***************************************************************************)
(* The life of a hold: the deadline promised with it, its expiry-index     *)
(* entry, its cache entry, and the sweeps that may take it away.           *)
(***************************************************************************)

(* What a step does to the holds and to the one caller that takes it.      *)

\* The active holds of each SKU.
Active == [s \in Sku |-> Keys(live[s].holds)]

\* A caller that has placed a hold and has not yet entered it in the index.
Indexing(p) == pc[p] = "index" \/ (pc[p] = "short" /\ loc[p].want > 0)

Calm == /\ UNCHANGED <<now, Active, expiresAt, expiryIndex, cachedHold>>
        /\ issued \subseteq issued' /\ issued' \subseteq Hold

Enters(s, h, d) ==
  /\ h \in Fresh /\ issued' = issued \cup {h}
  /\ Active' = [Active EXCEPT ![s] = @ \cup {h}]
  /\ expiresAt' = [expiresAt EXCEPT ![h] = d]
  /\ UNCHANGED <<now, expiryIndex, cachedHold>>

Departs(s, h) ==
  /\ h \in Active[s]
  /\ Active' = [Active EXCEPT ![s] = @ \ {h}]
  /\ expiresAt' = [expiresAt EXCEPT ![h] = None]
  /\ UNCHANGED <<now, expiryIndex, cachedHold, issued>>

Waits == /\ UNCHANGED <<Active, expiresAt, expiryIndex, cachedHold, issued, pc, loc>>
         /\ now' \in Nat /\ now <= now'

\* The caller keeps what it knows of the hold it works on.
SameHold(p) ==
  /\ loc'[p].hold = loc[p].hold /\ loc'[p].expires = loc[p].expires
  /\ loc'[p].ttl = loc[p].ttl /\ loc'[p].due = loc[p].due

\* A step of a call, or of its start or end, that no hold is involved in.
Aside(p) ==
  /\ Calm /\ ~Indexing(p) /\ pc[p] \notin {"unindex", "uncache", "mirror"}
  /\ pc'[p] \in {"idle", "read", "put", "pick", "fill"}
  /\ loc'[p].due \subseteq loc[p].due

Fills(p) ==
  /\ pc[p] = "fill" /\ pc'[p] = "pick" /\ loc'[p].due = loc[p].due
  /\ \E s \in Sku, h \in Fresh :
       /\ \/ Active' = [Active EXCEPT ![s] = @ \cup {h}]
          \/ Active' = [Active EXCEPT ![s] = @ \ {h}]
       /\ expiresAt' = [expiresAt EXCEPT ![h] = FarFuture]
       /\ issued' = issued \cup {h}
  /\ UNCHANGED <<now, expiryIndex, cachedHold>>

Starts(p) ==
  /\ Calm /\ pc[p] = "idle" /\ pc'[p] = "scan"
  /\ loc'[p].todo = Sku /\ loc'[p].due = DueHolds

Scans(p) ==
  /\ Calm /\ pc[p] = "scan" /\ SameHold(p)
  /\ \E s \in loc[p].todo :
       /\ loc'[p].todo = loc[p].todo \ {s}
       /\ loc'[p].cand = loc[p].cand \cup ({s} \X Active[s])
       /\ pc'[p] = IF loc[p].todo = {s} THEN "sweep" ELSE "scan"

Tests(p) ==
  /\ Calm /\ pc[p] = "sweep" /\ SameHold(p)
  /\ \E c \in loc[p].cand : \E expired \in ExpiredAnswers(c[2]) :
       /\ loc'[p].cand = loc[p].cand \ {c}
       /\ IF expired THEN pc'[p] = "evict" /\ loc'[p].victim = c
                     ELSE pc'[p] = "sweep"

Skips(p) ==
  /\ Calm /\ pc[p] = "evict" /\ pc'[p] = "sweep" /\ SameHold(p)
  /\ loc[p].victim[2] \notin Active[loc[p].victim[1]]
  /\ loc'[p].cand = loc[p].cand

Decides(p) ==
  /\ Calm /\ pc[p] = "sweep" /\ loc[p].cand = {} /\ pc'[p] \in {"alloc", "peek"}
  /\ loc'[p].expires = now + loc'[p].ttl
  /\ loc'[p].ttl = loc[p].ttl /\ loc'[p].due = loc[p].due

Looks(p) ==
  /\ Calm /\ pc[p] = "peek" /\ SameHold(p)
  /\ pc'[p] = "place" \/ (pc'[p] = "short" /\ ~(loc'[p].want > 0))

Places(p) ==
  /\ pc[p] \in {"alloc", "place"} /\ pc'[p] \in {"short", "index"}
  /\ pc'[p] = "short" => loc'[p].want > 0
  /\ loc'[p].expires = loc[p].expires /\ loc'[p].ttl = loc[p].ttl
  /\ loc'[p].due = loc[p].due
  /\ \E s \in Sku : \E h \in Hold :
       Enters(s, h, loc[p].expires) /\ loc'[p].hold = h

Owed(p) ==
  /\ Calm /\ pc[p] = "short" /\ loc[p].want > 0 /\ pc'[p] = "index"
  /\ loc'[p] = loc[p]

Evicts(p) ==
  /\ pc[p] = "evict" /\ pc'[p] = "unindex" /\ loc'[p] = loc[p]
  /\ loc[p].victim[1] \in Sku /\ loc[p].victim[2] \in Hold
  /\ Departs(loc[p].victim[1], loc[p].victim[2])

Takes(p) ==
  /\ pc[p] = "idle" /\ pc'[p] = "unindex"
  /\ loc'[p].due = {}
  /\ \E s \in Sku : \E h \in Hold : loc'[p].victim = <<s, h>> /\ Departs(s, h)

Resumes(p) ==
  /\ pc'[p] \in {"sweep", "idle"} /\ loc'[p].due \subseteq loc[p].due
  /\ pc'[p] = "sweep" => loc'[p].cand = loc[p].cand

Unindexes(p) ==
  /\ pc[p] = "unindex" /\ loc[p].victim[2] \in Hold
  /\ expiryIndex' = [expiryIndex EXCEPT ![loc[p].victim[2]] = None]
  /\ UNCHANGED <<now, Active, expiresAt, cachedHold, issued>>
  /\ IF WithCache THEN pc'[p] = "uncache" /\ loc'[p] = loc[p] ELSE Resumes(p)

Uncaches(p) ==
  /\ pc[p] = "uncache" /\ Resumes(p) /\ loc[p].victim[2] \in Hold
  /\ \/ cachedHold' = [cachedHold EXCEPT ![loc[p].victim[2]] = None]
     \/ CacheFails /\ UNCHANGED cachedHold
  /\ UNCHANGED <<now, Active, expiresAt, expiryIndex, issued>>

Indexes(p) ==
  /\ pc[p] = "index" /\ loc[p].hold \in Hold
  /\ expiryIndex' = [expiryIndex EXCEPT ![loc[p].hold] = loc[p].expires]
  /\ UNCHANGED <<now, Active, expiresAt, cachedHold, issued>>
  /\ IF WithCache THEN pc'[p] = "mirror" /\ loc'[p] = loc[p]
                  ELSE pc'[p] = "idle" /\ loc'[p].due = {}

Mirrors(p) ==
  /\ pc[p] = "mirror" /\ pc'[p] = "idle" /\ loc'[p].due = {} /\ loc[p].hold \in Hold
  /\ \/ cachedHold' = [cachedHold EXCEPT ![loc[p].hold] = now + loc[p].ttl]
     \/ CacheFails /\ UNCHANGED cachedHold
  /\ UNCHANGED <<now, Active, expiresAt, expiryIndex, issued>>

Acts(p) ==
  \/ Aside(p) \/ Fills(p) \/ Starts(p) \/ Scans(p) \/ Tests(p) \/ Skips(p)
  \/ Decides(p) \/ Looks(p) \/ Places(p) \/ Owed(p) \/ Evicts(p) \/ Takes(p)
  \/ Unindexes(p) \/ Uncaches(p) \/ Indexes(p) \/ Mirrors(p)

\* A step is the clock's, or one caller's: the other callers rest.
Shape ==
  \/ Waits
  \/ \E p \in Caller : /\ Acts(p)
                       /\ \A q \in Caller \ {p} : pc'[q] = pc[q] /\ loc'[q] = loc[q]

-----------------------------------------------------------------------------
(* Every step has one of these shapes.                                     *)

\* The holds after one recorded change.
LEMMA ActiveRecord ==
  ASSUME TypeOK, NEW s \in Sku, NEW st, NEW ev, Record(s, st, ev)
  PROVE  Active' = [Active EXCEPT ![s] = Keys(st.holds)]
BY DEF TypeOK, Record, Active, Keys

LEMMA HoldsUpdate ==
  ASSUME NEW st \in SkuStates, NEW h \in Hold, NEW q \in Nat
  PROVE  /\ q > 0 => Keys([st.holds EXCEPT ![h] = q]) = Keys(st.holds) \cup {h}
         /\ q = 0 => Keys([st.holds EXCEPT ![h] = q]) = Keys(st.holds) \ {h}
<1>1. st.holds \in [Hold -> Nat]
  BY DEF SkuStates, QtyMap
<1> QED
  BY <1>1 DEF Keys, Present

LEMMA DroppedKeys ==
  ASSUME NEW st \in SkuStates, NEW h \in Hold
  PROVE  /\ Keys(DropHold(st, h).holds) = Keys(st.holds) \ {h}
         /\ Keys(CommitHold(st, h).holds) = Keys(st.holds) \ {h}
<1>1. /\ DropHold(st, h).holds = [st.holds EXCEPT ![h] = 0]
      /\ CommitHold(st, h).holds = [st.holds EXCEPT ![h] = 0]
  BY DEF SkuStates, DropHold, CommitHold
<1> QED
  BY <1>1, HoldsUpdate

LEMMA PutKeys ==
  ASSUME NEW st \in SkuStates, NEW h \in Hold, NEW q \in Nat, q > 0
  PROVE  Keys(PutHold(st, h, q).holds) = Keys(st.holds) \cup {h}
<1>1. PutHold(st, h, q).holds = [st.holds EXCEPT ![h] = q]
  BY DEF SkuStates, PutHold
<1> QED
  BY <1>1, HoldsUpdate

LEMMA PromotedKeys ==
  ASSUME NEW st \in SkuStates, NEW b, NEW h \in Hold, NEW q \in Nat
  PROVE  \/ Keys(PromoteBackorder(st, b, h, q).holds) = Keys(st.holds) \cup {h}
         \/ Keys(PromoteBackorder(st, b, h, q).holds) = Keys(st.holds) \ {h}
<1>1. PromoteBackorder(st, b, h, q).holds = [st.holds EXCEPT ![h] = q]
  BY DEF SkuStates, PromoteBackorder
<1>2. q > 0 \/ q = 0
  OBVIOUS
<1> QED
  BY <1>1, <1>2, HoldsUpdate

LEMMA SameKeys ==
  ASSUME NEW st \in SkuStates, NEW b, NEW q
  PROVE  /\ Keys(AddStock(st, q).holds) = Keys(st.holds)
         /\ Keys(PutBackorder(st, b, q).holds) = Keys(st.holds)
<1>1. /\ AddStock(st, q).holds = st.holds
      /\ PutBackorder(st, b, q).holds = st.holds
  BY DEF SkuStates, AddStock, PutBackorder
<1> QED
  BY <1>1

\* The fields each assignment to the locals leaves alone.
LEMMA AssignedFields ==
  ASSUME NEW r \in Locals, NEW x, NEW y
  PROVE  /\ LET n == [r EXCEPT !.want = x]
            IN /\ n.hold = r.hold /\ n.expires = r.expires /\ n.ttl = r.ttl
               /\ n.due = r.due /\ n.want = x
         /\ LET n == [r EXCEPT !.victim = x]
            IN /\ n.hold = r.hold /\ n.expires = r.expires /\ n.ttl = r.ttl
               /\ n.due = r.due /\ n.cand = r.cand /\ n.victim = x
         /\ LET n == [r EXCEPT !.hold = x]
            IN /\ n.expires = r.expires /\ n.ttl = r.ttl /\ n.due = r.due
               /\ n.hold = x /\ n.want = r.want
         /\ LET n == [r EXCEPT !.expires = x]
            IN n.ttl = r.ttl /\ n.due = r.due /\ n.expires = x
         /\ LET n == [r EXCEPT !.todo = x, !.cand = y]
            IN /\ n.hold = r.hold /\ n.expires = r.expires /\ n.ttl = r.ttl
               /\ n.due = r.due /\ n.todo = x /\ n.cand = y
BY DEF Locals

LEMMA AssignedFieldsToo ==
  ASSUME NEW r \in Locals, NEW x, NEW y
  PROVE  /\ LET n == [r EXCEPT !.cand = x]
            IN /\ n.hold = r.hold /\ n.expires = r.expires /\ n.ttl = r.ttl
               /\ n.due = r.due /\ n.cand = x
         /\ LET n == [r EXCEPT !.cand = x, !.victim = y]
            IN /\ n.hold = r.hold /\ n.expires = r.expires /\ n.ttl = r.ttl
               /\ n.due = r.due /\ n.cand = x /\ n.victim = y
         /\ [r EXCEPT !.sku = x, !.todo = y].due = r.due
         /\ [r EXCEPT !.bo = x, !.qty = y].due = r.due
         /\ \A z : [r EXCEPT !.bo = x, !.qty = y, !.got = z].due = r.due
BY DEF Locals

LEMMA NoCallFields ==
  ASSUME NEW x, NEW y, NEW z, NEW u, NEW v
  PROVE  /\ NoCall.due = {}
         /\ [NoCall EXCEPT !.op = x, !.sku = y].due = {}
         /\ [NoCall EXCEPT !.op = x, !.sku = y, !.todo = z].due = {}
         /\ LET n == [NoCall EXCEPT !.op = x, !.victim = y]
            IN n.due = {} /\ n.victim = y
         /\ LET n == [NoCall EXCEPT !.op = x, !.sku = y, !.qty = z, !.ttl = u,
                                    !.todo = Sku, !.due = v]
            IN n.todo = Sku /\ n.due = v
BY DEF NoCall

\* The caller a Goto or a Set names, and the others.
LEMMA MovesOne ==
  ASSUME TypeOK, NEW p \in Caller
  PROVE  /\ \A l : Goto(p, l) => /\ pc'[p] = l
                                 /\ \A q \in Caller \ {p} : pc'[q] = pc[q]
         /\ \A r : Set(p, r) => /\ loc'[p] = r
                                /\ \A q \in Caller \ {p} : loc'[q] = loc[q]
BY DEF TypeOK, Goto, Set

Others(p) == \A q \in Caller \ {p} : pc'[q] = pc[q] /\ loc'[q] = loc[q]

LEMMA FinishShape ==
  ASSUME TypeOK, NEW p \in Caller, Finish(p)
  PROVE  /\ Others(p) /\ pc'[p] = "idle" /\ loc'[p].due = {}
         /\ Resumes(p)
<1>1. pc'[p] = "idle" /\ loc'[p] = NoCall /\ Others(p)
  BY MovesOne DEF Finish, Others
<1>2. NoCall.due = {}
  BY DEF NoCall
<1> QED
  BY <1>1, <1>2 DEF Resumes

LEMMA ResumeShape ==
  ASSUME TypeOK, NEW p \in Caller, Resume(p)
  PROVE  Resumes(p) /\ Others(p)
<1>1. CASE loc[p].op \in Sweeping
  <2>1. loc[p] \in Locals
    BY DEF TypeOK
  <2>2. LET n == [loc[p] EXCEPT !.victim = <<None, None>>]
        IN n.due = loc[p].due /\ n.cand = loc[p].cand
    BY <2>1, AssignedFields
  <2>3. /\ pc'[p] = "sweep" /\ Others(p)
        /\ loc'[p] = [loc[p] EXCEPT !.victim = <<None, None>>]
    BY <1>1, MovesOne DEF Resume, Others
  <2> QED
    BY <2>2, <2>3 DEF Resumes
<1>2. CASE loc[p].op \notin Sweeping
  BY <1>2, FinishShape DEF Resume
<1> QED
  BY <1>1, <1>2

\* What leaves the holds alone is calm.
LEMMA QuietIsCalm ==
  ASSUME TypeOK, UNCHANGED <<now, live, expiresAt, expiryIndex, cachedHold, issued>>
  PROVE  Calm
BY DEF TypeOK, Calm, Active

LEMMA BeginShape ==
  ASSUME TypeOK, NEW p \in Caller, Begin(p)
  PROVE  Acts(p) /\ Others(p)
<1>0. /\ \A s \in Sku : live[s] \in SkuStates
      /\ Qty \subseteq Nat
      /\ pc[p] = "idle"
      /\ issued \subseteq Hold
  BY ConstantsAssumption DEF TypeOK, Begin, Receive, ReturnStock, AddToStock, StartSweep,
     StartFulfill, Confirm, Release, Idle
<1>1. ASSUME NEW s \in Sku, NEW q \in Qty, Receive(p, s, q) \/ ReturnStock(p, s, q)
      PROVE  Acts(p) /\ Others(p)
  <2>1. PICK op, ev : AddToStock(p, op, s, q, ev)
    BY <1>1 DEF Receive, ReturnStock
  <2>2. Active' = [Active EXCEPT ![s] = Keys(AddStock(live[s], q).holds)]
    BY <2>1, ActiveRecord DEF AddToStock
  <2>3. Keys(AddStock(live[s], q).holds) = Active[s]
    BY <1>0, SameKeys DEF Active
  <2>5. Active' = Active
    BY <2>2, <2>3 DEF Active
  <2>6. Calm
    BY <1>0, <2>1, <2>5 DEF AddToStock, Stores, Calm
  <2>7. \/ UNCHANGED <<pc, loc>>
        \/ Goto(p, "read") /\ Set(p, [NoCall EXCEPT !.op = op, !.sku = s])
    BY <2>1 DEF AddToStock
  <2>8. /\ Others(p) /\ pc'[p] \in {"idle", "read"}
        /\ loc'[p].due \subseteq loc[p].due
    <3>1. [NoCall EXCEPT !.op = op, !.sku = s].due = {}
      BY NoCallFields
    <3> QED
      BY <1>0, <2>7, <3>1, MovesOne DEF Others
  <2>9. Aside(p)
    BY <1>0, <2>6, <2>8 DEF Aside, Indexing
  <2> QED
    BY <2>8, <2>9 DEF Acts
<1>2. ASSUME NEW op, NEW s, NEW q, NEW t, StartSweep(p, op, s, q, t)
      PROVE  Acts(p) /\ Others(p)
  <2>1. Calm
    BY <1>2, QuietIsCalm DEF StartSweep, Stores
  <2> DEFINE n == [NoCall EXCEPT !.op = op, !.sku = s, !.qty = q, !.ttl = t,
                                 !.todo = Sku, !.due = DueHolds]
  <2>2. n.todo = Sku /\ n.due = DueHolds
    BY NoCallFields
  <2>3. Goto(p, "scan") /\ Set(p, n)
    BY <1>2 DEF StartSweep
  <2> HIDE DEF n
  <2>4. pc'[p] = "scan" /\ loc'[p] = n /\ Others(p)
    BY <2>3, MovesOne DEF Others
  <2>5. Starts(p)
    BY <1>0, <2>1, <2>2, <2>4 DEF Starts
  <2> QED
    BY <2>4, <2>5 DEF Acts
<1>3. CASE StartFulfill(p)
  <2>1. Calm
    BY <1>3, QuietIsCalm DEF StartFulfill, Stores
  <2>2. PICK s \in Sku : Set(p, [NoCall EXCEPT !.op = "fulfill_backorders",
                                               !.sku = s, !.todo = Sku \ {s}])
    BY <1>3 DEF StartFulfill
  <2> DEFINE n == [NoCall EXCEPT !.op = "fulfill_backorders",
                                 !.sku = s, !.todo = Sku \ {s}]
  <2>3. n.due = {}
    BY NoCallFields
  <2>4. Goto(p, "pick") /\ Set(p, n)
    BY <1>3, <2>2 DEF StartFulfill
  <2> HIDE DEF n
  <2>5. pc'[p] = "pick" /\ loc'[p] = n /\ Others(p)
    BY <2>4, MovesOne DEF Others
  <2>6. Aside(p)
    BY <1>0, <2>1, <2>3, <2>5 DEF Aside, Indexing
  <2> QED
    BY <2>5, <2>6 DEF Acts
<1>4. ASSUME NEW s \in Sku, NEW h \in Hold, Confirm(p, s, h) \/ Release(p, s, h)
      PROVE  Acts(p) /\ Others(p)
  <2>1. PICK st \in {CommitHold(live[s], h), DropHold(live[s], h)} : \E ev : Record(s, st, ev)
    BY <1>4 DEF Confirm, Release
  <2>2. Keys(st.holds) = Active[s] \ {h}
    <3>1. /\ Keys(DropHold(live[s], h).holds) = Keys(live[s].holds) \ {h}
          /\ Keys(CommitHold(live[s], h).holds) = Keys(live[s].holds) \ {h}
      BY <1>0, DroppedKeys
    <3> QED
      BY <2>1, <3>1 DEF Active
  <2>3. Active' = [Active EXCEPT ![s] = @ \ {h}]
    BY <2>1, <2>2, ActiveRecord
  <2>4. h \in Active[s]
    BY <1>4 DEF Confirm, Release, Active, Keys
  <2>5. Departs(s, h)
    BY <1>4, <2>3, <2>4 DEF Confirm, Release, Stores, Departs
  <2>6. PICK op : Set(p, [NoCall EXCEPT !.op = op, !.victim = <<s, h>>])
    BY <1>4 DEF Confirm, Release
  <2> DEFINE n == [NoCall EXCEPT !.op = op, !.victim = <<s, h>>]
  <2>7. n.due = {} /\ n.victim = <<s, h>>
    BY NoCallFields
  <2>8. Goto(p, "unindex") /\ Set(p, n)
    BY <1>4, <2>6 DEF Confirm, Release
  <2> HIDE DEF n
  <2>9. pc'[p] = "unindex" /\ loc'[p] = n /\ Others(p)
    BY <2>8, MovesOne DEF Others
  <2>10. Takes(p)
    BY <1>0, <2>5, <2>7, <2>9 DEF Takes
  <2> QED
    BY <2>9, <2>10 DEF Acts
<1> QED
  BY <1>1, <1>2, <1>3, <1>4 DEF Begin

\* The steps of a sweep.
LEMMA SweepShape ==
  ASSUME TypeOK, NEW p \in Caller,
         Scan(p) \/ CheckCandidate(p) \/ EvictNothing(p) \/ SweepDone(p)
  PROVE  Acts(p) /\ Others(p)
<1>0. loc[p] \in Locals /\ LocalsOK(pc[p], loc[p])
  BY DEF TypeOK
<1>c. Calm
  BY QuietIsCalm DEF Scan, CheckCandidate, EvictNothing, SweepDone, Stores
<1>1. CASE Scan(p)
  <2>1. PICK s \in loc[p].todo :
          /\ Set(p, [loc[p] EXCEPT !.todo = @ \ {s},
                                   !.cand = @ \cup ({s} \X Keys(live[s].holds))])
          /\ Goto(p, IF loc[p].todo = {s} THEN "sweep" ELSE "scan")
    BY <1>1 DEF Scan
  <2> DEFINE t == loc[p].todo \ {s}
             c == loc[p].cand \cup ({s} \X Active[s])
             n == [loc[p] EXCEPT !.todo = t, !.cand = c]
  <2>2. s \in Sku
    BY <1>0 DEF Locals
  <2>3. /\ loc'[p] = n /\ Others(p)
        /\ pc'[p] = IF loc[p].todo = {s} THEN "sweep" ELSE "scan"
    BY <2>1, <2>2, MovesOne DEF Others, Active
  <2>4. /\ n.hold = loc[p].hold /\ n.expires = loc[p].expires /\ n.ttl = loc[p].ttl
        /\ n.due = loc[p].due /\ n.todo = t /\ n.cand = c
    <3> HIDE DEF t, c
    <3> QED
      BY <1>0, AssignedFields
  <2> HIDE DEF n
  <2>5. pc[p] = "scan"
    BY <1>1 DEF Scan, At
  <2>6. Scans(p)
    BY <1>c, <2>3, <2>4, <2>5 DEF Scans, SameHold
  <2> QED
    BY <2>3, <2>6 DEF Acts
<1>2. CASE CheckCandidate(p)
  <2>0. pc[p] = "sweep"
    BY <1>2 DEF CheckCandidate, At
  <2>1. PICK c \in loc[p].cand : \E expired \in ExpiredAnswers(c[2]) :
          IF expired
            THEN /\ Set(p, [loc[p] EXCEPT !.cand = @ \ {c}, !.victim = c])
                 /\ Goto(p, "evict")
            ELSE /\ Set(p, [loc[p] EXCEPT !.cand = @ \ {c}])
                 /\ UNCHANGED pc
    BY <1>2 DEF CheckCandidate
  <2>2. PICK expired \in ExpiredAnswers(c[2]) :
          IF expired
            THEN /\ Set(p, [loc[p] EXCEPT !.cand = @ \ {c}, !.victim = c])
                 /\ Goto(p, "evict")
            ELSE /\ Set(p, [loc[p] EXCEPT !.cand = @ \ {c}])
                 /\ UNCHANGED pc
    BY <2>1
  <2> DEFINE d == loc[p].cand \ {c}
             n1 == [loc[p] EXCEPT !.cand = d, !.victim = c]
             n2 == [loc[p] EXCEPT !.cand = d]
  <2>3. /\ n1.hold = loc[p].hold /\ n1.expires = loc[p].expires /\ n1.ttl = loc[p].ttl
        /\ n1.due = loc[p].due /\ n1.cand = d /\ n1.victim = c
        /\ n2.hold = loc[p].hold /\ n2.expires = loc[p].expires /\ n2.ttl = loc[p].ttl
        /\ n2.due = loc[p].due /\ n2.cand = d
    <3> HIDE DEF d
    <3> QED
      BY <1>0, AssignedFieldsToo
  <2>4. IF expired THEN loc'[p] = n1 /\ pc'[p] = "evict" /\ Others(p)
                   ELSE loc'[p] = n2 /\ pc'[p] = "sweep" /\ Others(p)
    <3> HIDE DEF n1, n2
    <3> QED
      BY <2>0, <2>2, MovesOne DEF Others, n1, n2
  <2> HIDE DEF n1, n2
  <2>5. SameHold(p) /\ loc'[p].cand = loc[p].cand \ {c} /\ Others(p)
    BY <2>3, <2>4 DEF SameHold
  <2>6. IF expired THEN pc'[p] = "evict" /\ loc'[p].victim = c
                   ELSE pc'[p] = "sweep"
    BY <2>3, <2>4
  <2>7. Tests(p)
    <3> HIDE DEF d
    <3> QED
      BY <1>c, <2>0, <2>5, <2>6 DEF Tests
  <2> QED
    BY <2>5, <2>7 DEF Acts
<1>3. CASE EvictNothing(p)
  <2> DEFINE n == [loc[p] EXCEPT !.victim = <<None, None>>]
  <2>1. pc[p] = "evict" /\ Goto(p, "sweep") /\ Set(p, n)
    BY <1>3 DEF EvictNothing, At
  <2>2. /\ n.hold = loc[p].hold /\ n.expires = loc[p].expires /\ n.ttl = loc[p].ttl
        /\ n.due = loc[p].due /\ n.cand = loc[p].cand
    BY <1>0, AssignedFields
  <2> HIDE DEF n
  <2>3. pc'[p] = "sweep" /\ loc'[p] = n /\ Others(p)
    BY <2>1, MovesOne DEF Others
  <2>4. loc[p].victim[1] \in Sku
    BY <1>0, <2>1 DEF LocalsOK
  <2>5. loc[p].victim[2] \notin Active[loc[p].victim[1]]
    BY <1>3, <2>4 DEF EvictNothing, Active, Keys
  <2>6. Skips(p)
    BY <1>c, <2>1, <2>2, <2>3, <2>5 DEF Skips, SameHold
  <2> QED
    BY <2>3, <2>6 DEF Acts
<1>4. CASE SweepDone(p)
  <2>0. pc[p] = "sweep" /\ loc[p].cand = {}
    BY <1>4 DEF SweepDone, At
  <2>1. CASE loc[p].op = "sweep_expired"
    <3>1. Finish(p)
      BY <1>4, <2>1 DEF SweepDone
    <3>2. pc'[p] = "idle" /\ loc'[p].due = {} /\ Others(p)
      BY <3>1, FinishShape
    <3>3. Aside(p)
      BY <1>c, <2>0, <3>2 DEF Aside, Indexing
    <3> QED
      BY <3>2, <3>3 DEF Acts
  <2>2. CASE loc[p].op # "sweep_expired"
    <3> DEFINE d == now + loc[p].ttl
               n == [loc[p] EXCEPT !.expires = d]
    <3>1. n.ttl = loc[p].ttl /\ n.due = loc[p].due /\ n.expires = d
      <4> HIDE DEF d
      <4> QED
        BY <1>0, AssignedFields
    <3>2. \E l \in {"alloc", "peek"} : Goto(p, l) /\ Set(p, n)
      BY <1>4, <2>2 DEF SweepDone
    <3> HIDE DEF n
    <3>3. pc'[p] \in {"alloc", "peek"} /\ loc'[p] = n /\ Others(p)
      BY <3>2, MovesOne DEF Others
    <3>4. Decides(p)
      BY <1>c, <2>0, <3>1, <3>3 DEF Decides
    <3> QED
      BY <3>3, <3>4 DEF Acts
  <2> QED
    BY <2>1, <2>2
<1> QED
  BY <1>1, <1>2, <1>3, <1>4

\* The steps that take a hold away.
LEMMA EvictShape ==
  ASSUME TypeOK, NEW p \in Caller, Evict(p) \/ Unindex(p) \/ Uncache(p)
  PROVE  Acts(p) /\ Others(p)
<1>0. loc[p] \in Locals /\ LocalsOK(pc[p], loc[p])
  BY DEF TypeOK
<1>v. loc[p].victim[1] \in Sku /\ loc[p].victim[2] \in Hold
  BY <1>0 DEF Evict, Unindex, Uncache, At, LocalsOK
<1>1. CASE Evict(p)
  <2> DEFINE s == loc[p].victim[1]
             h == loc[p].victim[2]
  <2>1. s \in Sku /\ h \in Hold
    BY <1>v
  <2>2. Record(s, DropHold(live[s], h), Released(h))
    BY <1>1 DEF Evict, DropVictim
  <2>3. /\ Present(live[s].holds, h)
        /\ expiresAt' = [expiresAt EXCEPT ![h] = None]
        /\ UNCHANGED <<now, expiryIndex, cachedHold, issued, loc>>
        /\ pc[p] = "evict" /\ Goto(p, "unindex")
    BY <1>1 DEF Evict, DropVictim, At, Stores
  <2>4. live[s] \in SkuStates
    BY <2>1 DEF TypeOK
  <2>5. Keys(DropHold(live[s], h).holds) = Active[s] \ {h}
    BY <2>1, <2>4, DroppedKeys DEF Active
  <2>6. Active' = [Active EXCEPT ![s] = @ \ {h}]
    BY <2>1, <2>2, <2>5, ActiveRecord
  <2>7. h \in Active[s]
    BY <2>1, <2>3 DEF Active, Keys
  <2>8. Departs(s, h)
    BY <2>3, <2>6, <2>7 DEF Departs
  <2>9. pc'[p] = "unindex" /\ loc'[p] = loc[p] /\ Others(p)
    BY <2>3, MovesOne DEF Others
  <2>10. Evicts(p)
    BY <1>v, <2>3, <2>8, <2>9 DEF Evicts
  <2> QED
    BY <2>9, <2>10 DEF Acts
<1>2. CASE Unindex(p)
  <2>1. Active' = Active
    BY <1>2 DEF Unindex, Active
  <2>2. IF WithCache THEN pc'[p] = "uncache" /\ loc'[p] = loc[p] /\ Others(p)
                     ELSE Resumes(p) /\ Others(p)
    <3>1. IF WithCache THEN Goto(p, "uncache") /\ UNCHANGED loc ELSE Resume(p)
      BY <1>2 DEF Unindex
    <3> QED
      BY <3>1, MovesOne, ResumeShape DEF Others
  <2>3. /\ pc[p] = "unindex"
        /\ expiryIndex' = [expiryIndex EXCEPT ![loc[p].victim[2]] = None]
        /\ UNCHANGED <<now, expiresAt, cachedHold, issued>>
    BY <1>2 DEF Unindex, At
  <2>4. Unindexes(p)
    BY <1>v, <2>1, <2>2, <2>3 DEF Unindexes
  <2> QED
    BY <2>2, <2>4 DEF Acts
<1>3. CASE Uncache(p)
  <2>1. Active' = Active
    BY <1>3 DEF Uncache, Active
  <2>2. Resumes(p) /\ Others(p)
    BY <1>3, ResumeShape DEF Uncache
  <2>3. Uncaches(p)
    BY <1>3, <1>v, <2>1, <2>2 DEF Uncaches, Uncache, At
  <2> QED
    BY <2>2, <2>3 DEF Acts
<1> QED
  BY <1>1, <1>2, <1>3

\* The steps that place a hold and make it known.
LEMMA PlaceShape ==
  ASSUME TypeOK, NEW p \in Caller, Alloc(p) \/ Place(p)
  PROVE  Acts(p) /\ Others(p)
<1>0. loc[p] \in Locals /\ LocalsOK(pc[p], loc[p])
  BY DEF TypeOK
<1> DEFINE s == loc[p].sku
<1>1. PICK q \in Nat, h \in Fresh : /\ q > 0
                                    /\ PlaceHold(p, h, q)
                                    /\ Set(p, [loc[p] EXCEPT !.hold = h])
  <2>1. Qty \subseteq Nat \ {0} /\ loc[p].qty \in Nat
    BY <1>0, ConstantsAssumption DEF Locals
  <2>2. CASE Alloc(p)
    <3>1. loc[p].qty \in Qty
      BY <1>0, <2>2 DEF Alloc, At, LocalsOK
    <3>2. loc[p].qty \in Nat /\ loc[p].qty > 0
      BY <2>1, <3>1
    <3> QED
      BY <2>2, <3>2 DEF Alloc
  <2>3. CASE Place(p)
    <3>1. loc[p].want \in 1..loc[p].qty
      BY <1>0, <2>3 DEF Place, At, LocalsOK
    <3>2. loc[p].want \in Nat /\ loc[p].want > 0
      BY <2>1, <3>1
    <3> QED
      BY <2>3, <3>2 DEF Place
  <2> QED
    BY <2>2, <2>3
<1>2. s \in Sku /\ h \in Hold /\ issued \subseteq Hold
  BY <1>0 DEF Alloc, Place, At, LocalsOK, Fresh, TypeOK
<1>3. Active' = [Active EXCEPT ![s] = @ \cup {h}]
  <2>1. live[s] \in SkuStates
    BY <1>2 DEF TypeOK
  <2>2. Keys(PutHold(live[s], h, q).holds) = Active[s] \cup {h}
    <3>1. q \in Nat /\ q > 0
      BY <1>1
    <3> HIDE DEF s
    <3>2. Keys(PutHold(live[s], h, q).holds) = Keys(live[s].holds) \cup {h}
      BY <1>2, <2>1, <3>1, PutKeys
    <3> QED
      BY <1>2, <3>2 DEF Active
  <2>3. Record(s, PutHold(live[s], h, q), HoldPlaced(h, q))
    BY <1>1 DEF PlaceHold
  <2> QED
    BY <1>2, <2>2, <2>3, ActiveRecord
<1>4. Enters(s, h, loc[p].expires)
  BY <1>1, <1>3 DEF Alloc, Place, PlaceHold, Stores, Enters
<1> DEFINE n == [loc[p] EXCEPT !.hold = h]
<1>5. /\ n.expires = loc[p].expires /\ n.ttl = loc[p].ttl
      /\ n.due = loc[p].due /\ n.hold = h /\ n.want = loc[p].want
  BY <1>0, AssignedFields
<1>6. pc[p] \in {"alloc", "place"} /\ \E l \in {"short", "index"} : Goto(p, l)
  BY DEF Alloc, Place, At
<1>7. Set(p, n)
  BY <1>1
<1> HIDE DEF n, s
<1>8. pc'[p] \in {"short", "index"} /\ loc'[p] = n /\ Others(p)
  BY <1>6, <1>7, MovesOne DEF Others
<1>9. pc'[p] = "short" => loc'[p].want > 0
  <2>1. CASE Alloc(p)
    <3>1. pc'[p] = "index"
      BY <2>1, MovesOne DEF Alloc
    <3> QED
      BY <3>1
  <2>2. CASE Place(p)
    <3>1. loc[p].want \in 1..loc[p].qty /\ loc[p].qty \in Nat
      BY <1>0, <2>2 DEF Place, At, LocalsOK, Locals
    <3>2. loc[p].want > 0
      BY <3>1
    <3> QED
      BY <1>5, <1>8, <3>2
  <2> QED
    BY <2>1, <2>2
<1>10. Places(p)
  BY <1>2, <1>4, <1>5, <1>6, <1>8, <1>9 DEF Places
<1> QED
  BY <1>8, <1>10 DEF Acts

LEMMA IndexShape ==
  ASSUME TypeOK, NEW p \in Caller, Short(p) \/ IndexHold(p) \/ MirrorHold(p)
  PROVE  Acts(p) /\ Others(p)
<1>0. loc[p] \in Locals /\ LocalsOK(pc[p], loc[p])
  BY DEF TypeOK
<1>1. CASE Short(p)
  <2> DEFINE s == loc[p].sku
             q == loc[p].qty - loc[p].want
  <2>0. pc[p] = "short"
    BY <1>1 DEF Short, At
  <2>1. s \in Sku /\ loc[p].want \in 0..loc[p].qty /\ loc[p].qty \in Nat
    BY <1>0, <2>0 DEF LocalsOK, Locals
  <2>2. q \in Nat
    BY <2>1
  <2>3. PICK b \in Fresh : /\ Record(s, PutBackorder(live[s], b, q), BackorderPlaced(b, q))
                           /\ issued' = issued \cup {b}
    BY <1>1 DEF Short
  <2>4. live[s] \in SkuStates /\ b \in Hold /\ issued \subseteq Hold
    BY <2>1 DEF TypeOK, Fresh
  <2> HIDE DEF s, q
  <2>5. Keys(PutBackorder(live[s], b, q).holds) = Active[s]
    <3>1. Keys(PutBackorder(live[s], b, q).holds) = Keys(live[s].holds)
      BY <2>2, <2>4, SameKeys
    <3> QED
      BY <2>1, <3>1 DEF Active
  <2>6. Active' = Active
    <3>1. Active' = [Active EXCEPT ![s] = Active[s]]
      BY <2>1, <2>3, <2>5, ActiveRecord
    <3> QED
      BY <3>1 DEF Active
  <2>7. Calm
    BY <1>1, <2>3, <2>4, <2>6 DEF Short, Stores, Calm
  <2>8. CASE loc[p].want > 0
    <3>1. pc'[p] = "index" /\ loc'[p] = loc[p] /\ Others(p)
      BY <1>1, <2>8, MovesOne DEF Short, Others
    <3>2. Owed(p)
      BY <2>0, <2>7, <2>8, <3>1 DEF Owed
    <3> QED
      BY <3>1, <3>2 DEF Acts
  <2>9. CASE ~(loc[p].want > 0)
    <3>1. pc'[p] = "idle" /\ loc'[p].due = {} /\ Others(p)
      BY <1>1, <2>9, FinishShape DEF Short
    <3>2. Aside(p)
      BY <2>0, <2>7, <2>9, <3>1 DEF Aside, Indexing
    <3> QED
      BY <3>1, <3>2 DEF Acts
  <2> QED
    BY <2>8, <2>9
<1>2. CASE IndexHold(p)
  <2>0. pc[p] = "index" /\ Active' = Active
    BY <1>2 DEF IndexHold, At, Active
  <2>1. loc[p].hold \in Hold
    BY <1>0, <2>0 DEF LocalsOK
  <2>2. /\ IF WithCache THEN pc'[p] = "mirror" /\ loc'[p] = loc[p]
                        ELSE pc'[p] = "idle" /\ loc'[p].due = {}
        /\ Others(p)
    <3>1. IF WithCache THEN Goto(p, "mirror") /\ UNCHANGED loc ELSE Finish(p)
      BY <1>2 DEF IndexHold
    <3> QED
      BY <3>1, MovesOne, FinishShape DEF Others
  <2>3. Indexes(p)
    BY <1>2, <2>0, <2>1, <2>2 DEF Indexes, IndexHold
  <2> QED
    BY <2>2, <2>3 DEF Acts
<1>3. CASE MirrorHold(p)
  <2>0. pc[p] = "mirror" /\ Active' = Active
    BY <1>3 DEF MirrorHold, At, Active
  <2>1. loc[p].hold \in Hold
    BY <1>0, <2>0 DEF LocalsOK
  <2>2. pc'[p] = "idle" /\ loc'[p].due = {} /\ Others(p)
    BY <1>3, FinishShape DEF MirrorHold
  <2>3. Mirrors(p)
    BY <1>3, <2>0, <2>1, <2>2 DEF Mirrors, MirrorHold
  <2> QED
    BY <2>2, <2>3 DEF Acts
<1> QED
  BY <1>1, <1>2, <1>3

LEMMA PeekShape ==
  ASSUME TypeOK, NEW p \in Caller, Peek(p)
  PROVE  Acts(p) /\ Others(p)
<1>0. loc[p] \in Locals
  BY DEF TypeOK
<1>c. Calm
  BY QuietIsCalm DEF Peek, Stores
<1>1. PICK w : /\ Set(p, [loc[p] EXCEPT !.want = w])
               /\ Goto(p, IF w > 0 THEN "place" ELSE "short")
               /\ pc[p] = "peek"
  BY DEF Peek, At
<1> DEFINE n == [loc[p] EXCEPT !.want = w]
<1>2. /\ n.hold = loc[p].hold /\ n.expires = loc[p].expires /\ n.ttl = loc[p].ttl
      /\ n.due = loc[p].due /\ n.want = w
  BY <1>0, AssignedFields
<1> HIDE DEF n
<1>3. /\ pc'[p] = (IF w > 0 THEN "place" ELSE "short")
      /\ loc'[p] = n /\ Others(p)
  BY <1>1, MovesOne DEF Others, n
<1>4. Looks(p)
  BY <1>c, <1>1, <1>2, <1>3 DEF Looks, SameHold
<1> QED
  BY <1>3, <1>4 DEF Acts

LEMMA FillShape ==
  ASSUME TypeOK, NEW p \in Caller, Fill(p)
  PROVE  Acts(p) /\ Others(p)
<1>0. loc[p] \in Locals /\ LocalsOK(pc[p], loc[p])
  BY DEF TypeOK
<1> DEFINE s == loc[p].sku
           b == loc[p].bo
           q == loc[p].qty
<1>1. pc[p] = "fill" /\ s \in Sku /\ q \in Nat
  BY <1>0 DEF Fill, At, LocalsOK, Locals
<1>2. PICK h \in Fresh :
        /\ Record(s, PromoteBackorder(live[s], b, h, q), BackorderFilled(h, q))
        /\ expiresAt' = [expiresAt EXCEPT ![h] = FarFuture]
        /\ issued' = issued \cup {h}
        /\ Set(p, [loc[p] EXCEPT !.bo = None, !.qty = 0, !.got = @ \cup {h}])
  BY DEF Fill
<1> HIDE DEF s, b, q
<1>3. live[s] \in SkuStates /\ h \in Hold
  BY <1>1 DEF TypeOK, Fresh
<1>4. \/ Active' = [Active EXCEPT ![s] = @ \cup {h}]
      \/ Active' = [Active EXCEPT ![s] = @ \ {h}]
  <2>1. \/ Keys(PromoteBackorder(live[s], b, h, q).holds) = Keys(live[s].holds) \cup {h}
        \/ Keys(PromoteBackorder(live[s], b, h, q).holds) = Keys(live[s].holds) \ {h}
    <3>1. q \in Nat /\ live[s] \in SkuStates /\ h \in Hold
      BY <1>1, <1>3
    <3>2. PICK st \in SkuStates, k \in Nat : st = live[s] /\ k = q
      BY <3>1
    <3>3. \/ Keys(PromoteBackorder(st, b, h, k).holds) = Keys(st.holds) \cup {h}
          \/ Keys(PromoteBackorder(st, b, h, k).holds) = Keys(st.holds) \ {h}
      BY <3>1, PromotedKeys
    <3> QED
      BY <3>2, <3>3
  <2>2. Active[s] = Keys(live[s].holds)
    BY <1>1 DEF Active
  <2>3. Active' = [Active EXCEPT ![s] = Keys(PromoteBackorder(live[s], b, h, q).holds)]
    BY <1>1, <1>2, ActiveRecord
  <2> QED
    BY <2>1, <2>2, <2>3
<1> DEFINE g == loc[p].got \cup {h}
           n == [loc[p] EXCEPT !.bo = None, !.qty = 0, !.got = g]
<1>5. n.due = loc[p].due
  <2> HIDE DEF g
  <2> QED
    BY <1>0, AssignedFieldsToo
<1>6. Goto(p, "pick") /\ Set(p, n)
  BY <1>2 DEF Fill
<1> HIDE DEF n
<1>7. pc'[p] = "pick" /\ loc'[p] = n /\ Others(p)
  BY <1>6, MovesOne DEF Others
<1>8. UNCHANGED <<now, expiryIndex, cachedHold>>
  BY DEF Fill, Stores
<1>9. Fills(p)
  BY <1>1, <1>2, <1>4, <1>5, <1>7, <1>8 DEF Fills
<1> QED
  BY <1>7, <1>9 DEF Acts

\* The remaining steps touch no hold.
LEMMA AsideShape ==
  ASSUME TypeOK, NEW p \in Caller,
         \/ ReadOnHand(p) \/ PutOnHand(p) \/ InsufficientStock(p)
         \/ Pick(p) \/ NothingToPick(p)
  PROVE  Acts(p) /\ Others(p)
<1>0. loc[p] \in Locals
  BY DEF TypeOK
<1>c. Calm
  BY QuietIsCalm DEF ReadOnHand, PutOnHand, InsufficientStock, Pick, NothingToPick, Stores
<1>p. pc[p] \in {"read", "put", "alloc", "pick"}
  BY DEF ReadOnHand, PutOnHand, InsufficientStock, Pick, NothingToPick, At
<1>1. /\ pc'[p] \in {"idle", "read", "put", "pick", "fill"}
      /\ loc'[p].due \subseteq loc[p].due
      /\ Others(p)
  <2>1. CASE ReadOnHand(p)
    <3> DEFINE w == live[loc[p].sku].onHand
               n == [loc[p] EXCEPT !.want = w]
    <3>1. n.due = loc[p].due
      <4> HIDE DEF w
      <4> QED
        BY <1>0, AssignedFields
    <3>2. Goto(p, "put") /\ Set(p, n)
      BY <2>1 DEF ReadOnHand
    <3> HIDE DEF n
    <3> QED
      BY <3>1, <3>2, MovesOne DEF Others
  <2>2. CASE PutOnHand(p) \/ InsufficientStock(p)
    BY <2>2, FinishShape DEF PutOnHand, InsufficientStock
  <2>3. CASE Pick(p)
    <3>1. PICK b, q : Set(p, [loc[p] EXCEPT !.bo = b, !.qty = q])
      BY <2>3 DEF Pick
    <3> DEFINE n == [loc[p] EXCEPT !.bo = b, !.qty = q]
    <3>2. n.due = loc[p].due
      BY <1>0, AssignedFieldsToo
    <3>3. Goto(p, "fill") /\ Set(p, n)
      BY <2>3, <3>1 DEF Pick
    <3> HIDE DEF n
    <3> QED
      BY <3>2, <3>3, MovesOne DEF Others
  <2>4. CASE NothingToPick(p)
    <3>1. CASE loc[p].todo = {}
      BY <2>4, <3>1, FinishShape DEF NothingToPick
    <3>2. CASE loc[p].todo # {}
      <4>1. PICK s : Set(p, [loc[p] EXCEPT !.sku = s, !.todo = @ \ {s}])
        BY <2>4, <3>2 DEF NothingToPick
      <4> DEFINE t == loc[p].todo \ {s}
                 n == [loc[p] EXCEPT !.sku = s, !.todo = t]
      <4>2. n.due = loc[p].due
        <5> HIDE DEF t
        <5> QED
          BY <1>0, AssignedFieldsToo
      <4>3. UNCHANGED pc /\ Set(p, n) /\ pc[p] = "pick"
        BY <2>4, <3>2, <4>1 DEF NothingToPick, At
      <4> HIDE DEF n
      <4> QED
        BY <4>2, <4>3, MovesOne DEF Others
    <3> QED
      BY <3>1, <3>2
  <2> QED
    BY <2>1, <2>2, <2>3, <2>4
<1>2. Aside(p)
  BY <1>c, <1>p, <1>1 DEF Aside, Indexing
<1> QED
  BY <1>1, <1>2 DEF Acts

LEMMA StepShape ==
  ASSUME TypeOK, [Next]_vars
  PROVE  Shape
<1>1. CASE UNCHANGED vars
  <2>1. now \in Nat
    BY DEF TypeOK
  <2> QED
    BY <1>1, <2>1 DEF Shape, Waits, vars, Active
<1>2. CASE Tick
  <2>1. now' \in Nat /\ now <= now'
    BY <1>2 DEF Tick, TypeOK
  <2> QED
    BY <1>2, <2>1 DEF Shape, Waits, Tick, Active, Stores
<1>3. ASSUME NEW p \in Caller, Begin(p) \/ Step(p)
      PROVE  Acts(p) /\ Others(p)
  BY <1>3, BeginShape, SweepShape, EvictShape, PlaceShape, IndexShape, PeekShape,
     FillShape, AsideShape DEF Step
<1> QED
  BY <1>1, <1>2, <1>3 DEF Next, Shape, Others

-----------------------------------------------------------------------------
(* What always holds of a hold's records, whoever calls and whatever the   *)
(* cache does.                                                             *)

ActiveIssued == \A s \in Sku : Active[s] \subseteq issued

\* A hold is held in one SKU only.
HeldOnce ==
  \A s, t \in Sku : \A h \in Hold : h \in Active[s] /\ h \in Active[t] => s = t

\* An active hold has the deadline it was placed with.
HeldIsPromised == \A s \in Sku : \A h \in Active[s] : expiresAt[h] # None

\* The index never contradicts the deadline promised.
IndexAgrees ==
  \A h \in Hold : expiresAt[h] # None /\ expiryIndex[h] # None
                    => expiryIndex[h] = expiresAt[h]

EntriesIssued ==
  \A h \in Hold : expiresAt[h] # None \/ expiryIndex[h] # None => h \in issued

\* A caller about to index a hold knows the deadline promised with it.
InHandAgrees ==
  \A p \in Caller : Indexing(p) =>
    /\ loc[p].hold \in issued
    /\ expiresAt[loc[p].hold] # None => expiresAt[loc[p].hold] = loc[p].expires

RecordsAgree == /\ ActiveIssued /\ HeldOnce /\ HeldIsPromised
                /\ IndexAgrees /\ EntriesIssued /\ InHandAgrees

LEMMA ActiveType ==
  ASSUME TypeOK
  PROVE  /\ Active \in [Sku -> SUBSET Hold]
         /\ expiresAt \in [Hold -> Time] /\ expiryIndex \in [Hold -> Time]
         /\ cachedHold \in [Hold -> Time]
         /\ issued \subseteq Hold /\ now \in Nat
         /\ \A p \in Caller : loc[p].expires \in Nat /\ loc[p].ttl \in Nat
         /\ \A p \in Caller : Indexing(p) => loc[p].hold \in Hold
         /\ \A p \in Caller : pc[p] = "mirror" => loc[p].hold \in Hold
         /\ \A p \in Caller : pc[p] \in {"evict", "unindex", "uncache"}
                                => /\ loc[p].victim = <<loc[p].victim[1], loc[p].victim[2]>>
                                   /\ loc[p].victim[1] \in Sku /\ loc[p].victim[2] \in Hold
<1>1. \A p \in Caller : /\ loc[p] \in Locals /\ LocalsOK(pc[p], loc[p])
  BY DEF TypeOK
<1>2. \A p \in Caller : loc[p].expires \in Nat /\ loc[p].ttl \in Nat /\ loc[p].want \in Int
  BY <1>1 DEF Locals
<1>3. Active \in [Sku -> SUBSET Hold]
  BY DEF Active, Keys
<1>4. \A p \in Caller : Indexing(p) \/ pc[p] = "mirror" => loc[p].hold \in Hold
  BY <1>1 DEF LocalsOK, Indexing
<1>5. \A p \in Caller : pc[p] \in {"evict", "unindex", "uncache"}
                          => loc[p].victim \in Sku \X Hold
  BY <1>1 DEF LocalsOK
<1> QED
  BY <1>2, <1>3, <1>4, <1>5 DEF TypeOK

LEMMA FarFutureTime == FarFuture \in Nat /\ None \notin Nat /\ FarFuture # None
BY ConstantsAssumption

\* One hold's records after a hold is placed, taken away or indexed.
LEMMA RecordsStep ==
  ASSUME TypeOK, RecordsAgree, NEW p \in Caller, Acts(p)
  PROVE  ActiveIssued' /\ HeldOnce' /\ HeldIsPromised' /\ IndexAgrees' /\ EntriesIssued'
<1> USE DEF RecordsAgree
<1>t. /\ Active \in [Sku -> SUBSET Hold]
      /\ expiresAt \in [Hold -> Time] /\ expiryIndex \in [Hold -> Time]
      /\ issued \subseteq Hold
      /\ loc[p].expires \in Nat
      /\ FarFuture # None /\ None \notin Nat
  BY ActiveType, FarFutureTime
<1>1. CASE Calm
  BY <1>t, <1>1 DEF Calm, ActiveIssued, HeldOnce, HeldIsPromised, IndexAgrees, EntriesIssued
<1>2. ASSUME NEW s \in Sku, NEW h \in Hold, NEW d \in Nat, Enters(s, h, d)
      PROVE  ActiveIssued' /\ HeldOnce' /\ HeldIsPromised' /\ IndexAgrees' /\ EntriesIssued'
  <2>1. h \notin issued /\ \A t \in Sku : h \notin Active[t]
    BY <1>2 DEF Enters, Fresh, ActiveIssued
  <2>2. d # None /\ expiryIndex[h] = None
    BY <1>t, <2>1 DEF EntriesIssued
  <2>3. ActiveIssued' /\ HeldOnce'
    BY <1>t, <1>2, <2>1 DEF Enters, ActiveIssued, HeldOnce
  <2>4. HeldIsPromised' /\ IndexAgrees' /\ EntriesIssued'
    BY <1>t, <1>2, <2>1, <2>2 DEF Enters, HeldIsPromised, IndexAgrees, EntriesIssued
  <2> QED
    BY <2>3, <2>4
<1>3. ASSUME NEW s \in Sku, NEW h \in Hold, Departs(s, h)
      PROVE  ActiveIssued' /\ HeldOnce' /\ HeldIsPromised' /\ IndexAgrees' /\ EntriesIssued'
  <2>1. ActiveIssued' /\ HeldOnce'
    BY <1>t, <1>3 DEF Departs, ActiveIssued, HeldOnce
  <2>2. \A t \in Sku \ {s} : h \notin Active[t]
    BY <1>3 DEF Departs, HeldOnce
  <2>3. HeldIsPromised' /\ IndexAgrees' /\ EntriesIssued'
    BY <1>t, <1>3, <2>2 DEF Departs, HeldIsPromised, IndexAgrees, EntriesIssued
  <2> QED
    BY <2>1, <2>3
<1>4. CASE Fills(p)
  <2>1. PICK s \in Sku, h \in Fresh :
          /\ \/ Active' = [Active EXCEPT ![s] = @ \cup {h}]
             \/ Active' = [Active EXCEPT ![s] = @ \ {h}]
          /\ expiresAt' = [expiresAt EXCEPT ![h] = FarFuture]
          /\ issued' = issued \cup {h}
    BY <1>4 DEF Fills
  <2>2. h \in Hold /\ h \notin issued /\ \A t \in Sku : h \notin Active[t]
    BY DEF Fresh, ActiveIssued
  <2>3. expiryIndex[h] = None /\ UNCHANGED expiryIndex
    BY <1>4, <2>2 DEF EntriesIssued, Fills
  <2>4. ActiveIssued' /\ HeldOnce'
    BY <1>t, <2>1, <2>2 DEF ActiveIssued, HeldOnce
  <2>5. HeldIsPromised' /\ IndexAgrees' /\ EntriesIssued'
    BY <1>t, <2>1, <2>2, <2>3 DEF HeldIsPromised, IndexAgrees, EntriesIssued
  <2> QED
    BY <2>4, <2>5
<1>5. CASE Unindexes(p)
  BY <1>t, <1>5 DEF Unindexes, ActiveIssued, HeldOnce, HeldIsPromised, IndexAgrees, EntriesIssued
<1>6. CASE Indexes(p)
  <2>1. /\ loc[p].hold \in issued
        /\ expiresAt[loc[p].hold] # None => expiresAt[loc[p].hold] = loc[p].expires
    BY <1>6 DEF Indexes, Indexing, InHandAgrees
  <2> QED
    BY <1>t, <1>6, <2>1 DEF Indexes, ActiveIssued, HeldOnce, HeldIsPromised, IndexAgrees,
       EntriesIssued
<1>7. CASE Uncaches(p) \/ Mirrors(p)
  BY <1>7 DEF Uncaches, Mirrors, ActiveIssued, HeldOnce, HeldIsPromised, IndexAgrees, EntriesIssued
<1>8. CASE Places(p)
  BY <1>t, <1>2, <1>8 DEF Places
<1>9. CASE Evicts(p) \/ Takes(p)
  BY <1>3, <1>9 DEF Evicts, Takes
<1> QED
  BY <1>1, <1>4, <1>5, <1>6, <1>7, <1>8, <1>9 DEF Acts, Aside, Starts, Scans, Tests, Skips,
     Decides, Looks, Owed

LEMMA InHandStep ==
  ASSUME TypeOK, RecordsAgree, NEW p \in Caller, Acts(p), Others(p)
  PROVE  InHandAgrees'
<1> USE DEF RecordsAgree
<1>t. /\ expiresAt \in [Hold -> Time] /\ issued \subseteq Hold
      /\ \A q \in Caller : Indexing(q) => loc[q].hold \in Hold
      /\ FarFuture # None /\ None \notin Nat
  BY ActiveType, FarFutureTime
\* a deadline once promised is only ever withdrawn
<1>1. /\ issued \subseteq issued'
      /\ \A h \in issued : expiresAt'[h] # None => expiresAt'[h] = expiresAt[h]
  <2>1. CASE Calm
    BY <2>1 DEF Calm
  <2>2. CASE Fills(p) \/ Places(p)
    BY <1>t, <2>2 DEF Fills, Places, Enters, Fresh
  <2>3. CASE Evicts(p) \/ Takes(p)
    BY <1>t, <2>3 DEF Evicts, Takes, Departs
  <2>4. CASE Unindexes(p) \/ Uncaches(p) \/ Indexes(p) \/ Mirrors(p)
    BY <2>4 DEF Unindexes, Uncaches, Indexes, Mirrors
  <2> QED
    BY <2>1, <2>2, <2>3, <2>4 DEF Acts, Aside, Starts, Scans, Tests, Skips, Decides, Looks, Owed
<1>2. ASSUME NEW q \in Caller, Indexing(q)', Indexing(q), loc'[q] = loc[q]
      PROVE  /\ loc'[q].hold \in issued'
             /\ expiresAt'[loc'[q].hold] # None => expiresAt'[loc'[q].hold] = loc'[q].expires
  BY <1>1, <1>2 DEF InHandAgrees
<1>3. ASSUME Indexing(p)'
      PROVE  (Indexing(p) /\ loc'[p] = loc[p]) \/ Places(p)
  <2>1. CASE Owed(p)
    BY <2>1 DEF Owed, Indexing
  <2>2. ~(Aside(p) \/ Fills(p) \/ Starts(p) \/ Scans(p) \/ Tests(p) \/ Skips(p) \/ Decides(p))
    BY <1>3 DEF Indexing, Aside, Fills, Starts, Scans, Tests, Skips, Decides
  <2>3. ~(Looks(p) \/ Evicts(p) \/ Takes(p) \/ Unindexes(p) \/ Uncaches(p) \/ Indexes(p)
          \/ Mirrors(p))
    BY <1>3 DEF Indexing, Looks, Evicts, Takes, Unindexes, Uncaches, Indexes, Mirrors, Resumes
  <2> QED
    BY <2>1, <2>2, <2>3 DEF Acts
<1>4. ASSUME Places(p)
      PROVE  /\ loc'[p].hold \in issued'
             /\ expiresAt'[loc'[p].hold] # None => expiresAt'[loc'[p].hold] = loc'[p].expires
  BY <1>t, <1>4 DEF Places, Enters
<1>5. ASSUME NEW q \in Caller, Indexing(q)'
      PROVE  /\ loc'[q].hold \in issued'
             /\ expiresAt'[loc'[q].hold] # None => expiresAt'[loc'[q].hold] = loc'[q].expires
  <2>1. CASE q = p
    BY <1>2, <1>3, <1>4, <1>5, <2>1
  <2>2. CASE q # p
    <3>1. pc'[q] = pc[q] /\ loc'[q] = loc[q]
      BY <2>2 DEF Others
    <3>2. Indexing(q)
      BY <1>5, <3>1 DEF Indexing
    <3> QED
      BY <1>2, <1>5, <3>1, <3>2
  <2> QED
    BY <2>1, <2>2
<1> QED
  BY <1>5 DEF InHandAgrees

LEMMA RecordsNext ==
  ASSUME TypeOK, RecordsAgree, [Next]_vars
  PROVE  RecordsAgree'
<1>1. CASE Waits
  BY <1>1 DEF Waits, RecordsAgree, ActiveIssued, HeldOnce, HeldIsPromised, IndexAgrees,
     EntriesIssued, InHandAgrees, Indexing
<1>2. ASSUME NEW p \in Caller, Acts(p), Others(p)
      PROVE  RecordsAgree'
  BY <1>2, RecordsStep, InHandStep DEF RecordsAgree
<1> QED
  BY <1>1, <1>2, StepShape DEF Shape, Others

LEMMA RecordsInit ==
  ASSUME Init
  PROVE  RecordsAgree
<1>1. \A s \in Sku : Active[s] = {}
  BY DEF Init, Active, Keys, Present, EmptySku, NoQty
<1>2. \A p \in Caller : ~Indexing(p)
  BY DEF Init, Indexing
<1> QED
  BY <1>1, <1>2 DEF Init, RecordsAgree, ActiveIssued, HeldOnce, HeldIsPromised,
     IndexAgrees, EntriesIssued, InHandAgrees

-----------------------------------------------------------------------------
(* A reserve call decides after every hold already due has left the pool.  *)

\* The deadline of a hold that was due when a sweep began stays due.
DueStays ==
  \A p \in Caller : \A h \in loc[p].due :
    h \in issued /\ (expiresAt[h] # None => expiresAt[h] <= now)

\* What the sweep of p has yet to look at.
Ahead(p, s, h) ==
  \/ pc[p] = "scan" /\ s \in loc[p].todo
  \/ pc[p] \in {"scan", "sweep", "evict", "unindex", "uncache"} /\ <<s, h>> \in loc[p].cand
  \/ pc[p] = "evict" /\ loc[p].victim = <<s, h>>

\* A due hold that is still active is ahead of every sweep that must clear it.
DueAhead ==
  \A p \in Caller : pc[p] \in {"scan", "sweep", "evict", "unindex", "uncache", "alloc", "peek"}
    => \A s \in Sku : \A h \in Active[s] : h \in loc[p].due => Ahead(p, s, h)

DueInv == TypeOK /\ RecordsAgree /\ DueStays /\ DueAhead

\* An identity once drawn is never placed again, and its deadline is only
\* ever withdrawn.
LEMMA IssuedOnlyLeaves ==
  ASSUME TypeOK, NEW p \in Caller, Acts(p)
  PROVE  /\ issued \subseteq issued' /\ now' = now
         /\ \A h \in issued : expiresAt'[h] # None => expiresAt'[h] = expiresAt[h]
         /\ \A h \in issued, s \in Sku : h \in Active'[s] => h \in Active[s]
<1>t. /\ Active \in [Sku -> SUBSET Hold] /\ expiresAt \in [Hold -> Time]
      /\ issued \subseteq Hold
  BY ActiveType
<1>1. CASE Calm
  BY <1>1 DEF Calm
<1>2. CASE Fills(p) \/ Places(p)
  BY <1>t, <1>2 DEF Fills, Places, Enters, Fresh
<1>3. CASE Evicts(p) \/ Takes(p)
  BY <1>t, <1>3 DEF Evicts, Takes, Departs
<1>4. CASE Unindexes(p) \/ Uncaches(p) \/ Indexes(p) \/ Mirrors(p)
  BY <1>4 DEF Unindexes, Uncaches, Indexes, Mirrors
<1> QED
  BY <1>1, <1>2, <1>3, <1>4 DEF Acts, Aside, Starts, Scans, Tests, Skips, Decides, Looks, Owed

LEMMA DueStaysNext ==
  ASSUME DueInv, NEW p \in Caller, Acts(p), Others(p)
  PROVE  DueStays'
<1> TypeOK /\ RecordsAgree /\ DueStays
  BY DEF DueInv
<1>t. expiresAt \in [Hold -> Time] /\ issued \subseteq Hold /\ now \in Nat /\ None \notin Nat
  BY ActiveType, FarFutureTime
<1>1. /\ issued \subseteq issued' /\ now' = now
      /\ \A h \in issued : expiresAt'[h] # None => expiresAt'[h] = expiresAt[h]
  BY IssuedOnlyLeaves
<1>2. loc'[p].due \subseteq loc[p].due \/ loc'[p].due = DueHolds
  BY DEF Acts, Aside, Fills, Starts, Scans, Tests, Skips, Decides, Looks, Places, Owed,
     Evicts, Takes, Unindexes, Uncaches, Indexes, Mirrors, SameHold, Resumes
<1>3. \A h \in DueHolds : h \in issued /\ (expiresAt[h] # None => expiresAt[h] <= now)
  BY DEF DueHolds, RecordsAgree, EntriesIssued
<1>4. ASSUME NEW q \in Caller, NEW h \in loc'[q].due
      PROVE  h \in issued /\ (expiresAt[h] # None => expiresAt[h] <= now)
  <2>1. CASE q = p
    BY <1>2, <1>3, <1>4, <2>1 DEF DueStays
  <2>2. CASE q # p
    BY <1>4, <2>2 DEF DueStays, Others
  <2> QED
    BY <2>1, <2>2
<1> QED
  BY <1>1, <1>4 DEF DueStays

\* Without a cache, a due hold never passes the expiry test.
LEMMA DueTestsExpired ==
  ASSUME DueInv, ~WithCache, NEW p \in Caller, NEW s \in Sku, NEW h \in Active[s],
         h \in loc[p].due, NEW e \in ExpiredAnswers(h)
  PROVE  e
<1> TypeOK /\ RecordsAgree /\ DueStays
  BY DEF DueInv
<1>1. expiresAt[h] # None /\ expiresAt[h] <= now
  BY DEF RecordsAgree, HeldIsPromised, DueStays
<1>2. h \in Hold /\ expiryIndex[h] \in Time /\ expiresAt[h] \in Time /\ now \in Nat
  BY ActiveType
<1>3. expiryIndex[h] = None \/ expiryIndex[h] = expiresAt[h]
  BY <1>1, <1>2 DEF RecordsAgree, IndexAgrees
<1>4. expiryIndex[h] = None \/ now >= expiryIndex[h]
  BY <1>1, <1>2, <1>3 DEF Time
<1> QED
  BY <1>4 DEF ExpiredAnswers

LEMMA DueAheadNext ==
  ASSUME DueInv, ~WithCache, NEW p \in Caller, Acts(p), Others(p)
  PROVE  DueAhead'
<1> TypeOK /\ RecordsAgree /\ DueStays /\ DueAhead
  BY DEF DueInv
<1> DEFINE L == {"scan", "sweep", "evict", "unindex", "uncache", "alloc", "peek"}
<1>1. /\ \A h \in issued, s \in Sku : h \in Active'[s] => h \in Active[s]
      /\ \A q \in Caller : loc[q].due \subseteq issued
  BY IssuedOnlyLeaves DEF DueStays
<1>t. Active \in [Sku -> SUBSET Hold]
  BY ActiveType
<1>2. ASSUME NEW q \in Caller, pc'[q] \in L, NEW s \in Sku, NEW h \in Active'[s],
             h \in loc'[q].due, q # p
      PROVE  Ahead(q, s, h)'
  <2>1. pc'[q] = pc[q] /\ loc'[q] = loc[q]
    BY <1>2 DEF Others
  <2>2. h \in Active[s]
    BY <1>1, <1>2, <2>1
  <2>3. Ahead(q, s, h)
    BY <1>2, <2>1, <2>2 DEF DueAhead
  <2> QED
    BY <2>1, <2>3 DEF Ahead
<1>3. ASSUME pc'[p] \in L, NEW s \in Sku, NEW h \in Active'[s], h \in loc'[p].due
      PROVE  Ahead(p, s, h)'
  <2>1. CASE Starts(p)
    BY <2>1 DEF Starts, Ahead
  <2>2. ASSUME ~Starts(p), ~Takes(p)
        PROVE  h \in loc[p].due /\ h \in Active[s]
    <3>1. loc'[p].due \subseteq loc[p].due
      BY <2>2 DEF Acts, Aside, Fills, Scans, Tests, Skips, Decides, Looks, Places, Owed,
         Evicts, Unindexes, Uncaches, Indexes, Mirrors, SameHold, Resumes
    <3> QED
      BY <1>1, <1>3, <3>1
  <2>3. CASE Scans(p)
    <3>0. ~Starts(p) /\ ~Takes(p)
      BY <2>3 DEF Scans, Starts, Takes
    <3>1. Ahead(p, s, h)
      BY <2>2, <2>3, <3>0 DEF Scans, DueAhead
    <3>2. s \in loc[p].todo \/ <<s, h>> \in loc[p].cand
      BY <2>3, <3>1 DEF Scans, Ahead
    <3>3. h \in Active[s]
      BY <2>2, <3>0
    <3>4. PICK x \in loc[p].todo :
            /\ loc'[p].todo = loc[p].todo \ {x}
            /\ loc'[p].cand = loc[p].cand \cup ({x} \X Active[x])
            /\ pc'[p] = IF loc[p].todo = {x} THEN "sweep" ELSE "scan"
      BY <2>3 DEF Scans
    <3>5. CASE <<s, h>> \in loc'[p].cand
      BY <3>4, <3>5 DEF Ahead
    <3>6. CASE <<s, h>> \notin loc'[p].cand
      <4>1. s \in loc[p].todo /\ s # x
        BY <3>2, <3>3, <3>4, <3>6
      <4> QED
        BY <3>4, <4>1 DEF Ahead
    <3> QED
      BY <3>5, <3>6
  <2>4. CASE Tests(p)
    <3>0. ~Starts(p) /\ ~Takes(p)
      BY <2>4 DEF Tests, Starts, Takes
    <3>1. h \in Active[s] /\ h \in loc[p].due
      BY <2>2, <3>0
    <3>2. Ahead(p, s, h) /\ pc[p] = "sweep"
      BY <2>4, <3>1 DEF Tests, DueAhead
    <3>3. <<s, h>> \in loc[p].cand
      BY <3>2 DEF Ahead
    <3>4. PICK c \in loc[p].cand : \E expired \in ExpiredAnswers(c[2]) :
            /\ loc'[p].cand = loc[p].cand \ {c}
            /\ IF expired THEN pc'[p] = "evict" /\ loc'[p].victim = c
                          ELSE pc'[p] = "sweep"
      BY <2>4 DEF Tests
    <3>5. CASE c = <<s, h>>
      <4>1. \A e \in ExpiredAnswers(c[2]) : e
        BY <3>1, <3>5, DueTestsExpired
      <4> QED
        BY <3>4, <3>5, <4>1 DEF Ahead
    <3>6. CASE c # <<s, h>>
      <4>1. <<s, h>> \in loc'[p].cand /\ pc'[p] \in {"sweep", "evict"}
        BY <3>3, <3>4, <3>6
      <4> QED
        BY <4>1 DEF Ahead
    <3> QED
      BY <3>5, <3>6
  <2>5. CASE Skips(p)
    <3>0. ~Starts(p) /\ ~Takes(p)
      BY <2>5 DEF Skips, Starts, Takes
    <3>1. Ahead(p, s, h) /\ h \in Active[s]
      BY <2>2, <2>5, <3>0 DEF Skips, DueAhead
    <3>2. loc[p].victim # <<s, h>>
      BY <2>5, <3>1 DEF Skips
    <3> QED
      BY <2>5, <3>1, <3>2 DEF Skips, Ahead
  <2>6. CASE Evicts(p)
    <3>0. ~Starts(p) /\ ~Takes(p)
      BY <2>6 DEF Evicts, Starts, Takes
    <3>1. Ahead(p, s, h) /\ h \in Active[s]
      BY <2>2, <2>6, <3>0 DEF Evicts, DueAhead
    <3>2. loc[p].victim # <<s, h>>
      BY <1>t, <1>3, <2>6 DEF Evicts, Departs
    <3> QED
      BY <2>6, <3>1, <3>2 DEF Evicts, Ahead
  <2>7. CASE Takes(p)
    BY <1>3, <2>7 DEF Takes
  <2>8. CASE Unindexes(p)
    <3>0. ~Starts(p) /\ ~Takes(p)
      BY <2>8 DEF Unindexes, Starts, Takes
    <3>1. Ahead(p, s, h)
      BY <2>2, <2>8, <3>0 DEF Unindexes, DueAhead
    <3> QED
      BY <1>3, <2>8, <3>1 DEF Unindexes, Resumes, Ahead
  <2>9. CASE Uncaches(p)
    <3>0. ~Starts(p) /\ ~Takes(p)
      BY <2>9 DEF Uncaches, Starts, Takes
    <3>1. Ahead(p, s, h)
      BY <2>2, <2>9, <3>0 DEF Uncaches, DueAhead
    <3> QED
      BY <1>3, <2>9, <3>1 DEF Uncaches, Resumes, Ahead
  <2>10. CASE Decides(p)
    <3>0. ~Starts(p) /\ ~Takes(p)
      BY <2>10 DEF Decides, Starts, Takes
    <3>1. Ahead(p, s, h)
      BY <2>2, <2>10, <3>0 DEF Decides, DueAhead
    <3> QED
      \* no candidate is left, so no due hold is
      BY <2>10, <3>1 DEF Decides, Ahead
  <2>11. ~(Aside(p) \/ Fills(p) \/ Looks(p) \/ Places(p) \/ Owed(p) \/ Indexes(p) \/ Mirrors(p))
    BY <1>3 DEF Aside, Fills, Looks, Places, Owed, Indexes, Mirrors
  <2> QED
    BY <2>1, <2>3, <2>4, <2>5, <2>6, <2>7, <2>8, <2>9, <2>10, <2>11 DEF Acts
<1> QED
  BY <1>2, <1>3 DEF DueAhead

LEMMA DueNext ==
  ASSUME DueInv, [Next]_vars, ~WithCache
  PROVE  DueInv'
<1> TypeOK /\ RecordsAgree
  BY DEF DueInv
<1>1. TypeOK' /\ RecordsAgree'
  BY NextType, RecordsNext
<1>2. CASE Waits
  <2>1. expiresAt \in [Hold -> Time] /\ issued \subseteq Hold /\ now \in Nat
    BY ActiveType
  <2>2. \A p \in Caller : \A h \in loc[p].due :
          h \in issued /\ (expiresAt[h] # None => expiresAt[h] \in Nat /\ expiresAt[h] <= now)
    BY <2>1 DEF DueInv, DueStays, Time
  <2>3. DueStays'
    BY <1>2, <2>1, <2>2 DEF Waits, DueStays
  <2>4. DueAhead'
    BY <1>2 DEF Waits, DueInv, DueAhead, Ahead
  <2> QED
    BY <1>1, <2>3, <2>4 DEF DueInv
<1>3. ASSUME NEW p \in Caller, Acts(p), Others(p)
      PROVE  DueInv'
  BY <1>1, <1>3, DueStaysNext, DueAheadNext DEF DueInv
<1> QED
  BY <1>2, <1>3, StepShape DEF Shape, Others

\* Without a cache, reserve() and reserve_or_backorder() decide on availability
\* only after every hold that was due when the call began has left the pool,
\* whoever swept it, whoever else is placing, confirming or filling meanwhile,
\* and however the sweeps of several callers overlap.
THEOREM DueHoldsLeaveFirst ==
  ASSUME WithCache = FALSE
  PROVE  Spec => []DueHoldsCleared
<1>1. Init => DueInv
  <2>1. Init => \A p \in Caller : pc[p] = "idle" /\ loc[p].due = {}
    BY DEF Init, NoCall
  <2> QED
    BY <2>1, InitType, RecordsInit DEF DueInv, DueStays, DueAhead
<1>2. DueInv /\ [Next]_vars => DueInv'
  BY DueNext
<1>3. DueInv => DueHoldsCleared
  <2> SUFFICES ASSUME DueInv, NEW p \in Caller, pc[p] \in {"alloc", "peek"},
                      NEW h \in loc[p].due, NEW s \in Sku, Present(live[s].holds, h)
               PROVE  FALSE
    BY DEF DueHoldsCleared, At
  <2>1. h \in Hold /\ h \in Active[s]
    BY DEF DueInv, DueStays, TypeOK, Active, Keys
  <2>2. Ahead(p, s, h)
    BY <2>1 DEF DueInv, DueAhead
  <2> QED
    BY <2>2 DEF Ahead
<1> QED
  BY <1>1, <1>2, <1>3, PTL DEF Spec

-----------------------------------------------------------------------------
(* One caller at a time: the index follows the holds.                      *)

OneCaller == \A p, q \in Caller : p = q

InPool(h) == \E s \in Sku : h \in Active[s]

\* An index entry belongs to an active hold, or to the one being taken away.
EntryHasHold ==
  \A h \in Hold : expiryIndex[h] # None
    => InPool(h) \/ \E p \in Caller : pc[p] = "unindex" /\ loc[p].victim[2] = h

\* An active hold has its entry, or it is being entered; a hold that fills a
\* backorder never has one.
HoldHasEntry ==
  \A h \in Hold : InPool(h) /\ expiresAt[h] # FarFuture
    => expiryIndex[h] # None \/ \E p \in Caller : Indexing(p) /\ loc[p].hold = h

PlacedIsHeld == \A p \in Caller : Indexing(p) => InPool(loc[p].hold)

TakenIsGone ==
  \A p \in Caller : pc[p] \in {"unindex", "uncache"} => ~InPool(loc[p].victim[2])

IndexFollows == EntryHasHold /\ HoldHasEntry /\ PlacedIsHeld /\ TakenIsGone

IndexInv == TypeOK /\ RecordsAgree /\ IndexFollows

\* The caller is where it is: a step's shape names no other.
LEMMA IndexStep ==
  ASSUME IndexInv, OneCaller, NEW p \in Caller, Acts(p)
  PROVE  IndexFollows'
<1> TypeOK /\ RecordsAgree /\ IndexFollows
  BY DEF IndexInv
<1> USE DEF IndexFollows
<1>t. /\ Active \in [Sku -> SUBSET Hold]
      /\ expiresAt \in [Hold -> Time] /\ expiryIndex \in [Hold -> Time]
      /\ issued \subseteq Hold
      /\ loc[p].expires \in Nat
      /\ FarFuture \in Nat /\ FarFuture # None /\ None \notin Nat
      /\ pc[p] \in {"evict", "unindex", "uncache"}
           => loc[p].victim[1] \in Sku /\ loc[p].victim[2] \in Hold
      /\ Indexing(p) => loc[p].hold \in Hold
  BY ActiveType, FarFutureTime
<1>o. \A q \in Caller : q = p
  BY DEF OneCaller
\* a fresh identity has no entry and no hold
<1>f. \A h \in Fresh : expiryIndex[h] = None /\ ~InPool(h) /\ h \in Hold
  BY DEF RecordsAgree, EntriesIssued, ActiveIssued, Fresh, InPool
<1>1. CASE Aside(p) \/ Starts(p) \/ Scans(p) \/ Tests(p) \/ Skips(p) \/ Decides(p) \/ Looks(p)
  <2>1. UNCHANGED <<Active, expiresAt, expiryIndex>>
    BY <1>1 DEF Aside, Starts, Scans, Tests, Skips, Decides, Looks, Calm
  <2>2. /\ ~Indexing(p) /\ pc[p] \notin {"unindex", "uncache"}
        /\ ~Indexing(p)' /\ pc'[p] \notin {"unindex", "uncache"}
    BY <1>1 DEF Aside, Starts, Scans, Tests, Skips, Decides, Looks, Indexing
  <2> QED
    BY <1>o, <2>1, <2>2 DEF EntryHasHold, HoldHasEntry, PlacedIsHeld, TakenIsGone, InPool
<1>2. CASE Owed(p)
  <2>1. /\ UNCHANGED <<Active, expiresAt, expiryIndex>>
        /\ Indexing(p) /\ Indexing(p)' /\ loc'[p] = loc[p]
        /\ pc[p] \notin {"unindex", "uncache"} /\ pc'[p] \notin {"unindex", "uncache"}
    BY <1>2 DEF Owed, Calm, Indexing
  <2> QED
    BY <1>o, <2>1 DEF EntryHasHold, HoldHasEntry, PlacedIsHeld, TakenIsGone, InPool
<1>3. CASE Fills(p)
  <2>1. PICK s \in Sku, h \in Fresh :
          /\ \/ Active' = [Active EXCEPT ![s] = @ \cup {h}]
             \/ Active' = [Active EXCEPT ![s] = @ \ {h}]
          /\ expiresAt' = [expiresAt EXCEPT ![h] = FarFuture]
    BY <1>3 DEF Fills
  <2>2. UNCHANGED expiryIndex /\ pc[p] = "fill" /\ pc'[p] = "pick"
    BY <1>3 DEF Fills
  <2>3. \A k \in Hold \ {h} : (InPool(k)' <=> InPool(k)) /\ expiresAt'[k] = expiresAt[k]
    BY <1>t, <2>1 DEF InPool
  <2>4. expiresAt'[h] = FarFuture /\ expiryIndex[h] = None
    BY <1>t, <1>f, <2>1
  <2>5. EntryHasHold' /\ HoldHasEntry'
    BY <1>o, <2>2, <2>3, <2>4 DEF EntryHasHold, HoldHasEntry, Indexing
  <2> QED
    BY <1>o, <2>2, <2>5 DEF PlacedIsHeld, TakenIsGone, Indexing
<1>4. CASE Places(p)
  <2>1. PICK s \in Sku, h \in Hold : Enters(s, h, loc[p].expires) /\ loc'[p].hold = h
    BY <1>4 DEF Places
  <2>2. /\ pc[p] \in {"alloc", "place"} /\ pc'[p] \in {"short", "index"}
        /\ UNCHANGED expiryIndex
    BY <1>4, <2>1 DEF Places, Enters
  <2>3. \A k \in Hold \ {h} : (InPool(k)' <=> InPool(k)) /\ expiresAt'[k] = expiresAt[k]
    BY <1>t, <2>1 DEF InPool, Enters
  <2>4. InPool(h)'
    BY <1>t, <2>1 DEF InPool, Enters
  <2>5. EntryHasHold'
    BY <1>o, <2>2, <2>3, <2>4 DEF EntryHasHold
  <2>6. Indexing(p)'
    \* a hold is only placed with a quantity, so the call goes on to index it
    BY <1>4 DEF Places, Indexing
  <2>7. HoldHasEntry'
    BY <1>o, <2>1, <2>2, <2>3, <2>6 DEF HoldHasEntry, Indexing
  <2>8. PlacedIsHeld' /\ TakenIsGone'
    BY <1>o, <2>1, <2>2, <2>4 DEF PlacedIsHeld, TakenIsGone
  <2> QED
    BY <2>5, <2>7, <2>8
<1>5. ASSUME NEW s \in Sku, NEW h \in Hold, Departs(s, h), pc'[p] = "unindex",
             loc'[p].victim = <<s, h>>, ~Indexing(p), pc[p] # "unindex"
      PROVE  IndexFollows'
  <2>1. \A k \in Hold \ {h} : (InPool(k)' <=> InPool(k)) /\ expiresAt'[k] = expiresAt[k]
    BY <1>t, <1>5 DEF InPool, Departs
  <2>2. ~InPool(h)'
    BY <1>t, <1>5 DEF InPool, Departs, RecordsAgree, HeldOnce
  <2>3. UNCHANGED expiryIndex /\ ~Indexing(p)'
    BY <1>5 DEF Departs, Indexing
  <2>4. loc'[p].victim[2] = h
    BY <1>5
  <2>5. EntryHasHold' /\ HoldHasEntry'
    BY <1>o, <1>5, <2>1, <2>2, <2>3, <2>4 DEF EntryHasHold, HoldHasEntry
  <2>6. PlacedIsHeld' /\ TakenIsGone'
    BY <1>o, <2>2, <2>3, <2>4 DEF PlacedIsHeld, TakenIsGone
  <2> QED
    BY <2>5, <2>6
<1>6. CASE Evicts(p)
  <2>1. PICK s \in Sku, h \in Hold : Departs(s, h) /\ loc'[p].victim = <<s, h>>
    BY <1>6, ActiveType DEF Evicts
  <2> QED
    BY <1>5, <1>6, <2>1 DEF Evicts, Indexing
<1>7. CASE Takes(p)
  <2>1. PICK s \in Sku, h \in Hold : Departs(s, h) /\ loc'[p].victim = <<s, h>>
    BY <1>7 DEF Takes
  <2> QED
    BY <1>5, <1>7, <2>1 DEF Takes, Indexing
<1>8. CASE Unindexes(p)
  <2> DEFINE h == loc[p].victim[2]
  <2>1. h \in Hold /\ ~InPool(h)
    BY <1>8 DEF Unindexes, TakenIsGone
  <2>2. /\ expiryIndex' = [expiryIndex EXCEPT ![h] = None]
        /\ UNCHANGED <<Active, expiresAt>>
        /\ pc[p] = "unindex" /\ ~Indexing(p) /\ ~Indexing(p)'
        /\ pc'[p] # "unindex"
        /\ pc'[p] = "uncache" => loc'[p] = loc[p]
    BY <1>8 DEF Unindexes, Resumes, Indexing
  <2>3. \A k \in Hold : InPool(k)' <=> InPool(k)
    BY <2>2 DEF InPool
  <2>4. EntryHasHold' /\ HoldHasEntry'
    BY <1>o, <1>t, <2>1, <2>2, <2>3 DEF EntryHasHold, HoldHasEntry
  <2>5. PlacedIsHeld' /\ TakenIsGone'
    BY <1>o, <2>1, <2>2, <2>3 DEF PlacedIsHeld, TakenIsGone
  <2> QED
    BY <2>4, <2>5
<1>9. CASE Uncaches(p) \/ Mirrors(p)
  <2>1. /\ UNCHANGED <<Active, expiresAt, expiryIndex>>
        /\ ~Indexing(p) /\ ~Indexing(p)'
        /\ pc[p] # "unindex" /\ pc'[p] \notin {"unindex", "uncache"}
    BY <1>9 DEF Uncaches, Mirrors, Resumes, Indexing
  <2> QED
    BY <1>o, <2>1 DEF EntryHasHold, HoldHasEntry, PlacedIsHeld, TakenIsGone, InPool
<1>10. CASE Indexes(p)
  <2> DEFINE h == loc[p].hold
  <2>1. h \in Hold /\ InPool(h) /\ Indexing(p)
    BY <1>10 DEF Indexes, PlacedIsHeld, Indexing
  <2>2. /\ expiryIndex' = [expiryIndex EXCEPT ![h] = loc[p].expires]
        /\ UNCHANGED <<Active, expiresAt>>
        /\ ~Indexing(p)' /\ pc'[p] \notin {"unindex", "uncache"} /\ pc[p] # "unindex"
    BY <1>10 DEF Indexes, Indexing
  <2>3. \A k \in Hold : InPool(k)' <=> InPool(k)
    BY <2>2 DEF InPool
  <2>4. EntryHasHold' /\ HoldHasEntry'
    BY <1>o, <1>t, <2>1, <2>2, <2>3 DEF EntryHasHold, HoldHasEntry
  <2>5. PlacedIsHeld' /\ TakenIsGone'
    BY <1>o, <2>2 DEF PlacedIsHeld, TakenIsGone
  <2> QED
    BY <2>4, <2>5
<1> QED
  BY <1>1, <1>2, <1>3, <1>4, <1>6, <1>7, <1>8, <1>9, <1>10 DEF Acts

LEMMA IndexNext ==
  ASSUME IndexInv, [Next]_vars, OneCaller
  PROVE  IndexInv'
<1>1. TypeOK' /\ RecordsAgree'
  BY NextType, RecordsNext DEF IndexInv
<1>2. ASSUME Waits
      PROVE  IndexFollows'
  BY <1>2 DEF Waits, IndexInv, IndexFollows, EntryHasHold, HoldHasEntry, PlacedIsHeld,
     TakenIsGone, InPool, Indexing
<1>3. ASSUME NEW p \in Caller, Acts(p)
      PROVE  IndexFollows'
  BY <1>3, IndexStep
<1> QED
  BY <1>1, <1>2, <1>3, StepShape DEF Shape, IndexInv

LEMMA IndexInit ==
  ASSUME Init
  PROVE  IndexInv
<1>1. \A h \in Hold : ~InPool(h)
  BY DEF Init, InPool, Active, Keys, Present, EmptySku, NoQty
<1>2. \A p \in Caller : ~Indexing(p) /\ pc[p] = "idle"
  BY DEF Init, Indexing
<1> QED
  BY <1>1, <1>2, InitType, RecordsInit DEF Init, IndexInv, IndexFollows, EntryHasHold,
     HoldHasEntry, PlacedIsHeld, TakenIsGone

\* With one caller at a time, and however the cache fails, the expiry index
\* names between calls exactly the active holds that reserve calls placed.
THEOREM IndexIsExact ==
  ASSUME OneCaller
  PROVE  Spec => []IndexMatchesHolds
<1>1. Init => IndexInv
  BY IndexInit
<1>2. IndexInv /\ [Next]_vars => IndexInv'
  BY IndexNext
<1>3. IndexInv => IndexMatchesHolds
  <2> SUFFICES ASSUME IndexInv, \A p \in Caller : pc[p] = "idle",
                      NEW h \in Hold, expiresAt[h] # FarFuture
               PROVE  expiryIndex[h] # None <=> \E s \in Sku : Present(live[s].holds, h)
    BY DEF IndexMatchesHolds, Idle
  <2>1. InPool(h) <=> \E s \in Sku : Present(live[s].holds, h)
    BY DEF InPool, Active, Keys
  <2>2. expiryIndex[h] # None <=> InPool(h)
    BY DEF IndexInv, IndexFollows, EntryHasHold, HoldHasEntry, Indexing
  <2> QED
    BY <2>1, <2>2
<1> QED
  BY <1>1, <1>2, <1>3, PTL DEF Spec

-----------------------------------------------------------------------------
(* One caller and a cache that answers: no placed hold is swept early.     *)

\* The lifetime a call asks for reaches at least to its deadline.
LifetimeReaches ==
  \A p \in Caller : pc[p] \in {"alloc", "peek", "place", "short", "index", "mirror"}
    => loc[p].expires <= now + loc[p].ttl

\* The cache keeps a placed hold until its deadline, once it has heard of it.
CachedToDeadline ==
  WithCache => \A h \in Hold : InPool(h) /\ expiresAt[h] # FarFuture
    => \/ cachedHold[h] # None /\ cachedHold[h] >= expiresAt[h]
       \/ \E p \in Caller : (Indexing(p) \/ pc[p] = "mirror") /\ loc[p].hold = h

MirrorAgrees ==
  \A p \in Caller : pc[p] = "mirror" /\ expiresAt[loc[p].hold] # None
    => expiresAt[loc[p].hold] = loc[p].expires

VictimIsDue ==
  \A p \in Caller : pc[p] = "evict" /\ InPool(loc[p].victim[2])
    => \/ expiresAt[loc[p].victim[2]] = FarFuture
       \/ now >= expiresAt[loc[p].victim[2]]

PromiseKept == LifetimeReaches /\ CachedToDeadline /\ MirrorAgrees /\ VictimIsDue

PromiseInv == IndexInv /\ PromiseKept

LEMMA PooledIsPromised ==
  ASSUME RecordsAgree, NEW h \in Hold, InPool(h)
  PROVE  expiresAt[h] # None
BY DEF RecordsAgree, HeldIsPromised, InPool

\* A hold that tests expired is due, or fills a backorder.
LEMMA ExpiredIsDue ==
  ASSUME PromiseInv, OneCaller, CacheFails = FALSE, NEW p \in Caller, pc[p] = "sweep",
         NEW h \in Hold, InPool(h), TRUE \in ExpiredAnswers(h)
  PROVE  expiresAt[h] = FarFuture \/ now >= expiresAt[h]
<1> TypeOK /\ RecordsAgree /\ IndexFollows /\ PromiseKept
  BY DEF PromiseInv, IndexInv
<1> SUFFICES ASSUME expiresAt[h] # FarFuture
             PROVE  now >= expiresAt[h]
  OBVIOUS
<1>1. /\ expiresAt[h] # None /\ expiresAt[h] \in Nat /\ now \in Nat
      /\ cachedHold[h] \in Time /\ expiryIndex[h] \in Time
  BY ActiveType, PooledIsPromised DEF Time
<1>2. \A q \in Caller : ~Indexing(q) /\ pc[q] # "mirror"
  BY DEF OneCaller, Indexing
<1>3. CASE WithCache
  <2>1. cachedHold[h] # None /\ cachedHold[h] >= expiresAt[h]
    BY <1>2, <1>3 DEF PromiseKept, CachedToDeadline
  <2>2. ~CacheHolds(h)
    BY <1>3 DEF ExpiredAnswers
  <2>3. cachedHold[h] \in Nat /\ ~(now < cachedHold[h])
    BY <1>1, <2>1, <2>2 DEF CacheHolds, Time
  <2> QED
    BY <1>1, <2>1, <2>3
<1>4. CASE ~WithCache
  <2>1. expiryIndex[h] = expiresAt[h]
    BY <1>1, <1>2 DEF IndexFollows, HoldHasEntry, RecordsAgree, IndexAgrees
  <2>2. now >= expiryIndex[h]
    <3>1. expiryIndex[h] # None
      BY <1>1, <2>1
    <3> QED
      BY <1>4, <3>1 DEF ExpiredAnswers
  <2> QED
    BY <2>1, <2>2
<1> QED
  BY <1>3, <1>4

LEMMA PromiseStep ==
  ASSUME PromiseInv, OneCaller, CacheFails = FALSE, NEW p \in Caller, Acts(p)
  PROVE  PromiseKept'
<1> TypeOK /\ RecordsAgree /\ IndexFollows /\ PromiseKept
  BY DEF PromiseInv, IndexInv
<1> USE DEF PromiseKept
<1> DEFINE L == {"alloc", "peek", "place", "short", "index", "mirror"}
           B == Indexing(p) \/ pc[p] = "mirror"
<1>t. /\ Active \in [Sku -> SUBSET Hold]
      /\ expiresAt \in [Hold -> Time] /\ expiryIndex \in [Hold -> Time]
      /\ cachedHold \in [Hold -> Time]
      /\ now \in Nat /\ loc[p].expires \in Nat /\ loc[p].ttl \in Nat
      /\ FarFuture \in Nat /\ FarFuture # None /\ None \notin Nat
      /\ B => loc[p].hold \in Hold
      /\ pc[p] \in {"evict", "unindex", "uncache"} => loc[p].victim[2] \in Hold
  BY ActiveType, FarFutureTime
<1>o. \A q \in Caller : q = p
  BY DEF OneCaller
<1>n. now' = now
  BY DEF Acts, Aside, Fills, Starts, Scans, Tests, Skips, Decides, Looks, Places, Owed,
     Evicts, Takes, Unindexes, Uncaches, Indexes, Mirrors, Calm, Enters, Departs
<1>1. LifetimeReaches'
  <2>1. CASE Decides(p)
    <3>1. loc'[p].expires = now + loc'[p].ttl /\ loc'[p].ttl = loc[p].ttl
      BY <2>1 DEF Decides
    <3>2. loc'[p].expires <= now' + loc'[p].ttl
      BY <1>t, <1>n, <3>1
    <3> QED
      BY <1>o, <3>2 DEF LifetimeReaches
  <2>2. CASE Looks(p) \/ Places(p) \/ Owed(p) \/ Indexes(p)
    <3>1. pc'[p] \in L => pc[p] \in L /\ loc'[p].expires = loc[p].expires /\ loc'[p].ttl = loc[p].ttl
      BY <2>2 DEF Looks, Places, Owed, Indexes, SameHold
    <3>2. pc[p] \in L => loc[p].expires <= now + loc[p].ttl
      BY DEF LifetimeReaches
    <3> QED
      BY <1>n, <1>o, <3>1, <3>2 DEF LifetimeReaches
  <2>3. ASSUME ~(Decides(p) \/ Looks(p) \/ Places(p) \/ Owed(p) \/ Indexes(p))
        PROVE  pc'[p] \notin L
    BY <2>3 DEF Acts, Aside, Fills, Starts, Scans, Tests, Skips, Evicts, Takes, Unindexes,
       Uncaches, Mirrors, Resumes
  <2> QED
    BY <1>o, <2>1, <2>2, <2>3 DEF LifetimeReaches
<1>2. MirrorAgrees'
  <2>1. CASE Indexes(p)
    <3>1. Indexing(p) /\ UNCHANGED expiresAt
      BY <2>1 DEF Indexes, Indexing
    <3>2. expiresAt[loc[p].hold] # None => expiresAt[loc[p].hold] = loc[p].expires
      BY <3>1 DEF RecordsAgree, InHandAgrees
    <3>3. pc'[p] = "mirror" => loc'[p] = loc[p]
      BY <2>1 DEF Indexes
    <3> QED
      BY <1>o, <3>1, <3>2, <3>3 DEF MirrorAgrees
  <2>2. ASSUME ~Indexes(p)
        PROVE  pc'[p] # "mirror"
    BY <2>2 DEF Acts, Aside, Fills, Starts, Scans, Tests, Skips, Decides, Looks, Places, Owed,
       Evicts, Takes, Unindexes, Uncaches, Mirrors, Resumes
  <2> QED
    BY <1>o, <2>1, <2>2 DEF MirrorAgrees
<1>3. VictimIsDue'
  <2>1. CASE Tests(p)
    <3>1. PICK c \in loc[p].cand : \E expired \in ExpiredAnswers(c[2]) :
            IF expired THEN pc'[p] = "evict" /\ loc'[p].victim = c
                       ELSE pc'[p] = "sweep"
      BY <2>1 DEF Tests
    <3>2. PICK expired \in ExpiredAnswers(c[2]) :
            IF expired THEN pc'[p] = "evict" /\ loc'[p].victim = c
                       ELSE pc'[p] = "sweep"
      BY <3>1
    <3>3. pc[p] = "sweep" /\ UNCHANGED <<Active, expiresAt>>
      BY <2>1 DEF Tests, Calm
    <3>4. c[2] \in Hold
      <4>1. loc[p].cand \in SUBSET (Sku \X Hold)
        BY DEF TypeOK, Locals
      <4> QED
        BY <4>1
    <3>5. ASSUME pc'[p] = "evict", InPool(c[2])
          PROVE  expiresAt[c[2]] = FarFuture \/ now >= expiresAt[c[2]]
      <4>1. expired
        BY <3>2, <3>5
      <4>2. TRUE \in ExpiredAnswers(c[2])
        <5>1. \A e \in ExpiredAnswers(c[2]) : e => e = TRUE
          BY DEF ExpiredAnswers, CacheHolds
        <5> QED
          BY <3>2, <4>1, <5>1
      <4> QED
        BY <3>3, <3>4, <3>5, <4>2, ExpiredIsDue
    <3>6. ASSUME pc'[p] = "evict"
          PROVE  loc'[p].victim = c
      BY <3>2, <3>6
    <3>7. InPool(c[2])' <=> InPool(c[2])
      BY <3>3 DEF InPool
    <3>8. ASSUME pc'[p] = "evict", InPool(loc[p].victim[2])'
          PROVE  \/ expiresAt'[loc'[p].victim[2]] = FarFuture
                 \/ now' >= expiresAt'[loc'[p].victim[2]]
      <4>1. InPool(c[2])
        <5>1. loc'[p].victim = c
          BY <3>6, <3>8
        <5>2. InPool(loc'[p].victim[2])
          BY <3>3, <3>8 DEF InPool
        <5> QED
          BY <5>1, <5>2
      <4> QED
        BY <1>n, <3>3, <3>5, <3>6, <3>8, <4>1
    <3> QED
      BY <1>o, <3>8 DEF VictimIsDue
  <2>2. ASSUME ~Tests(p)
        PROVE  pc'[p] # "evict"
    BY <2>2 DEF Acts, Aside, Fills, Starts, Scans, Skips, Decides, Looks, Places, Owed,
       Evicts, Takes, Unindexes, Uncaches, Indexes, Mirrors, Resumes
  <2> QED
    BY <1>o, <2>1, <2>2 DEF VictimIsDue
<1>4. CachedToDeadline'
  <2> SUFFICES ASSUME WithCache, NEW h \in Hold, InPool(h)', expiresAt'[h] # FarFuture
               PROVE  \/ cachedHold'[h] # None /\ cachedHold'[h] >= expiresAt'[h]
                      \/ B' /\ loc'[p].hold = h
    BY DEF CachedToDeadline
  <2>0. ASSUME InPool(h), expiresAt[h] # FarFuture
        PROVE  \/ cachedHold[h] # None /\ cachedHold[h] >= expiresAt[h]
               \/ B /\ loc[p].hold = h
    BY <1>o, <2>0 DEF CachedToDeadline
  <2>1. CASE Aside(p) \/ Starts(p) \/ Scans(p) \/ Tests(p) \/ Skips(p) \/ Decides(p) \/ Looks(p)
    <3>1. UNCHANGED <<Active, expiresAt, cachedHold>> /\ ~B
      BY <2>1 DEF Aside, Starts, Scans, Tests, Skips, Decides, Looks, Calm, Indexing
    <3> QED
      BY <2>0, <3>1 DEF InPool
  <2>2. CASE Owed(p)
    <3>1. UNCHANGED <<Active, expiresAt, cachedHold>> /\ B' /\ loc'[p] = loc[p]
      BY <2>2 DEF Owed, Calm, Indexing
    <3> QED
      BY <2>0, <3>1 DEF InPool
  <2>3. CASE Fills(p)
    <3>1. PICK s \in Sku, k \in Fresh :
            /\ \/ Active' = [Active EXCEPT ![s] = @ \cup {k}]
               \/ Active' = [Active EXCEPT ![s] = @ \ {k}]
            /\ expiresAt' = [expiresAt EXCEPT ![k] = FarFuture]
      BY <2>3 DEF Fills
    <3>2. k # h /\ k \in Hold
      BY <1>t, <3>1 DEF Fresh
    <3>3. InPool(h) /\ expiresAt'[h] = expiresAt[h]
      BY <1>t, <3>1, <3>2 DEF InPool
    <3>4. UNCHANGED cachedHold /\ ~B
      BY <2>3 DEF Fills, Indexing
    <3> QED
      BY <2>0, <3>3, <3>4
  <2>4. CASE Places(p)
    <3>1. PICK s \in Sku, k \in Hold : Enters(s, k, loc[p].expires) /\ loc'[p].hold = k
      BY <2>4 DEF Places
    <3>2. B' /\ ~B /\ UNCHANGED cachedHold
      BY <2>4, <3>1 DEF Places, Indexing, Enters
    <3>3. CASE h = k
      BY <3>1, <3>2, <3>3
    <3>4. CASE h # k
      <4>1. InPool(h) /\ expiresAt'[h] = expiresAt[h]
        BY <1>t, <3>1, <3>4 DEF InPool, Enters
      <4> QED
        BY <2>0, <3>2, <4>1
    <3> QED
      BY <3>3, <3>4
  <2>5. ASSUME NEW s \in Sku, NEW k \in Hold, Departs(s, k), ~B
        PROVE  cachedHold'[h] # None /\ cachedHold'[h] >= expiresAt'[h]
    <3>1. InPool(h) /\ h # k
      BY <1>t, <2>5 DEF InPool, Departs, RecordsAgree, HeldOnce
    <3>2. expiresAt'[h] = expiresAt[h] /\ UNCHANGED cachedHold
      BY <1>t, <2>5, <3>1 DEF Departs
    <3> QED
      BY <2>0, <2>5, <3>1, <3>2
  <2>6. CASE Evicts(p)
    BY <2>5, <2>6 DEF Evicts, Indexing
  <2>7. CASE Takes(p)
    BY <2>5, <2>7 DEF Takes, Indexing
  <2>8. CASE Unindexes(p)
    <3>1. UNCHANGED <<Active, expiresAt, cachedHold>> /\ ~B
      BY <2>8 DEF Unindexes, Indexing
    <3> QED
      BY <2>0, <3>1 DEF InPool
  <2>9. CASE Uncaches(p)
    <3>1. /\ cachedHold' = [cachedHold EXCEPT ![loc[p].victim[2]] = None]
          /\ UNCHANGED <<Active, expiresAt>> /\ ~B
      BY <2>9 DEF Uncaches, Indexing
    <3>2. InPool(h) /\ ~InPool(loc[p].victim[2])
      BY <2>9, <3>1 DEF InPool, IndexFollows, TakenIsGone, Uncaches
    <3>3. h # loc[p].victim[2]
      BY <3>2
    <3>4. cachedHold'[h] = cachedHold[h]
      BY <1>t, <3>1, <3>3
    <3> QED
      BY <2>0, <3>1, <3>2, <3>4
  <2>10. CASE Indexes(p)
    <3>1. UNCHANGED <<Active, expiresAt, cachedHold>> /\ B' /\ loc'[p] = loc[p]
      BY <2>10 DEF Indexes, Indexing
    <3> QED
      BY <2>0, <3>1 DEF InPool
  <2>11. CASE Mirrors(p)
    <3>1. /\ cachedHold' = [cachedHold EXCEPT ![loc[p].hold] = now + loc[p].ttl]
          /\ UNCHANGED <<Active, expiresAt>>
          /\ pc[p] = "mirror"
      BY <2>11 DEF Mirrors
    <3>2. InPool(h) /\ expiresAt[h] # None
      BY <3>1, PooledIsPromised DEF InPool
    <3>3. CASE h = loc[p].hold
      <4>1. expiresAt[h] = loc[p].expires
        BY <3>1, <3>2, <3>3 DEF MirrorAgrees
      <4>2. loc[p].expires <= now + loc[p].ttl
        BY <3>1 DEF LifetimeReaches
      <4>3. cachedHold'[h] = now + loc[p].ttl
        BY <1>t, <3>1, <3>3
      <4>4. now + loc[p].ttl \in Nat
        BY <1>t
      <4>5. now + loc[p].ttl >= loc[p].expires
        BY <1>t, <4>2
      <4>6. expiresAt'[h] = loc[p].expires
        BY <3>1, <4>1
      <4> QED
        BY <1>t, <4>3, <4>4, <4>5, <4>6
    <3>4. CASE h # loc[p].hold
      <4>1. cachedHold'[h] = cachedHold[h]
        BY <1>t, <3>1, <3>4
      <4> QED
        BY <2>0, <3>1, <3>2, <3>4, <4>1
    <3> QED
      BY <3>3, <3>4
  <2> QED
    BY <2>1, <2>2, <2>3, <2>4, <2>6, <2>7, <2>8, <2>9, <2>10, <2>11 DEF Acts
<1> QED
  BY <1>1, <1>2, <1>3, <1>4

LEMMA PromiseNext ==
  ASSUME PromiseInv, [Next]_vars, OneCaller, CacheFails = FALSE
  PROVE  PromiseInv'
<1>1. IndexInv'
  BY IndexNext DEF PromiseInv
<1>2. ASSUME Waits
      PROVE  PromiseKept'
  <2>1. /\ now \in Nat /\ now' \in Nat /\ now <= now'
        /\ \A p \in Caller : loc[p].expires \in Nat /\ loc[p].ttl \in Nat
        /\ expiresAt \in [Hold -> Time]
    BY <1>2, ActiveType DEF Waits, PromiseInv, IndexInv
  <2>2. UNCHANGED <<Active, expiresAt, expiryIndex, cachedHold, issued, pc, loc>>
    BY <1>2 DEF Waits
  <2>3. LifetimeReaches'
    <3>1. \A p \in Caller : loc[p].expires <= now + loc[p].ttl
                              => loc[p].expires <= now' + loc[p].ttl
      BY <2>1
    <3> QED
      BY <2>2, <3>1 DEF PromiseInv, PromiseKept, LifetimeReaches
  <2>4. CachedToDeadline' /\ MirrorAgrees'
    BY <2>2 DEF PromiseInv, PromiseKept, CachedToDeadline, MirrorAgrees, InPool, Indexing
  <2>5. VictimIsDue'
    <3>1. ASSUME NEW p \in Caller, pc[p] = "evict", InPool(loc[p].victim[2])
          PROVE  \/ expiresAt[loc[p].victim[2]] = FarFuture
                 \/ now' >= expiresAt[loc[p].victim[2]]
      <4>1. loc[p].victim[2] \in Hold
        BY <3>1, ActiveType DEF PromiseInv, IndexInv
      <4>2. expiresAt[loc[p].victim[2]] \in Nat
        BY <2>1, <3>1, <4>1, PooledIsPromised DEF PromiseInv, IndexInv, Time
      <4>3. \/ expiresAt[loc[p].victim[2]] = FarFuture
            \/ now >= expiresAt[loc[p].victim[2]]
        BY <3>1 DEF PromiseInv, PromiseKept, VictimIsDue
      <4> QED
        BY <2>1, <4>2, <4>3
    <3> QED
      BY <2>2, <3>1 DEF VictimIsDue, InPool
  <2> QED
    BY <2>3, <2>4, <2>5 DEF PromiseKept
<1>3. ASSUME NEW p \in Caller, Acts(p)
      PROVE  PromiseKept'
  BY <1>3, PromiseStep
<1> QED
  BY <1>1, <1>2, <1>3, StepShape DEF Shape, PromiseInv, IndexInv

\* With one caller at a time and a cache that answers, no sweep takes a hold
\* that a reserve call placed before its lifetime is over, with or without
\* backorders in play.
THEOREM PromisesAreKept ==
  ASSUME OneCaller, CacheFails = FALSE
  PROVE  Spec => PlacedKeepsPromise
<1> DEFINE Kept == \A p \in Caller :
                     At(p, "evict") /\ pc'[p] = "unindex"
                       => LET h == loc[p].victim[2]
                          IN \/ expiresAt[h] = FarFuture
                             \/ expiresAt[h] # None /\ now >= expiresAt[h]
<1>1. Init => PromiseInv
  <2> SUFFICES ASSUME Init
               PROVE  PromiseInv
    OBVIOUS
  <2>1. \A h \in Hold : ~InPool(h)
    BY DEF Init, InPool, Active, Keys, Present, EmptySku, NoQty
  <2>2. \A p \in Caller : pc[p] = "idle"
    BY DEF Init
  <2> QED
    BY <2>1, <2>2, IndexInit DEF PromiseInv, PromiseKept, LifetimeReaches, CachedToDeadline,
       MirrorAgrees, VictimIsDue
<1>2. PromiseInv /\ [Next]_vars => PromiseInv'
  BY PromiseNext
<1>3. PromiseInv /\ [Next]_vars => [Kept]_vars
  <2> SUFFICES ASSUME PromiseInv, [Next]_vars, NEW p \in Caller,
                      pc[p] = "evict", pc'[p] = "unindex"
               PROVE  LET h == loc[p].victim[2]
                      IN \/ expiresAt[h] = FarFuture
                         \/ expiresAt[h] # None /\ now >= expiresAt[h]
    BY DEF At
  <2>1. Shape
    BY StepShape DEF PromiseInv, IndexInv
  <2>2. PICK q \in Caller : Acts(q) /\ q = p
    BY <2>1 DEF Shape, Waits
  <2>3. Evicts(p)
    BY <2>2 DEF Acts, Aside, Fills, Starts, Scans, Tests, Skips, Decides, Looks, Places, Owed,
       Takes, Unindexes, Uncaches, Indexes, Mirrors
  <2>4. loc[p].victim[2] \in Hold /\ InPool(loc[p].victim[2])
    BY <2>3 DEF Evicts, Departs, InPool
  <2>5. expiresAt[loc[p].victim[2]] # None
    BY <2>4, PooledIsPromised DEF PromiseInv, IndexInv
  <2> QED
    BY <2>4, <2>5 DEF PromiseInv, PromiseKept, VictimIsDue
<1> QED
  BY <1>1, <1>2, <1>3, PTL DEF Spec, PlacedKeepsPromise
=============================================================================
