---------------------------- MODULE Reservation ----------------------------
(***************************************************************************)
(* The stock reservation engine of the OMS reference application           *)
(* (examples/oms/src/reservation.rs): concurrent callers over a sharded,   *)
(* event-sourced read model, an expiry index and an optional read-model    *)
(* cache whose TTL is the authority for auto-release.                      *)
(*                                                                         *)
(* Every action below is one critical section (a shard lock, the expiry    *)
(* index lock, one cache call); what the code does between two of them is  *)
(* where other callers interleave.  A SKU stands for its shard: the locks  *)
(* of two SKUs are only ever taken one at a time.  The event log is kept   *)
(* as what rebuild_read_models() computes from it: `replayed` is the       *)
(* projection after every event appended so far.                           *)
(***************************************************************************)
EXTENDS SkuState

CONSTANTS
  Sku,           \* the SKUs of one tenant
  Caller,        \* tasks that may be inside the engine at the same time
  Calls,         \* the operations the callers use, a subset of AllCalls
  WithCache,     \* whether with_cache() attached a read-model cache
  CacheFails,    \* whether a cache call may return an error
  Qty,           \* quantities asked for and received (bound)
  Ttl,           \* hold lifetimes asked for (bound)
  MaxStock,      \* most units ever on hand of one SKU (bound)
  MaxTime,       \* the last clock reading (bound)
  FarFuture,     \* the deadline of a hold that fills a backorder, past MaxTime
  WordSize,      \* 2^32 in the program, smaller in the runs (bound)
  None           \* absence of an entry

AllCalls == {"receive", "return_stock", "reserve", "reserve_or_backorder",
             "sweep_expired", "fulfill_backorders", "confirm", "release"}

\* Calls that begin by sweeping expired holds.
Sweeping == {"reserve", "reserve_or_backorder", "sweep_expired"}

ASSUME ConstantsAssumption ==
  /\ Calls \subseteq AllCalls
  /\ WithCache \in BOOLEAN /\ CacheFails \in BOOLEAN
  /\ Qty \subseteq Nat \ {0} /\ Ttl \subseteq Nat
  /\ MaxStock \in Nat /\ MaxTime \in Nat /\ FarFuture \in Nat
  /\ WordSize \in Nat \ {0}
  /\ None \notin Nat /\ None \notin Hold /\ None \notin Sku

VARIABLES
  now,           \* the wall clock
  live,          \* Shard::states
  replayed,      \* ReservationProjection folded over Shard::store
  expiresAt,     \* SkuState::expires_at, the deadline promised with a hold
  expiryIndex,   \* ReservationEngine::expiry_index
  cachedHold,    \* when the "holds" cache entry of a hold lapses
  cachedOnHand,  \* the "on_hand" cache entry of a SKU
  issued,        \* identities Id::new() has drawn
  known,         \* holds an operation has returned to its caller
  pc,            \* where each caller is
  loc            \* the locals of each caller's current operation

vars == <<now, live, replayed, expiresAt, expiryIndex, cachedHold,
          cachedOnHand, issued, known, pc, loc>>

Time == Nat \cup {None}

NoCall == [op |-> "none", sku |-> None, qty |-> 0, ttl |-> 0, todo |-> {},
           cand |-> {}, victim |-> <<None, None>>, hold |-> None,
           want |-> 0, expires |-> 0, bo |-> None, got |-> {}, due |-> {}]

Init ==
  /\ now = 0
  /\ live = [s \in Sku |-> EmptySku]
  /\ replayed = [s \in Sku |-> EmptySku]
  /\ expiresAt = [h \in Hold |-> None]
  /\ expiryIndex = [h \in Hold |-> None]
  /\ cachedHold = [h \in Hold |-> None]
  /\ cachedOnHand = [s \in Sku |-> None]
  /\ issued = {} /\ known = {}
  /\ pc = [p \in Caller |-> "idle"]
  /\ loc = [p \in Caller |-> NoCall]

-----------------------------------------------------------------------------
(* Shared pieces.                                                          *)

Idle(p) == pc[p] = "idle"
At(p, l) == pc[p] = l
Goto(p, l) == pc' = [pc EXCEPT ![p] = l]
Set(p, r) == loc' = [loc EXCEPT ![p] = r]
Finish(p) == Goto(p, "idle") /\ Set(p, NoCall)

\* One critical section: the state of `s` changes and its event is appended.
Record(s, st, ev) ==
  /\ live' = [live EXCEPT ![s] = st]
  /\ replayed' = [replayed EXCEPT ![s] = Project(@, ev)]

Fresh == Hold \ issued

\* Identities the calls in flight may still draw; a call that could run out
\* of them does not begin (the bound Hold puts on a run).
Drawing(op) == {p \in Caller : loc[p].op = op}
InFlight == Cardinality(Drawing("reserve"))
            + 2 * Cardinality(Drawing("reserve_or_backorder"))
            + Cardinality({p \in Caller : At(p, "fill")})
Draws(op) == CASE op = "reserve" -> 1
               [] op = "reserve_or_backorder" -> 2
               [] OTHER -> 0

Stores == <<expiryIndex, cachedHold, cachedOnHand>>

\* `x as u32` for an i64: two's complement truncation.
AsU32(x) == x % WordSize

CacheHolds(h) == cachedHold[h] # None /\ now < cachedHold[h]

\* variant: a hold outlives the instant its deadline is reached
ExpiredAnswers_strict(h) ==
  IF WithCache
    THEN {~CacheHolds(h)} \cup (IF CacheFails THEN {TRUE} ELSE {})
    ELSE {IF expiryIndex[h] = None THEN TRUE ELSE now > expiryIndex[h]}

\* The answers is_expired() can give now: a failed cache read counts as a miss.
ExpiredAnswers(h) ==
  IF WithCache
    THEN {~CacheHolds(h)} \cup (IF CacheFails THEN {TRUE} ELSE {})
    ELSE {IF expiryIndex[h] = None THEN TRUE ELSE now >= expiryIndex[h]}

-----------------------------------------------------------------------------
(* receive() and return_stock(): the stock changes under the lock, then    *)
(* the on-hand total is read back and put into the cache.                  *)

AddToStock(p, op, s, q, ev) ==
  /\ Idle(p) /\ op \in Calls
  /\ live[s].onHand + q <= MaxStock
  /\ Record(s, AddStock(live[s], q), ev)
  /\ IF WithCache
       THEN Goto(p, "read") /\ Set(p, [NoCall EXCEPT !.op = op, !.sku = s])
       ELSE UNCHANGED <<pc, loc>>
  /\ UNCHANGED <<now, expiresAt, Stores, issued, known>>

Receive(p, s, q) == AddToStock(p, "receive", s, q, Received(q))
ReturnStock(p, s, q) == AddToStock(p, "return_stock", s, q, Returned(q))

ReadOnHand(p) ==
  /\ At(p, "read")
  /\ Goto(p, "put")
  /\ Set(p, [loc[p] EXCEPT !.want = live[loc[p].sku].onHand])
  /\ UNCHANGED <<now, live, replayed, expiresAt, Stores, issued, known>>

PutOnHand(p) ==
  /\ At(p, "put")
  /\ \/ cachedOnHand' = [cachedOnHand EXCEPT ![loc[p].sku] = loc[p].want]
     \/ CacheFails /\ UNCHANGED cachedOnHand
  /\ Finish(p)
  /\ UNCHANGED <<now, live, replayed, expiresAt, expiryIndex, cachedHold,
                 issued, known>>

-----------------------------------------------------------------------------
(* sweep_expired(), alone or as the first step of the two reserve calls:   *)
(* a snapshot of the holds, shard by shard, then one test per candidate    *)
(* and, for those that test expired, release_internal().                   *)

\* Holds whose deadline has passed (`due` remembers them for a property).
DueHolds == {h \in Hold : expiresAt[h] # None /\ expiresAt[h] <= now}

StartSweep(p, op, s, q, t) ==
  /\ Idle(p) /\ op \in Calls \cap Sweeping
  /\ Cardinality(Fresh) >= Draws(op) + InFlight
  /\ Goto(p, "scan")
  /\ Set(p, [NoCall EXCEPT !.op = op, !.sku = s, !.qty = q, !.ttl = t,
                           !.todo = Sku, !.due = DueHolds])
  /\ UNCHANGED <<now, live, replayed, expiresAt, Stores, issued, known>>

Scan(p) ==
  /\ At(p, "scan")
  /\ \E s \in loc[p].todo :
       /\ Set(p, [loc[p] EXCEPT !.todo = @ \ {s},
                                !.cand = @ \cup ({s} \X Keys(live[s].holds))])
       /\ Goto(p, IF loc[p].todo = {s} THEN "sweep" ELSE "scan")
  /\ UNCHANGED <<now, live, replayed, expiresAt, Stores, issued, known>>

CheckCandidate(p) ==
  /\ At(p, "sweep")
  /\ \E c \in loc[p].cand : \E expired \in ExpiredAnswers(c[2]) :
       IF expired
         THEN /\ Set(p, [loc[p] EXCEPT !.cand = @ \ {c}, !.victim = c])
              /\ Goto(p, "evict")
         ELSE /\ Set(p, [loc[p] EXCEPT !.cand = @ \ {c}])
              /\ UNCHANGED pc
  /\ UNCHANGED <<now, live, replayed, expiresAt, Stores, issued, known>>

\* release_internal() under the shard lock, for the hold loc[p].victim.
DropVictim(p) ==
  LET s == loc[p].victim[1]
      h == loc[p].victim[2]
  IN /\ Present(live[s].holds, h)
     /\ Record(s, DropHold(live[s], h), Released(h))
     /\ expiresAt' = [expiresAt EXCEPT ![h] = None]

Evict(p) ==
  /\ At(p, "evict")
  /\ DropVictim(p)
  /\ Goto(p, "unindex")
  /\ UNCHANGED <<now, Stores, issued, known, loc>>

\* variant: the caller waits for the candidate to come back
EvictNothing_waits(p) ==
  /\ At(p, "evict")
  /\ ~Present(live[loc[p].victim[1]].holds, loc[p].victim[2])
  /\ UNCHANGED vars

\* Someone else released or captured the candidate first.
EvictNothing(p) ==
  /\ At(p, "evict")
  /\ ~Present(live[loc[p].victim[1]].holds, loc[p].victim[2])
  /\ Goto(p, "sweep")
  /\ Set(p, [loc[p] EXCEPT !.victim = <<None, None>>])
  /\ UNCHANGED <<now, live, replayed, expiresAt, Stores, issued, known>>

\* release_cache_and_index(), then back into the sweep or out of the call.
Resume(p) ==
  IF loc[p].op \in Sweeping
    THEN Goto(p, "sweep") /\ Set(p, [loc[p] EXCEPT !.victim = <<None, None>>])
    ELSE Finish(p)

\* variant: the expiry index keeps the entry of a hold that is gone
Unindex_keepsEntry(p) ==
  /\ At(p, "unindex")
  /\ IF WithCache THEN Goto(p, "uncache") /\ UNCHANGED loc ELSE Resume(p)
  /\ UNCHANGED <<now, live, replayed, expiresAt, Stores, issued, known>>

Unindex(p) ==
  /\ At(p, "unindex")
  /\ expiryIndex' = [expiryIndex EXCEPT ![loc[p].victim[2]] = None]
  /\ IF WithCache THEN Goto(p, "uncache") /\ UNCHANGED loc ELSE Resume(p)
  /\ UNCHANGED <<now, live, replayed, expiresAt, cachedHold, cachedOnHand,
                 issued, known>>

Uncache(p) ==
  /\ At(p, "uncache")
  /\ \/ cachedHold' = [cachedHold EXCEPT ![loc[p].victim[2]] = None]
     \/ CacheFails /\ UNCHANGED cachedHold
  /\ Resume(p)
  /\ UNCHANGED <<now, live, replayed, expiresAt, expiryIndex, cachedOnHand,
                 issued, known>>

\* The sweep is over; the reserve calls fix the deadline of the hold to come.
SweepDone(p) ==
  /\ At(p, "sweep") /\ loc[p].cand = {}
  /\ IF loc[p].op = "sweep_expired"
       THEN Finish(p)
       ELSE /\ Goto(p, IF loc[p].op = "reserve" THEN "alloc" ELSE "peek")
            /\ Set(p, [loc[p] EXCEPT !.expires = now + loc[p].ttl])
  /\ UNCHANGED <<now, live, replayed, expiresAt, Stores, issued, known>>

-----------------------------------------------------------------------------
(* reserve(): the test and the hold are one critical section; the expiry   *)
(* index and the cache learn of the hold afterwards.                       *)

\* A new hold appears in the state of loc[p].sku, with its event and deadline.
PlaceHold(p, h, q) ==
  LET s == loc[p].sku
  IN /\ Record(s, PutHold(live[s], h, q), HoldPlaced(h, q))
     /\ expiresAt' = [expiresAt EXCEPT ![h] = loc[p].expires]
     /\ issued' = issued \cup {h}

\* variant: the test is made against the units on hand
Alloc_onHand(p) ==
  /\ At(p, "alloc")
  /\ live[loc[p].sku].onHand >= loc[p].qty
  /\ \E h \in Fresh :
       /\ PlaceHold(p, h, loc[p].qty)
       /\ Set(p, [loc[p] EXCEPT !.hold = h])
  /\ Goto(p, "index")
  /\ UNCHANGED <<now, Stores, known>>

Alloc(p) ==
  /\ At(p, "alloc")
  /\ Available(live[loc[p].sku]) >= loc[p].qty
  /\ \E h \in Fresh :
       /\ PlaceHold(p, h, loc[p].qty)
       /\ Set(p, [loc[p] EXCEPT !.hold = h])
  /\ Goto(p, "index")
  /\ UNCHANGED <<now, Stores, known>>

InsufficientStock(p) ==
  /\ At(p, "alloc")
  /\ Available(live[loc[p].sku]) < loc[p].qty
  /\ Finish(p)
  /\ UNCHANGED <<now, live, replayed, expiresAt, Stores, issued, known>>

IndexHold(p) ==
  /\ At(p, "index")
  /\ expiryIndex' = [expiryIndex EXCEPT ![loc[p].hold] = loc[p].expires]
  /\ IF WithCache
       THEN Goto(p, "mirror") /\ UNCHANGED <<loc, known>>
       ELSE Finish(p) /\ known' = known \cup {loc[p].hold}
  /\ UNCHANGED <<now, live, replayed, expiresAt, cachedHold, cachedOnHand, issued>>

\* variant: the entry is put with a lifetime of zero
MirrorHold_zeroTtl(p) ==
  /\ At(p, "mirror")
  /\ cachedHold' = [cachedHold EXCEPT ![loc[p].hold] = now]
  /\ Finish(p)
  /\ known' = known \cup {loc[p].hold}
  /\ UNCHANGED <<now, live, replayed, expiresAt, expiryIndex, cachedOnHand, issued>>

\* The cache counts the lifetime from the moment of the put.
MirrorHold(p) ==
  /\ At(p, "mirror")
  /\ \/ cachedHold' = [cachedHold EXCEPT ![loc[p].hold] = now + loc[p].ttl]
     \/ CacheFails /\ UNCHANGED cachedHold
  /\ Finish(p)
  /\ known' = known \cup {loc[p].hold}
  /\ UNCHANGED <<now, live, replayed, expiresAt, expiryIndex, cachedOnHand, issued>>

-----------------------------------------------------------------------------
(* reserve_or_backorder(): the quantity is computed under one lock, the    *)
(* hold placed under a second, the backorder under a third.                *)

Lesser(a, b) == IF a <= b THEN a ELSE b

Peek(p) ==
  /\ At(p, "peek")
  /\ LET w == Lesser(AsU32(Available(live[loc[p].sku])), loc[p].qty)
     IN /\ Set(p, [loc[p] EXCEPT !.want = w])
        /\ Goto(p, IF w > 0 THEN "place" ELSE "short")
  /\ UNCHANGED <<now, live, replayed, expiresAt, Stores, issued, known>>

Place(p) ==
  /\ At(p, "place")
  /\ \E h \in Fresh :
       /\ PlaceHold(p, h, loc[p].want)
       /\ Set(p, [loc[p] EXCEPT !.hold = h])
  /\ Goto(p, IF loc[p].want < loc[p].qty THEN "short" ELSE "index")
  /\ UNCHANGED <<now, Stores, known>>

Short(p) ==
  /\ At(p, "short")
  /\ \E b \in Fresh :
       LET s == loc[p].sku
           q == loc[p].qty - loc[p].want
       IN /\ Record(s, PutBackorder(live[s], b, q), BackorderPlaced(b, q))
          /\ issued' = issued \cup {b}
  /\ IF loc[p].want > 0 THEN Goto(p, "index") /\ UNCHANGED loc ELSE Finish(p)
  /\ UNCHANGED <<now, expiresAt, Stores, known>>

-----------------------------------------------------------------------------
(* fulfill_backorders(): SKU by SKU, a coverable backorder is picked under *)
(* one lock and promoted under the next.                                   *)

StartFulfill(p) ==
  /\ Idle(p) /\ "fulfill_backorders" \in Calls
  /\ \E s \in Sku : Set(p, [NoCall EXCEPT !.op = "fulfill_backorders",
                                          !.sku = s, !.todo = Sku \ {s}])
  /\ Goto(p, "pick")
  /\ UNCHANGED <<now, live, replayed, expiresAt, Stores, issued, known>>

Coverable(st) ==
  {b \in Keys(st.backorders) : Available(st) >= st.backorders[b]}

Pick(p) ==
  /\ At(p, "pick")
  /\ Cardinality(Fresh) > InFlight
  /\ \E b \in Coverable(live[loc[p].sku]) :
       Set(p, [loc[p] EXCEPT !.bo = b, !.qty = live[loc[p].sku].backorders[b]])
  /\ Goto(p, "fill")
  /\ UNCHANGED <<now, live, replayed, expiresAt, Stores, issued, known>>

Fill(p) ==
  /\ At(p, "fill")
  /\ \E h \in Fresh :
       LET s == loc[p].sku
           q == loc[p].qty
       IN /\ Record(s, PromoteBackorder(live[s], loc[p].bo, h, q),
                    BackorderFilled(h, q))
          /\ expiresAt' = [expiresAt EXCEPT ![h] = FarFuture]
          /\ issued' = issued \cup {h}
          /\ Set(p, [loc[p] EXCEPT !.bo = None, !.qty = 0, !.got = @ \cup {h}])
  /\ Goto(p, "pick")
  /\ UNCHANGED <<now, Stores, known>>

NothingToPick(p) ==
  /\ At(p, "pick")
  /\ Cardinality(Fresh) > InFlight
  /\ Coverable(live[loc[p].sku]) = {}
  /\ IF loc[p].todo = {}
       THEN Finish(p) /\ known' = known \cup loc[p].got
       ELSE /\ \E s \in loc[p].todo :
                 Set(p, [loc[p] EXCEPT !.sku = s, !.todo = @ \ {s}])
            /\ UNCHANGED <<pc, known>>
  /\ UNCHANGED <<now, live, replayed, expiresAt, Stores, issued>>

-----------------------------------------------------------------------------
(* confirm() and release() of a hold some call returned.  A hold that is   *)
(* gone is answered with UnknownHold and changes nothing.                  *)

Confirm(p, s, h) ==
  /\ Idle(p) /\ "confirm" \in Calls /\ h \in known
  /\ Present(live[s].holds, h)
  /\ Record(s, CommitHold(live[s], h), Captured(h))
  /\ expiresAt' = [expiresAt EXCEPT ![h] = None]
  /\ Goto(p, "unindex")
  /\ Set(p, [NoCall EXCEPT !.op = "confirm", !.victim = <<s, h>>])
  /\ UNCHANGED <<now, Stores, issued, known>>

Release(p, s, h) ==
  /\ Idle(p) /\ "release" \in Calls /\ h \in known
  /\ Present(live[s].holds, h)
  /\ Record(s, DropHold(live[s], h), Released(h))
  /\ expiresAt' = [expiresAt EXCEPT ![h] = None]
  /\ Goto(p, "unindex")
  /\ Set(p, [NoCall EXCEPT !.op = "release", !.victim = <<s, h>>])
  /\ UNCHANGED <<now, Stores, issued, known>>

-----------------------------------------------------------------------------
Tick ==
  /\ now < MaxTime
  /\ now' = now + 1
  /\ UNCHANGED <<live, replayed, expiresAt, Stores, issued, known, pc, loc>>

\* The rest of a call once it has begun.
Step(p) ==
  \/ ReadOnHand(p) \/ PutOnHand(p)
  \/ Scan(p) \/ CheckCandidate(p) \/ Evict(p) \/ EvictNothing(p)
  \/ Unindex(p) \/ Uncache(p) \/ SweepDone(p)
  \/ Alloc(p) \/ InsufficientStock(p) \/ IndexHold(p) \/ MirrorHold(p)
  \/ Peek(p) \/ Place(p) \/ Short(p)
  \/ Pick(p) \/ Fill(p) \/ NothingToPick(p)

Begin(p) ==
  \/ \E s \in Sku, q \in Qty : Receive(p, s, q) \/ ReturnStock(p, s, q)
  \/ \E op \in {"reserve", "reserve_or_backorder"}, s \in Sku, q \in Qty, t \in Ttl :
       StartSweep(p, op, s, q, t)
  \/ StartSweep(p, "sweep_expired", None, 0, 0)
  \/ StartFulfill(p)
  \/ \E s \in Sku, h \in Hold : Confirm(p, s, h) \/ Release(p, s, h)

Next == Tick \/ \E p \in Caller : Begin(p) \/ Step(p)

Spec == Init /\ [][Next]_vars

\* Tokio polls a started call until it returns.
FairSpec == Spec /\ \A p \in Caller : WF_vars(Step(p))

-----------------------------------------------------------------------------
Locals == [op : AllCalls \cup {"none"}, sku : Sku \cup {None}, qty : Nat,
           ttl : Nat, todo : SUBSET Sku, cand : SUBSET (Sku \X Hold),
           victim : (Sku \cup {None}) \X (Hold \cup {None}),
           hold : Hold \cup {None}, want : Int, expires : Nat,
           bo : Hold \cup {None}, got : SUBSET Hold, due : SUBSET Hold]

Labels == {"idle", "read", "put", "scan", "sweep", "evict", "unindex",
           "uncache", "alloc", "index", "mirror", "peek", "place", "short",
           "pick", "fill"}

\* What a caller's locals hold at each place of its call: the operation that
\* leads there, and the locals the code has assigned by then.
LocalsOK(l, r) ==
  /\ r.op \in {"reserve", "reserve_or_backorder"} => r.sku \in Sku /\ r.qty \in Qty
  /\ l \in {"scan", "sweep", "evict"} => r.op \in Sweeping
  /\ l = "alloc" => r.op = "reserve"
  /\ l \in {"peek", "place", "short"} => r.op = "reserve_or_backorder"
  /\ l \in {"read", "put", "pick", "fill"} => r.sku \in Sku
  /\ l \in {"pick", "fill"} => r.op = "fulfill_backorders"
  /\ l = "place" => r.want \in 1..r.qty
  /\ l = "short" => r.want \in 0..r.qty /\ (r.want > 0 => r.hold \in Hold)
  /\ l \in {"index", "mirror"} => r.hold \in Hold
  /\ l = "fill" => r.bo \in Hold
  /\ l \in {"evict", "unindex", "uncache"} => r.victim \in Sku \X Hold

\* The engine's state always has its type, and a caller only ever works on
\* locals its call has assigned (Rust's definite assignment).
TypeOK ==
  /\ now \in Nat
  /\ live \in [Sku -> SkuStates] /\ replayed \in [Sku -> SkuStates]
  /\ expiresAt \in [Hold -> Time] /\ expiryIndex \in [Hold -> Time]
  /\ cachedHold \in [Hold -> Time]
  /\ cachedOnHand \in [Sku -> Int \cup {None}]
  /\ issued \subseteq Hold /\ known \subseteq Hold
  /\ pc \in [Caller -> Labels] /\ loc \in [Caller -> Locals]
  /\ \A p \in Caller : LocalsOK(pc[p], loc[p])

\* Units committed or held never exceed the units on hand: no unit is
\* allocated twice (reservation.rs:11-16, and the test
\* concurrent_reserves_same_sku_never_oversell).
NoOversell == \A s \in Sku : Available(live[s]) >= 0

\* Rebuilding the read model from the event log gives the live state, at every
\* moment no shard lock is held (rebuild_read_models, reservation.rs:643-645).
ReplayMatchesLive == replayed = live

\* A sweep takes a hold away only when the lifetime it was placed with is
\* over (the module documentation of reservation.rs, lines 5-10).
SweepKeepsPromise ==
  [][\A p \in Caller :
       At(p, "evict") /\ pc'[p] = "unindex"
         => LET h == loc[p].victim[2]
            IN expiresAt[h] # None /\ now >= expiresAt[h]]_vars

\* The same of the holds that reserve calls placed: with one caller and a cache
\* that works, none of them is swept before its time, backorders or not.
PlacedKeepsPromise ==
  [][\A p \in Caller :
       At(p, "evict") /\ pc'[p] = "unindex"
         => LET h == loc[p].victim[2]
            IN \/ expiresAt[h] = FarFuture
               \/ expiresAt[h] # None /\ now >= expiresAt[h]]_vars

\* A reserve call decides on availability only after every hold that was
\* already due when the call began has been taken out of the pool, whoever
\* swept it (reservation.rs:423-432).
DueHoldsCleared ==
  \A p \in Caller : At(p, "alloc") \/ At(p, "peek")
    => \A h \in loc[p].due, s \in Sku : ~Present(live[s].holds, h)

\* Between calls the expiry index names exactly the active holds that reserve
\* calls placed: none is missing (it would be swept at once), none is left behind.
IndexMatchesHolds ==
  (\A p \in Caller : Idle(p))
    => \A h \in {k \in Hold : expiresAt[k] # FarFuture} :
         expiryIndex[h] # None <=> \E s \in Sku : Present(live[s].holds, h)

\* Every call returns: no caller waits for another, and a sweep ends although
\* others keep placing holds.
CallsReturn == \A p \in Caller : ~Idle(p) ~> Idle(p)

-----------------------------------------------------------------------------
Pool == INSTANCE StockPool WITH
          free     <- [s \in Sku |-> Available(live[s])],
          promised <- [s \in Sku |-> live[s].holds],
          shipped  <- [s \in Sku |-> live[s].committed],
          used     <- issued

\* With reserve(), confirm(), release() and sweeps only, the engine is a stock
\* pool: it promises free units only, each hold once, and every promise is
\* cancelled or shipped whole.
PoolRefinement == Pool!Spec

=============================================================================
