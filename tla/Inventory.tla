----------------------------- MODULE Inventory -----------------------------
(***************************************************************************)
(* The warehouse inventory engine (examples/wms/src/inventory.rs): stock   *)
(* per bin under one shard lock each, a lot ledger beside the aggregate,   *)
(* an event log both are replayed from, a registry of serial numbers and a *)
(* registry of pallets behind mutexes of their own, and a read model that  *)
(* is cached after the shard lock is dropped.                              *)
(*                                                                         *)
(* One SKU is modelled: a stock key is a bin.  The log is kept folded: its *)
(* length, and the lots its lot events replay to.  Serials are drawn from  *)
(* the front of a lot, as `drain(0..n)` does.                              *)
(***************************************************************************)
EXTENDS Integers, Sequences, FiniteSets, FiniteSetsExt, SequencesExt, Functions

CONSTANTS
  Picker,       \* tasks that use the engine
  Bin, Lot, Serial,
  Receipts,     \* the receipts offered
  Movements,    \* the signed deltas apply() is called with
  PickSizes,    \* quantities asked for
  Loads,        \* the lines pallets are created with: sequences of [lot, qty]
  Counts,       \* what cycle counts find
  Today,        \* the as_of date of the picks
  ReorderPoint,
  MaxStockCalls,     \* calls of the engine (bound)
  NoBin

Line == [lot : Lot, qty : Nat]
LotDetail == [lot : Lot, qty : Nat, expiry : Nat, serials : Seq(Serial)]

ASSUME InventoryAssumption ==
  /\ Today \in Nat /\ ReorderPoint \in Int /\ MaxStockCalls \in Nat /\ NoBin \notin Bin
  /\ IsFiniteSet(Picker) /\ IsFiniteSet(Bin)
  /\ Movements \subseteq Int /\ PickSizes \subseteq Nat \ {0} /\ Counts \subseteq Int
  /\ Loads \subseteq Seq(Line)
  /\ \A r \in Receipts : /\ r \in LotDetail /\ r.qty # 0
                         /\ r.serials = <<>> \/ Len(r.serials) = r.qty

VARIABLES
  onHand,     \* Shard::on_hand
  lots,       \* Shard::lots, the live lot ledger
  version,    \* the length of each key's log, movements and lot events alike
  replayed,   \* what LotProjection makes of the log
  serialAt,   \* InventoryEngine::serials
  pallets,    \* InventoryEngine::pallets, in the order of their creation
  stockCache, \* the "inventory" read model
  signalled,  \* bins a jobs.replenish message was published for
  job,        \* what each picker is doing
  calls,      \* calls made
  confirmed,  \* history: the sum of the deltas the engine reported as applied
  torn,       \* history: bins where a call failed after changing the lot ledger
  bulk,       \* history: bins moved by apply(), which knows no lots
  unsent,    \* history: <<"put", b>>, <<"job", b>>: what the last after_write of a bin
              \* could not deliver to the cache and to the bus
  unannounced,\* history: bins changed without after_write, or by calls that overlap
  overlapped  \* history: two calls were in flight

wvars == <<onHand, lots, version, replayed, serialAt, pallets, stockCache, signalled, unsent,
           job, calls, confirmed, torn, bulk, unannounced, overlapped>>

Empty == [x \in {} |-> NoBin]
Free == [at |-> "idle", bin |-> NoBin, to |-> NoBin, receipt |-> <<>>, qty |-> 0,
         todo |-> <<>>, pallet |-> 0, seen |-> 0, load |-> <<>>, leaving |-> {}, read |-> Empty]

\* f with v at every member of S.
Written(f, S, v) == [x \in DOMAIN f \union S |-> IF x \in S THEN v ELSE f[x]]

WInit ==
  /\ onHand = [b \in Bin |-> 0] /\ version = [b \in Bin |-> 0]
  /\ lots = [b \in Bin |-> <<>>] /\ replayed = [b \in Bin |-> <<>>]
  /\ serialAt = Empty /\ pallets = <<>> /\ stockCache = Empty
  /\ signalled = {} /\ unsent = {}
  /\ job = [c \in Picker |-> Free]
  /\ calls = 0 /\ confirmed = 0 /\ torn = {} /\ bulk = {}
  /\ unannounced = {} /\ overlapped = FALSE

-----------------------------------------------------------------------------
(* The lot ledger.  A missing expiry is 0: an absent date sorts first.     *)

PlaceOf(ls, lot) == SelectInSeq(ls, LAMBDA l : l.lot = lot)
HasLot(ls, lot) == PlaceOf(ls, lot) # 0
QtyOf(ls, lot) == IF HasLot(ls, lot) THEN ls[PlaceOf(ls, lot)].qty ELSE 0
SerialsOf(ls, lot) == IF HasLot(ls, lot) THEN ls[PlaceOf(ls, lot)].serials ELSE <<>>

\* A receipt joins the lot of its number, whose expiry it replaces when it has one.
Merged(l, r) == [l EXCEPT !.qty = @ + r.qty, !.serials = @ \o r.serials,
                          !.expiry = IF r.expiry # 0 THEN r.expiry ELSE @]
WithReceipt(ls, r) ==
  LET i == PlaceOf(ls, r.lot)
  IN IF i = 0 THEN Append(ls, r) ELSE [ls EXCEPT ![i] = Merged(@, r)]

DrawnSerials(l, q) == SubSeq(l.serials, 1, Min({Len(l.serials), q}))
Drawn(l, q) == [l EXCEPT !.qty = Max({0, l.qty - q}),
                         !.serials = SubSeq(@, Min({Len(@), q}) + 1, Len(@))]
WithoutEmpty(ls) == FoldLeft(LAMBDA kept, l : IF l.qty > 0 THEN Append(kept, l) ELSE kept, <<>>, ls)

\* The unexpired lots by expiry, then by place, each once.
Fresh(ls) == {i \in DOMAIN ls : ls[i].expiry = 0 \/ ls[i].expiry >= Today}
ByExpiry(ls) ==
  CHOOSE ps \in [1..Cardinality(Fresh(ls)) -> Fresh(ls)] :
    \A i, j \in DOMAIN ps : i < j =>
      \/ ls[ps[i]].expiry < ls[ps[j]].expiry
      \/ ls[ps[i]].expiry = ls[ps[j]].expiry /\ ps[i] < ps[j]

\* build_pick_plan: each lot to the last unit; <<>> when they do not suffice.
Take(ls, acc, i) ==
  LET take == Min({ls[i].qty, acc.left})
  IN IF take = 0 THEN acc
     ELSE [left |-> acc.left - take, plan |-> Append(acc.plan, [lot |-> ls[i].lot, qty |-> take])]
Planned(ls, q) == FoldLeft(LAMBDA acc, i : Take(ls, acc, i), [left |-> q, plan |-> <<>>], ByExpiry(ls))
PickPlan(ls, q) == IF Planned(ls, q).left > 0 THEN <<>> ELSE Planned(ls, q).plan

\* The lots after a draw, and after those of `plan`, each a lot and a quantity.
AfterDraw(ls, d) ==
  IF HasLot(ls, d.lot) THEN [ls EXCEPT ![PlaceOf(ls, d.lot)] = Drawn(@, d.qty)] ELSE ls
AfterDraws(ls, plan) == FoldLeft(LAMBDA rest, d : AfterDraw(rest, d), ls, plan)
Units(plan) == FoldLeft(LAMBDA n, d : n + d.qty, 0, plan)

-----------------------------------------------------------------------------
(* Calls.                                                                  *)

At(c, where) == job[c].at = where
Does(c, r) == job' = [job EXCEPT ![c] = r]
Touched(j) == IF j.at = "copy" THEN Bin ELSE {j.bin, j.to} \ {NoBin}

InFlight(c) == \E d \in Picker \ {c} : ~At(d, "idle")

\* A call begins, on bins another call may be working on.
Starts(c, j) ==
  LET shared == {b \in Touched(j) : \E d \in Picker \ {c} : b \in Touched(job[d])}
  IN /\ At(c, "idle") /\ calls < MaxStockCalls /\ calls' = calls + 1
     /\ Does(c, j)
     /\ unannounced' = unannounced \union shared
     /\ overlapped' = (overlapped \/ InFlight(c))
Calling == <<calls, overlapped>>

\* append_movement_locked with its lot event, if any: never below zero.
Appends(b, delta, entries) ==
  /\ onHand[b] + delta >= 0
  /\ onHand' = [onHand EXCEPT ![b] = @ + delta]
  /\ version' = [version EXCEPT ![b] = @ + entries]

Announces(c, b) == Does(c, [job[c] EXCEPT !.at = "announce", !.seen = onHand'[b]])

\* apply(): one movement of the aggregate.
Apply(c, b, d) ==
  /\ Appends(b, d, 1)
  /\ Starts(c, [Free EXCEPT !.at = "announce", !.bin = b, !.seen = onHand[b] + d])
  /\ confirmed' = confirmed + d /\ bulk' = bulk \union {b}
  /\ UNCHANGED <<lots, replayed, serialAt, pallets, stockCache, signalled, unsent, torn>>

\* A client notes the version it will guard its movement with.
NoteVersion(c, b, d) ==
  /\ Starts(c, [Free EXCEPT !.at = "guarded", !.bin = b, !.qty = d, !.seen = version[b]])
  /\ UNCHANGED <<onHand, lots, version, replayed, serialAt, pallets, stockCache, signalled, unsent,
                 confirmed, torn, bulk>>

\* apply_versioned(): a stale version, or a floor, ends the call.
ApplyVersioned(c) ==
  LET j == job[c] IN
  /\ At(c, "guarded")
  /\ IF version[j.bin] = j.seen /\ onHand[j.bin] + j.qty >= 0
     THEN /\ Appends(j.bin, j.qty, 1) /\ Announces(c, j.bin)
          /\ confirmed' = confirmed + j.qty /\ bulk' = bulk \union {j.bin}
     ELSE Does(c, Free) /\ UNCHANGED <<onHand, version, confirmed, bulk>>
  /\ UNCHANGED <<lots, replayed, serialAt, pallets, stockCache, signalled, unsent, torn,
                 unannounced, Calling>>

-----------------------------------------------------------------------------
(* Receiving.                                                              *)

\* receive_lot up to the duplicate check, under the registry's lock.
CheckSerials(c, b, r) ==
  /\ Range(r.serials) \intersect DOMAIN serialAt = {}
  /\ Starts(c, [Free EXCEPT !.at = "receive", !.bin = b, !.receipt = r])
  /\ UNCHANGED <<onHand, lots, version, replayed, serialAt, pallets, stockCache, signalled, unsent,
                 confirmed, torn, bulk>>

\* The movement, the lot and the lot event, under the shard's lock.
AppendReceipt(c) ==
  LET j == job[c]
      r == j.receipt
  IN /\ At(c, "receive")
     /\ Appends(j.bin, r.qty, 2)
     /\ lots' = [lots EXCEPT ![j.bin] = WithReceipt(@, r)]
     /\ replayed' = [replayed EXCEPT ![j.bin] = WithReceipt(@, r)]
     /\ confirmed' = confirmed + r.qty
     /\ Does(c, [j EXCEPT !.at = "register", !.seen = onHand'[j.bin]])
     /\ UNCHANGED <<serialAt, pallets, stockCache, signalled, unsent, torn, bulk, unannounced, Calling>>

\* The registry learns the serials, after the shard's lock.
Register(c) ==
  LET j == job[c] IN
  /\ At(c, "register")
  /\ serialAt' = Written(serialAt, Range(j.receipt.serials), <<j.bin, j.receipt.lot>>)
  /\ Does(c, [j EXCEPT !.at = "announce"])
  /\ UNCHANGED <<onHand, lots, version, replayed, pallets, stockCache, signalled, unsent, confirmed,
                 torn, bulk, unannounced, Calling>>

-----------------------------------------------------------------------------
(* Picking.                                                                *)

\* The draws of a pick that the aggregate still covers, in order.
Covered(b, plan) ==
  Max({0} \union {i \in DOMAIN plan : Units(SubSeq(plan, 1, i)) <= onHand[b]})

\* The locked part of pick(): the lot ledger is drawn for the whole plan, then
\* one movement and one lot event are appended per lot.  A movement below the
\* floor stops the call there, with the lots drawn.
PickLocked(b, plan) ==
  LET n == Covered(b, plan)
      logged == SubSeq(plan, 1, n)
      drawn == AfterDraws(lots[b], plan)
      whole == n = Len(plan)
  IN /\ onHand' = [onHand EXCEPT ![b] = @ - Units(logged)]
     /\ version' = [version EXCEPT ![b] = @ + 2 * n]
     /\ replayed' = [replayed EXCEPT ![b] = AfterDraws(@, logged)]
     /\ lots' = [lots EXCEPT ![b] = IF whole THEN WithoutEmpty(drawn) ELSE drawn]
     /\ confirmed' = IF whole THEN confirmed - Units(plan) ELSE confirmed
     /\ torn' = IF whole THEN torn ELSE torn \union {b}

SerialsDrawn(b, plan) ==
  UNION {Range(DrawnSerials(lots[b][PlaceOf(lots[b], plan[i].lot)], plan[i].qty)) : i \in DOMAIN plan}
AfterPick(b, plan) ==
  IF Covered(b, plan) # Len(plan) THEN Free
  ELSE [Free EXCEPT !.at = "unregister", !.bin = b, !.leaving = SerialsDrawn(b, plan),
                    !.seen = onHand[b] - Units(plan)]

\* pick(): first expiry first.
Pick(c, b, q) ==
  LET plan == PickPlan(lots[b], q)
      j == AfterPick(b, plan)
  IN /\ plan # <<>> /\ PickLocked(b, plan)
     /\ IF j.at = "idle"
        THEN /\ At(c, "idle") /\ calls < MaxStockCalls /\ calls' = calls + 1
             /\ unannounced' = unannounced \union {b}
             /\ overlapped' = (overlapped \/ InFlight(c)) /\ UNCHANGED job
        ELSE Starts(c, j)
     /\ UNCHANGED <<serialAt, pallets, stockCache, signalled, unsent, bulk>>

\* pick_from_lot(): the lot is drawn after the append, so a floor changes nothing.
PickFromLot(c, b, lot, q) ==
  LET i == PlaceOf(lots[b], lot)
      plan == <<[lot |-> lot, qty |-> q]>>
  IN /\ i # 0 /\ lots[b][i].qty >= q
     /\ lots[b][i].expiry = 0 \/ lots[b][i].expiry >= Today
     /\ Appends(b, -q, 2)
     /\ lots' = [lots EXCEPT ![b] = AfterDraws(@, plan)]
     /\ replayed' = [replayed EXCEPT ![b] = AfterDraws(@, plan)]
     /\ confirmed' = confirmed - q
     /\ Starts(c, AfterPick(b, plan))
     /\ UNCHANGED <<serialAt, pallets, stockCache, signalled, unsent, torn, bulk>>

\* The registry forgets the serials that left, after the shard's lock.
Unregister(c) ==
  LET j == job[c] IN
  /\ At(c, "unregister")
  /\ serialAt' = Restrict(serialAt, DOMAIN serialAt \ j.leaving)
  /\ Does(c, [j EXCEPT !.at = "announce", !.leaving = {}])
  /\ UNCHANGED <<onHand, lots, version, replayed, pallets, stockCache, signalled, unsent, confirmed,
                 torn, bulk, unannounced, Calling>>

\* after_write(): the replenishment job, if one is due, and the cached quantity of this
\* call.  Either may fail, as it always does without a bus or a cache, and is then unsent.
AfterWrite(c) ==
  LET j == job[c]
      b == IF j.to = NoBin THEN j.bin ELSE j.to
      due == j.seen < ReorderPoint
  IN
  /\ At(c, "announce")
  /\ \E lost \in SUBSET ({"put"} \union (IF due THEN {"job"} ELSE {})) :
       /\ signalled' = IF due /\ "job" \notin lost THEN signalled \union {b} ELSE signalled
       /\ stockCache' = IF "put" \in lost THEN stockCache ELSE Written(stockCache, {b}, j.seen)
       /\ unsent' = (unsent \ ({"put", "job"} \X {b})) \union (lost \X {b})
  /\ Does(c, IF j.to = NoBin THEN Free ELSE [j EXCEPT !.at = "line"])
  /\ UNCHANGED <<onHand, lots, version, replayed, serialAt, pallets, confirmed, torn, bulk,
                 unannounced, Calling>>
-----------------------------------------------------------------------------
(* Pallets.                                                                *)

\* create_pallet(): every line is checked under its shard's lock, then the
\* pallet is inserted.
StartPallet(c, b, load) ==
  /\ Starts(c, [Free EXCEPT !.at = "palletize", !.bin = b, !.todo = load, !.load = load])
  /\ UNCHANGED <<onHand, lots, version, replayed, serialAt, pallets, stockCache, signalled, unsent,
                 confirmed, torn, bulk>>
CheckLine(c) ==
  LET j == job[c] IN
  /\ At(c, "palletize") /\ j.todo # <<>>
  /\ IF QtyOf(lots[j.bin], Head(j.todo).lot) < Head(j.todo).qty THEN Does(c, Free)
     ELSE Does(c, [j EXCEPT !.todo = Tail(@)])
  /\ UNCHANGED <<onHand, lots, version, replayed, serialAt, pallets, stockCache, signalled, unsent,
                 confirmed, torn, bulk, unannounced, Calling>>
InsertPallet(c) ==
  LET j == job[c] IN
  /\ At(c, "palletize") /\ j.todo = <<>>
  /\ pallets' = Append(pallets, [location |-> j.bin, lines |-> j.load])
  /\ Does(c, Free)
  /\ UNCHANGED <<onHand, lots, version, replayed, serialAt, stockCache, signalled, unsent,
                 confirmed, torn, bulk, unannounced, Calling>>

\* move_pallet() reads the pallet, then transfers its lines one by one.
StartMove(c, p, to) ==
  /\ pallets[p].location # to
  /\ Starts(c, [Free EXCEPT !.at = "line", !.bin = pallets[p].location, !.to = to,
                            !.pallet = p, !.todo = pallets[p].lines])
  /\ UNCHANGED <<onHand, lots, version, replayed, serialAt, pallets, stockCache, signalled, unsent,
                 confirmed, torn, bulk>>

\* The source half of transfer_lot: the lot is drawn before the movement is
\* appended, so a floor leaves the lot drawn.  A missing lot, a short one or an
\* exhausted line stops the move where it is.  No after_write for the source.
TransferOut(c) ==
  LET j == job[c]
      d == Head(j.todo)
      l == lots[j.bin][PlaceOf(lots[j.bin], d.lot)]
  IN /\ At(c, "line") /\ j.todo # <<>>
     /\ IF d.qty = 0 \/ QtyOf(lots[j.bin], d.lot) < d.qty
        THEN Does(c, Free) /\ UNCHANGED <<onHand, lots, version, replayed, torn, unannounced>>
        ELSE /\ lots' = [lots EXCEPT ![j.bin] = AfterDraws(@, <<d>>)]
             /\ unannounced' = unannounced \union {j.bin}
             /\ IF onHand[j.bin] < d.qty
                THEN /\ torn' = torn \union {j.bin}
                     /\ Does(c, Free) /\ UNCHANGED <<onHand, version, replayed>>
                ELSE /\ Appends(j.bin, -d.qty, 2)
                     /\ replayed' = [replayed EXCEPT ![j.bin] = AfterDraws(@, <<d>>)]
                     /\ Does(c, [j EXCEPT !.at = "relocate", !.receipt =
                                   [lot |-> d.lot, qty |-> d.qty, expiry |-> l.expiry,
                                    serials |-> DrawnSerials(l, d.qty)]])
                     /\ UNCHANGED torn
     /\ UNCHANGED <<serialAt, pallets, stockCache, signalled, unsent, confirmed, bulk, Calling>>

\* The registry already points at the destination while the units are between.
Relocate(c) ==
  LET j == job[c] IN
  /\ At(c, "relocate")
  /\ serialAt' = Written(serialAt, Range(j.receipt.serials), <<j.to, j.receipt.lot>>)
  /\ Does(c, [j EXCEPT !.at = "arrive"])
  /\ UNCHANGED <<onHand, lots, version, replayed, pallets, stockCache, signalled, unsent, confirmed,
                 torn, bulk, unannounced, Calling>>
TransferIn(c) ==
  LET j == job[c] IN
  /\ At(c, "arrive")
  /\ Appends(j.to, j.receipt.qty, 2)
  /\ lots' = [lots EXCEPT ![j.to] = WithReceipt(@, j.receipt)]
  /\ replayed' = [replayed EXCEPT ![j.to] = WithReceipt(@, j.receipt)]
  /\ Does(c, [j EXCEPT !.at = "announce", !.seen = onHand'[j.to], !.todo = Tail(@)])
  /\ UNCHANGED <<serialAt, pallets, stockCache, signalled, unsent, confirmed, torn, bulk,
                 unannounced, Calling>>
EndMove(c) ==
  LET j == job[c] IN
  /\ At(c, "line") /\ j.todo = <<>>
  /\ pallets' = [pallets EXCEPT ![j.pallet].location = j.to]
  /\ Does(c, Free)
  /\ UNCHANGED <<onHand, lots, version, replayed, serialAt, stockCache, signalled, unsent, confirmed,
                 torn, bulk, unannounced, Calling>>

\* pick_from_pallet() reduces the line, then picks from the bin, first expiry
\* first: whichever lot that is, and whether or not the pick succeeds.
ReduceLine(c, p, i, q) ==
  /\ pallets[p].lines[i].qty >= q
  /\ pallets' = [pallets EXCEPT ![p].lines[i].qty = @ - q]
  /\ Starts(c, [Free EXCEPT !.at = "pick", !.bin = pallets[p].location, !.qty = q])
  /\ UNCHANGED <<onHand, lots, version, replayed, serialAt, stockCache, signalled, unsent,
                 confirmed, torn, bulk>>
PickReduced(c) ==
  LET b == job[c].bin
      plan == PickPlan(lots[b], job[c].qty)
  IN /\ At(c, "pick")
     /\ IF plan = <<>>
        THEN /\ Does(c, Free)
             /\ UNCHANGED <<onHand, version, replayed, lots, confirmed, torn, unannounced>>
        ELSE /\ PickLocked(b, plan) /\ Does(c, AfterPick(b, plan))
             /\ unannounced' = IF b \in torn' THEN unannounced \union {b} ELSE unannounced
     /\ UNCHANGED <<serialAt, pallets, stockCache, signalled, unsent, bulk, Calling>>

-----------------------------------------------------------------------------
(* Cycle counts and rebuilds.                                              *)

\* generate_count_task lists what a bin carries; reconcile_count starts on it.
StartCount(c, b, counted) ==
  /\ onHand[b] # 0
  /\ Starts(c, [Free EXCEPT !.at = "count", !.bin = b, !.qty = counted])
  /\ UNCHANGED <<onHand, lots, version, replayed, serialAt, pallets, stockCache, signalled, unsent,
                 confirmed, torn, bulk>>
ReadExpected(c) ==
  LET j == job[c] IN
  /\ At(c, "count")
  /\ Does(c, IF onHand[j.bin] = j.qty THEN Free
             ELSE [j EXCEPT !.at = "adjust", !.seen = onHand[j.bin]])
  /\ UNCHANGED <<onHand, lots, version, replayed, serialAt, pallets, stockCache, signalled, unsent,
                 confirmed, torn, bulk, unannounced, Calling>>

\* variant: the count is written as the new balance
ApplyVariance_absolute(c) ==
  LET j == job[c] IN
  /\ At(c, "adjust")
  /\ onHand' = [onHand EXCEPT ![j.bin] = j.qty]
  /\ version' = [version EXCEPT ![j.bin] = @ + 1]
  /\ Announces(c, j.bin)
  /\ confirmed' = confirmed + (j.qty - j.seen) /\ bulk' = bulk \union {j.bin}
  /\ UNCHANGED <<lots, replayed, serialAt, pallets, stockCache, signalled, unsent, torn,
                 unannounced, Calling>>
\* The variance against what was read is applied to what is there now.
ApplyVariance(c) ==
  LET j == job[c]
      d == j.qty - j.seen
  IN /\ At(c, "adjust")
     /\ IF onHand[j.bin] + d >= 0
        THEN /\ Appends(j.bin, d, 1) /\ Announces(c, j.bin)
             /\ confirmed' = confirmed + d /\ bulk' = bulk \union {j.bin}
        ELSE Does(c, Free) /\ UNCHANGED <<onHand, version, confirmed, bulk>>
     /\ UNCHANGED <<lots, replayed, serialAt, pallets, stockCache, signalled, unsent, torn,
                    unannounced, Calling>>

\* rebuild_read_models() copies the shards' logs one by one, then puts every key
\* it found into the cache.
StartRebuilding(c) ==
  LET busy == UNION {Touched(job[d]) : d \in Picker \ {c}} IN
  /\ At(c, "idle") /\ calls < MaxStockCalls /\ calls' = calls + 1
  /\ Does(c, [Free EXCEPT !.at = "copy"])
  /\ unannounced' = unannounced \union busy /\ overlapped' = (overlapped \/ InFlight(c))
  /\ UNCHANGED <<onHand, lots, version, replayed, serialAt, pallets, stockCache, signalled, unsent,
                 confirmed, torn, bulk>>
CopyShard(c, b) ==
  LET j == job[c] IN
  /\ At(c, "copy") /\ b \notin DOMAIN j.read
  /\ Does(c, [j EXCEPT !.read = Written(@, {b}, IF version[b] = 0 THEN <<>> ELSE <<onHand[b]>>)])
  /\ UNCHANGED <<onHand, lots, version, replayed, serialAt, pallets, stockCache, signalled, unsent,
                 confirmed, torn, bulk, unannounced, Calling>>
\* A put that fails is still unsent, and its key is left as it was.
PutRebuilt(c) ==
  LET j == job[c]
      found == {b \in DOMAIN j.read : j.read[b] # <<>>}
  IN /\ At(c, "copy") /\ DOMAIN j.read = Bin
     /\ \E done \in SUBSET found :
          /\ stockCache' = [b \in done \union DOMAIN stockCache |->
                              IF b \in done THEN j.read[b][1] ELSE stockCache[b]]
          /\ unsent' = unsent \ ({"put"} \X done)
     /\ Does(c, Free)
     /\ UNCHANGED <<onHand, lots, version, replayed, serialAt, pallets, signalled, confirmed,
                    torn, bulk, unannounced, Calling>>

WNext ==
  \E c \in Picker :
    \/ \E b \in Bin :
         \/ \E d \in Movements : Apply(c, b, d) \/ NoteVersion(c, b, d)
         \/ \E r \in Receipts : CheckSerials(c, b, r)
         \/ \E q \in PickSizes : Pick(c, b, q) \/ \E l \in Lot : PickFromLot(c, b, l, q)
         \/ \E load \in Loads : StartPallet(c, b, load)
         \/ \E n \in Counts : StartCount(c, b, n)
         \/ CopyShard(c, b)
    \/ \E p \in DOMAIN pallets :
         \/ \E b \in Bin : StartMove(c, p, b)
         \/ \E i \in DOMAIN pallets[p].lines, q \in PickSizes : ReduceLine(c, p, i, q)
    \/ ApplyVersioned(c) \/ AppendReceipt(c) \/ Register(c) \/ Unregister(c) \/ AfterWrite(c)
    \/ CheckLine(c) \/ InsertPallet(c) \/ TransferOut(c) \/ Relocate(c) \/ TransferIn(c)
    \/ EndMove(c) \/ PickReduced(c) \/ ReadExpected(c) \/ ApplyVariance(c)
    \/ StartRebuilding(c) \/ PutRebuilt(c)

WSpec == WInit /\ [][WNext]_wvars

-----------------------------------------------------------------------------
(* Properties.                                                             *)

SumOver(S, f(_)) == MapThenSumSet(f, S)
WQuiet(b) == \A c \in Picker : b \notin Touched(job[c])

\* The floor of append_movement_locked holds for every path that moves stock,
\* and a serial is registered for one place at most.
WTypeOK ==
  /\ onHand \in [Bin -> Nat] /\ version \in [Bin -> Nat]
  /\ \A b \in Bin : \A i \in DOMAIN lots[b] : lots[b][i].qty \in Nat /\ lots[b][i].lot \in Lot
  /\ DOMAIN stockCache \subseteq Bin /\ DOMAIN job = Picker
  /\ \A p \in DOMAIN pallets : pallets[p].location \in Bin

\* Stock is neither made nor lost: the bins, with what a transfer has taken out
\* and not yet put down, hold the sum of the movements the engine reported, for
\* any interleaving of counts, picks and pallet moves, moves that stop half way
\* included.  (A pick that fails after its first lot is the exception: `torn`.)
StockConserved ==
  torn = {} =>
    confirmed = SumOver(Bin, LAMBDA b : onHand[b])
              + SumOver({c \in Picker : job[c].at \in {"relocate", "arrive"}},
                        LAMBDA c : job[c].receipt.qty)

\* The lot ledger accounts for every unit of a bin that apply() has not moved.
LotsCoverOnHand ==
  \A b \in Bin \ (bulk \union torn) :
    onHand[b] = Units(lots[b])

\* rebuild_lot_read_models(): the lot events replay to the live quantities and
\* serials, although pick() drops an exhausted lot and the replay keeps it.
LotsReplay ==
  \A b \in Bin \ torn : \A l \in Lot :
    /\ QtyOf(replayed[b], l) = QtyOf(lots[b], l)
    /\ SerialsOf(replayed[b], l) = SerialsOf(lots[b], l)

\* As long as no two calls overlapped, a serial is registered exactly when a lot
\* holds it, at that lot, and so never in two lots.
SerialsResolve ==
  (~overlapped /\ torn = {} /\ \A c \in Picker : At(c, "idle")) =>
    /\ \A b \in Bin, l \in Lot : \A s \in Range(SerialsOf(lots[b], l)) :
         s \in DOMAIN serialAt /\ serialAt[s] = <<b, l>>
    /\ \A s \in DOMAIN serialAt : \E b \in Bin, l \in Lot : s \in Range(SerialsOf(lots[b], l))

\* Once its writers have rested, a bin's cached quantity is its balance and a balance
\* below the reorder point has been signalled: unless the last after_write could not
\* deliver it, calls overlapped on the bin, or stock left it by a transfer, which
\* after_write is not told of.
StockCacheFresh ==
  \A b \in Bin \ unannounced :
    (version[b] > 0 /\ WQuiet(b)) =>
      /\ <<"put", b>> \in unsent \/ (b \in DOMAIN stockCache /\ stockCache[b] = onHand[b])
      /\ onHand[b] < ReorderPoint => b \in signalled \/ <<"job", b>> \in unsent

\* What the warehouse promises under any interleaving of receipts, picks, transfers,
\* counts and pallet moves: no bin below zero, no unit made or lost, lots and their
\* replay account for the stock, serials resolve, and the cache settles but for a put or
\* a job that went unsent.
StockAccounted ==
  /\ WTypeOK
  /\ StockConserved
  /\ LotsCoverOnHand
  /\ LotsReplay
  /\ SerialsResolve
  /\ StockCacheFresh
=============================================================================
