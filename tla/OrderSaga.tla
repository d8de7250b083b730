----------------------------- MODULE OrderSaga -----------------------------
(***************************************************************************)
(* Checkout, the order saga, the fulfilment of backorders and returns      *)
(* (examples/oms/src: checkout.rs, promo.rs, saga.rs, returns.rs) over the *)
(* reservation engine and the general ledger.                              *)
(*                                                                         *)
(* A step is what a call does under one lock of the engine: a line is read *)
(* and held under two, as a backorder is picked and promoted, and another  *)
(* call may come in between.  A hold may lapse between any two steps, and  *)
(* the period may close; a post into it then fails.                        *)
(***************************************************************************)
EXTENDS Integers, Sequences, FiniteSets, SequencesExt, FiniteSetsExt

CONSTANTS
  Order,       \* orders, each placed by one client
  Ware,        \* SKUs
  Carts,       \* sequences of [sku, qty, price] that are checked out
  Deliveries,  \* quantities that arrive
  Promotion,   \* whether the promo plugin is loaded
  Plenty, Some, \* stock from which it gives its larger and its smaller discount
  MaxDeliveries, MaxLapses, MaxRuns  \* bounds

ASSUME SagaAssumption ==
  /\ Carts \subseteq Seq([sku : Ware, qty : Nat, price : Int]) /\ Deliveries \subseteq Nat
  /\ Promotion \in BOOLEAN /\ Some \in Nat /\ Plenty \in Nat
  /\ MaxDeliveries \in Nat /\ MaxLapses \in Nat /\ MaxRuns \in Nat

VARIABLES
  onShelf,     \* SkuState::on_hand of each SKU
  committed,   \* SkuState::committed
  held,        \* the active holds: a set of [id, sku, qty]
  waiting,     \* the backorders: a set of [id, sku, qty]
  booksOpen,   \* whether the period the saga posts to is open
  receivable,  \* the postings to accounts receivable, per order that made them
  saga,        \* each order's call
  rma,         \* each order's return: its status
  nextId, deliveries, lapses, runs,
  restocked,   \* history: units returned per order
  crossed      \* history: SKUs held from while another call stood between its
               \* reading of them and its own hold

sgvars == <<onShelf, committed, held, waiting, booksOpen, receivable, saga, rma, nextId,
            deliveries, lapses, runs, restocked, crossed>>
engine == <<onShelf, committed, held, waiting, nextId, crossed>>
world == <<booksOpen, deliveries, lapses>>

\* The units a set of holds (or of lines, no two alike) stands for.
UnitCount(S) == Cardinality(UNION {{x} \X (1..x.qty) : x \in S})
UnitsOf(S, k) == UnitCount({x \in S : x.sku = k})
Sellable(k) == onShelf[k] - committed[k] - UnitsOf(held, k)

\* The state of a call: what is left to reserve, the holds it won (with the price it
\* bills them at), the shortfalls it put on backorder, and what its stage works off.
NoSaga == [at |-> "idle", lines |-> <<>>, won |-> <<>>, short |-> <<>>,
           total |-> 0, todo |-> <<>>, end |-> "none"]

SgInit ==
  /\ onShelf = [k \in Ware |-> 0] /\ committed = onShelf
  /\ held = {} /\ waiting = {} /\ booksOpen = TRUE
  /\ receivable = [o \in Order |-> 0]
  /\ saga = [o \in Order |-> NoSaga]
  /\ rma = [o \in Order |-> "none"]
  /\ nextId = 1 /\ deliveries = 0 /\ lapses = 0 /\ runs = 0
  /\ restocked = [o \in Order |-> 0] /\ crossed = {}

SagaBecomes(o, r) == saga' = [saga EXCEPT ![o] = r]
\* A call enters a stage, with what it has to work off there, wins a hold, is billed.
Enters(s, stage) == [s EXCEPT !.at = stage]
WorksOff(s, stage, todo) == [Enters(s, stage) EXCEPT !.todo = todo]
Wins(s, w) == [s EXCEPT !.won = Append(@, w)]
Lacks(s, l) == [s EXCEPT !.short = Append(@, l)]
Billed(s, amount) == [s EXCEPT !.total = amount]
Ends(o, how) == SagaBecomes(o, [Enters(saga[o], "idle") EXCEPT !.end = how])
\* post_transaction of amount to receivable and revenue, and the same reversed; a
\* closed period refuses both.
Posts(o, amount) == receivable' = [receivable EXCEPT ![o] = @ + amount]
Reverses(o, amount) == receivable' = [receivable EXCEPT ![o] = @ - amount]

Value(lines) == FoldLeft(LAMBDA v, l : v + l.qty * l.price, 0, lines)
Quantity(lines) == UnitCount(ToSet(lines))

-----------------------------------------------------------------------------
(* Checkout.                                                               *)

\* The promo plugin's stock-aware price of a unit; PromoHost hands it the stock as a
\* u64, in which an oversold pool is a very large one.
PromoPrice(stock, qty, price) ==
  LET pct == (IF stock < 0 \/ stock >= Plenty THEN 15 ELSE IF stock >= Some THEN 5 ELSE 0)
             + (IF qty >= 5 THEN 5 ELSE 0)
  IN Max({0, price - (price * pct) \div 100})
\* PromoEngine::discount as checkout follows it: only ever downwards.
PricedLine(line) ==
  [line EXCEPT !.price =
     IF Promotion THEN Min({@, PromoPrice(Sellable(line.sku), line.qty, @)}) ELSE @]

\* checkout prices the lines and enters the saga's run; no lines are refused.
Checkout(o, cart) ==
  /\ saga[o] = NoSaga /\ cart # <<>> /\ runs < MaxRuns /\ runs' = runs + 1
  /\ LET priced == [i \in DOMAIN cart |-> PricedLine(cart[i])]
     IN SagaBecomes(o, [Enters(NoSaga, "reserve") EXCEPT !.lines = priced])
  /\ UNCHANGED <<engine, world, receivable, rma, restocked>>

-----------------------------------------------------------------------------
(* OrderSaga::run.                                                         *)

\* What a call has read and is about to hold, and whether another one stands there.
AboutToHold(s, k) == s.at \in {"hold", "fill"} /\ Head(s.todo).sku = k
Crossed(o, k) == crossed' = crossed \union {x \in {k} : \E p \in Order \ {o} : AboutToHold(saga[p], k)}
\* `available as u32`: an oversold pool reads as more than any line asks for.
Reservable(l) == IF Sellable(l.sku) < 0 THEN l.qty ELSE Min({l.qty, Sellable(l.sku)})
\* The hold of what was read, whether or not it is still there, and the call that won it.
Won(s) == [Head(s.todo) EXCEPT !.id = nextId]
Held(w) == [id |-> w.id, sku |-> w.sku, qty |-> w.qty]

\* reserve_or_backorder of the next line, under its first lock: what is sellable is read.
ReadStock(o) ==
  LET s == saga[o]
      l == Head(s.lines)
      got == Reservable(l)
  IN
  /\ s.at = "reserve" /\ s.lines # <<>>
  /\ SagaBecomes(o, WorksOff(s, IF got > 0 THEN "hold" ELSE "short",
                             <<[id |-> 0, sku |-> l.sku, qty |-> got, price |-> l.price]>>))
  /\ UNCHANGED <<engine, world, receivable, rma, runs, restocked>>

\* Under its second: what was read is held.
HoldLine(o) ==
  LET s == saga[o] IN
  /\ s.at = "hold"
  /\ held' = held \union {Held(Won(s))} /\ nextId' = nextId + 1
  /\ Crossed(o, Head(s.todo).sku)
  /\ SagaBecomes(o, Enters(Wins(s, Won(s)), "short"))
  /\ UNCHANGED <<onShelf, committed, waiting, world, receivable, rma, runs, restocked>>

\* Under its third: the shortfall, if there is any, waits.
BackorderRest(o) ==
  LET s == saga[o]
      l == Head(s.lines)
      rest == l.qty - Head(s.todo).qty
      passed == [WorksOff(s, "reserve", <<>>) EXCEPT !.lines = Tail(@)]
  IN
  /\ s.at = "short"
  /\ IF rest = 0 THEN SagaBecomes(o, passed) /\ UNCHANGED <<waiting, nextId>>
     ELSE /\ waiting' = waiting \union {[id |-> nextId, sku |-> l.sku, qty |-> rest]}
          /\ nextId' = nextId + 1
          /\ SagaBecomes(o, Lacks(passed, [l EXCEPT !.qty = rest]))
  /\ UNCHANGED <<onShelf, committed, held, crossed, world, receivable, rma, runs, restocked>>

\* A sweep or an event that cannot be written fails the line: run returns at once, and
\* the holds of this line and of those before it stay until their time is up.
ReserveFails(o) ==
  /\ saga[o].at \in {"reserve", "hold", "short"} /\ saga[o].lines # <<>>
  /\ Ends(o, "Failed")
  /\ UNCHANGED <<engine, world, receivable, rma, runs, restocked>>

\* Pay: what was reserved is billed.
Pay(o) ==
  LET s == saga[o] IN
  /\ s.at = "reserve" /\ s.lines = <<>> /\ s.won # <<>> /\ booksOpen
  /\ Posts(o, Value(s.won))
  /\ SagaBecomes(o, WorksOff(Billed(s, Value(s.won)), "confirm", s.won))
  /\ UNCHANGED <<engine, world, rma, runs, restocked>>

\* Nothing reserved: nothing to bill, the order waits.
ParkUnbilled(o) ==
  /\ saga[o].at = "reserve" /\ saga[o].lines = <<>> /\ saga[o].won = <<>>
  /\ Ends(o, "Backordered")
  /\ UNCHANGED <<engine, world, receivable, rma, runs, restocked>>

\* The post fails: the holds are released.
PayFails(o) ==
  /\ saga[o].at = "reserve" /\ saga[o].lines = <<>> /\ saga[o].won # <<>> /\ ~booksOpen
  /\ SagaBecomes(o, WorksOff(saga[o], "release", saga[o].won))
  /\ UNCHANGED <<engine, world, receivable, rma, runs, restocked>>

IsHeld(w) == \E h \in held : h.id = w.id

\* Fulfil: the next hold is confirmed.
Confirm(o) ==
  LET s == saga[o]
      w == Head(s.todo)
  IN
  /\ s.at = "confirm" /\ s.todo # <<>> /\ IsHeld(w)
  /\ held' = {h \in held : h.id # w.id}
  /\ committed' = [committed EXCEPT ![w.sku] = @ + w.qty]
  /\ SagaBecomes(o, [s EXCEPT !.todo = Tail(@)])
  /\ UNCHANGED <<onShelf, waiting, nextId, crossed, world, receivable, rma, runs, restocked>>

\* A hold has lapsed meanwhile: the saga compensates what was paid.
ConfirmFails(o) ==
  /\ saga[o].at = "confirm" /\ saga[o].todo # <<>> /\ ~IsHeld(Head(saga[o].todo))
  /\ SagaBecomes(o, Enters(saga[o], "refund"))
  /\ UNCHANGED <<engine, world, receivable, rma, runs, restocked>>

\* Every hold is committed: the order is shipped, or parked for what it is short of.
Ship(o) ==
  /\ saga[o].at = "confirm" /\ saga[o].todo = <<>>
  /\ Ends(o, IF saga[o].short = <<>> THEN "Shipped" ELSE "Backordered")
  /\ UNCHANGED <<engine, world, receivable, rma, runs, restocked>>

\* variant: everything the order owes is reversed
Refund_everything(o) ==
  /\ saga[o].at = "refund"
  /\ IF booksOpen THEN Reverses(o, receivable[o]) ELSE UNCHANGED receivable
  /\ SagaBecomes(o, WorksOff(Billed(saga[o], IF booksOpen THEN 0 ELSE saga[o].total), "release", saga[o].won))
  /\ UNCHANGED <<engine, world, rma, runs, restocked>>

\* compensate, stage Paid: the saga's own total is reversed, best effort.
Refund(o) ==
  /\ saga[o].at = "refund"
  /\ IF booksOpen THEN Reverses(o, saga[o].total) ELSE UNCHANGED receivable
  /\ SagaBecomes(o, WorksOff(Billed(saga[o], IF booksOpen THEN 0 ELSE saga[o].total), "release", saga[o].won))
  /\ UNCHANGED <<engine, world, rma, runs, restocked>>

\* compensate: the holds are released one by one; one already committed or lapsed
\* is passed over, and its units stay where they are.
ReleaseNext(o) ==
  LET s == saga[o] IN
  /\ s.at = "release"
  /\ IF s.todo = <<>> THEN Ends(o, "Compensated") /\ UNCHANGED held
     ELSE held' = {h \in held : h.id # Head(s.todo).id} /\ SagaBecomes(o, [s EXCEPT !.todo = Tail(@)])
  /\ UNCHANGED <<onShelf, committed, waiting, nextId, crossed, world, receivable, rma, runs, restocked>>

-----------------------------------------------------------------------------
(* fulfill_backorders of a parked order.                                   *)

Fillable == {b \in waiting : Sellable(b.sku) >= b.qty}
\* The price of a promoted hold: that of the order's own last shortfall of the SKU,
\* nothing for a SKU the order is not waiting for.
PriceFor(short, k) ==
  LET own == {i \in DOMAIN short : short[i].sku = k}
  IN IF own = {} THEN 0 ELSE short[Max(own)].price

StartFulfil(o) ==
  /\ saga[o].at = "idle" /\ saga[o].end = "Backordered" /\ runs < MaxRuns /\ runs' = runs + 1
  /\ SagaBecomes(o, [[Enters(saga[o], "promote") EXCEPT !.won = <<>>] EXCEPT !.end = "none"])
  /\ UNCHANGED <<engine, world, receivable, rma, restocked>>

\* A backorder the stock covers, whichever order it is of, is picked under one lock ...
Promote(o, b) ==
  /\ saga[o].at = "promote" /\ b \in Fillable
  /\ SagaBecomes(o, WorksOff(saga[o], "fill", <<[id |-> b.id, sku |-> b.sku, qty |-> b.qty,
                                                price |-> PriceFor(saga[o].short, b.sku)]>>))
  /\ UNCHANGED <<engine, world, receivable, rma, runs, restocked>>

\* ... and becomes a hold under the next, even if another call has taken it meanwhile.
Fill(o) ==
  LET s == saga[o] IN
  /\ s.at = "fill"
  /\ waiting' = {b \in waiting : b.id # Head(s.todo).id}
  /\ held' = held \union {Held(Won(s))} /\ nextId' = nextId + 1
  /\ Crossed(o, Head(s.todo).sku)
  /\ SagaBecomes(o, Enters(Wins(s, Won(s)), "promote"))
  /\ UNCHANGED <<onShelf, committed, world, receivable, rma, runs, restocked>>

\* Nothing more to promote: the call fails if nothing was, and bills what was.
EndPromotion(o) ==
  LET s == saga[o] IN
  /\ s.at = "promote" /\ Fillable = {}
  /\ IF s.won = <<>> THEN Ends(o, "Backordered") /\ UNCHANGED receivable
     ELSE IF booksOpen
     THEN /\ Posts(o, Value(s.won))
          /\ SagaBecomes(o, WorksOff(Billed([s EXCEPT !.short = <<>>], Value(s.won)), "confirm", s.won))
     ELSE /\ SagaBecomes(o, WorksOff(Billed(s, 0), "release", s.won))
          /\ UNCHANGED receivable
  /\ UNCHANGED <<engine, world, rma, runs, restocked>>

-----------------------------------------------------------------------------
(* RmaProcessor, for an order that has shipped.                            *)

RmaGraph == {<<"Requested", "Authorized">>, <<"Requested", "Rejected">>, <<"Authorized", "Received">>,
             <<"Authorized", "Rejected">>, <<"Received", "Refunded">>, <<"Received", "Rejected">>}

RequestReturn(o) ==
  /\ saga[o].end = "Shipped" /\ rma[o] = "none"
  /\ rma' = [rma EXCEPT ![o] = "Requested"]
  /\ UNCHANGED <<engine, world, receivable, saga, runs, restocked>>

RmaStep(o, to) == <<rma[o], to>> \in RmaGraph /\ rma' = [rma EXCEPT ![o] = to]

Authorize(o) ==
  /\ RmaStep(o, "Authorized")
  /\ UNCHANGED <<engine, world, receivable, saga, runs, restocked>>

\* receive: the units go back to the sellable pool.
ReceiveReturn(o) ==
  /\ RmaStep(o, "Received")
  /\ onShelf' = [k \in Ware |-> onShelf[k] + UnitsOf(ToSet(saga[o].won), k)]
  /\ restocked' = [restocked EXCEPT ![o] = @ + Quantity(saga[o].won)]
  /\ UNCHANGED <<committed, held, waiting, nextId, crossed, world, receivable, saga, runs>>

\* refund: the status moves before the post, which may fail.
RefundReturn(o) ==
  /\ RmaStep(o, "Refunded")
  /\ IF booksOpen THEN Reverses(o, Value(saga[o].won)) ELSE UNCHANGED receivable
  /\ UNCHANGED <<engine, world, saga, runs, restocked>>

-----------------------------------------------------------------------------
(* What happens around the calls.                                          *)

\* ReservationEngine::receive
Deliver(k, q) ==
  /\ deliveries < MaxDeliveries /\ deliveries' = deliveries + 1
  /\ onShelf' = [onShelf EXCEPT ![k] = @ + q]
  /\ UNCHANGED <<committed, held, waiting, nextId, crossed, booksOpen, lapses, receivable, saga, rma, runs, restocked>>

\* A sweep finds a hold expired: after its 15 minutes, or, for a promoted hold that is
\* in no index and no cache, at once.
Lapse(h) ==
  /\ lapses < MaxLapses /\ lapses' = lapses + 1
  /\ held' = held \ {h}
  /\ UNCHANGED <<onShelf, committed, waiting, nextId, crossed, booksOpen, deliveries, receivable, saga, rma, runs, restocked>>

\* close_period for the saga's period, while calls are under way.
CloseBooks ==
  /\ booksOpen /\ booksOpen' = FALSE
  /\ UNCHANGED <<engine, deliveries, lapses, receivable, saga, rma, runs, restocked>>

Run(o) ==
  \/ ReadStock(o) \/ HoldLine(o) \/ BackorderRest(o) \/ ReserveFails(o)
  \/ Pay(o) \/ ParkUnbilled(o) \/ PayFails(o) \/ Confirm(o) \/ ConfirmFails(o)
  \/ Ship(o) \/ Refund(o) \/ ReleaseNext(o) \/ Fill(o) \/ EndPromotion(o)
  \/ \E b \in Fillable : Promote(o, b)

SgNext ==
  \/ \E o \in Order, c \in Carts : Checkout(o, c)
  \/ \E o \in Order : Run(o) \/ StartFulfil(o)
  \/ \E o \in Order : RequestReturn(o) \/ Authorize(o) \/ ReceiveReturn(o) \/ RefundReturn(o)
  \/ \E k \in Ware, q \in Deliveries : Deliver(k, q)
  \/ \E h \in held : Lapse(h)
  \/ CloseBooks

SgSpec == SgInit /\ [][SgNext]_sgvars

-----------------------------------------------------------------------------
(* Properties.                                                             *)

Ended(o) == saga[o].at = "idle" /\ saga[o].end # "none"
Done(o) == saga[o].end \in {"Shipped", "Backordered"}

\* Whatever runs, lapses, promotions and compensations interleave, no more of a SKU is
\* promised than was delivered or brought back, unless one call held of it what another
\* had read and not yet held.
NothingPromisedTwice == \A k \in Ware \ crossed : Sellable(k) >= 0

\* A run that goes through bills exactly the units it commits, at the prices it was
\* given, and nothing of what it is still short of.
BillsWhatItCommits ==
  [][\A o \in Order : saga[o].at = "confirm" /\ Ended(o)' /\ saga'[o].end # "Compensated" =>
       saga[o].total = Value(saga[o].won)]_sgvars

\* A saga that compensated with the books open owes nothing for it: what other sagas
\* have posted is left alone.
CompensationIsOwn ==
  [][\A o \in Order : saga[o].at = "refund" /\ saga'[o].at = "release" /\ booksOpen =>
       /\ receivable'[o] = receivable[o] - saga[o].total
       /\ \A p \in Order \ {o} : receivable'[p] = receivable[p]]_sgvars

\* A compensated call leaves none of its holds behind, lapsed and committed ones included.
NoHoldLeftBehind ==
  \A o \in Order : Ended(o) /\ saga[o].end = "Compensated" =>
    \A i \in DOMAIN saga[o].won : ~IsHeld(saga[o].won[i])

\* The goods of an order come back at most once, and are refunded only after they did.
ReturnedOnce ==
  \A o \in Order : /\ restocked[o] \in {0, Quantity(saga[o].won)}
                   /\ rma[o] = "Refunded" => restocked[o] = Quantity(saga[o].won)

\* What the order saga promises under any interleaving of runs, lapses, promotions and
\* returns: nothing is promised twice but where one call held what another had read, a
\* compensated run leaves no hold and takes back its own billing only, a run bills what
\* it commits, and goods come back once.
OrdersAccounted ==
  /\ []NothingPromisedTwice
  /\ []NoHoldLeftBehind
  /\ []ReturnedOnce
  /\ BillsWhatItCommits
  /\ CompensationIsOwn
=============================================================================
