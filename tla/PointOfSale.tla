---------------------------- MODULE PointOfSale ----------------------------
(***************************************************************************)
(* The register (examples/pos/src): ringing a sale, returns and exchanges, *)
(* loyalty points, the pricing plugin, and the synchronisation of what was *)
(* recorded offline with the central store.                                *)
(*                                                                         *)
(* Requests are served by Clerk concurrently; every lock acquisition of    *)
(* the code is a step.  Amounts are minor units; a loyalty point, worth    *)
(* one major unit, is a hundred of them.                                   *)
(***************************************************************************)
EXTENDS Money

CONSTANTS
  Clerk,        \* requests served at once
  Customer,
  Syncer,       \* concurrent calls of sync_to
  Baskets,      \* sequences of [item, qty, price, tax] that are rung up
  Offers,       \* sequences of [kind, amount] that are tendered
  Redemptions,  \* amounts of points a customer asks to redeem
  ReturnLists,  \* sequences of [item, qty]; <<>> returns everything
  Loaded,       \* a pricing plugin is loaded
  Tier,         \* points above which the plugin gives the higher discount
  MaxCalls,     \* calls of the register (bound)
  MaxSyncs,     \* runs of sync_to (bound)
  NoCustomer

\* A quantity is unsigned; prices and taxes are amounts the code takes as they come,
\* and what follows is about those that are not negative.
LineItem == [item : STRING, qty : Nat, price : Nat, tax : Nat]
TenderKind == {"Cash", "Card", "GiftCard", "StoreCredit"}
Tender == [kind : TenderKind, amount : Int]
ReturnLine == [item : STRING, qty : Nat]

ASSUME PosAssumption ==
  /\ Loaded \in BOOLEAN /\ Tier \in Nat /\ MaxCalls \in Nat /\ MaxSyncs \in Nat
  /\ Redemptions \subseteq Nat /\ NoCustomer \notin Customer
  /\ Baskets \subseteq Seq(LineItem) /\ Offers \subseteq Seq(Tender) /\ ReturnLists \subseteq Seq(ReturnLine)

VARIABLES
  sales,      \* PosApp::sales: the records of captured sales, in order of capture
  points,     \* LoyaltyEngine::balances, the points
  hostPoints, \* the balance the pricing host answers with
  localLog,   \* PosSync::local: every event recorded
  pending,    \* PosSync::pending
  central,    \* the sales the central store has applied, in order
  till,       \* the call each clerk is serving
  syncing,    \* each call of sync_to
  posCalls, posSyncs, jobs,
  earned,     \* history: points credited, and redeemed, per customer
  spent,
  overtaken,  \* history: events pended after a running sync_to copied the list
  dropped     \* history: captured sales whose call failed before recording them

posvars == <<sales, points, hostPoints, localLog, pending, central, till, syncing, posCalls,
             posSyncs, jobs, earned, spent, overtaken, dropped>>
saleState == <<sales, points, hostPoints, earned, spent, dropped>>
syncState == <<central, syncing, posSyncs, jobs>>

-----------------------------------------------------------------------------
(* Transactions, tenders and refunds: functions of their arguments.        *)

\* TxnStatus, and the path every sale is taken along; Returned is reached by a
\* scratch transaction of return_sale, never by the record in the registry.
TxnGraph == {<<"Cart", "Tendering">>, <<"Tendering", "Authorized">>, <<"Authorized", "Captured">>,
             <<"Tendering", "Voided">>, <<"Authorized", "Voided">>, <<"Captured", "Refunded">>,
             <<"Captured", "Voided">>, <<"Captured", "Returned">>}
Advanced(status, path) ==
  FoldLeft(LAMBDA s, to : IF <<s, to>> \in TxnGraph THEN to ELSE "refused", status, path)
SalePath == <<"Tendering", "Authorized", "Captured">>

Subtotal(lines) == SumSeq([i \in DOMAIN lines |-> lines[i].qty * lines[i].price])
TaxTotal(lines) == SumSeq([i \in DOMAIN lines |-> lines[i].tax])
Amounts(tenders) == [i \in DOMAIN tenders |-> tenders[i].amount]

\* The plugin's balance-tiered discount.
PluginPrice(balance, amount) == amount - ((amount * (IF balance > Tier THEN 10 ELSE 2)) \div 100)
\* The discounted subtotal: a plugin that raises the price is not followed.
Discounted(balance, amount) ==
  IF Loaded THEN AtMost(PluginPrice(balance, amount), amount) ELSE amount

\* split_total refuses an empty list and one that does not cover the total.
Covers(total, tenders) == tenders # <<>> /\ SumSeq(Amounts(tenders)) >= total
SplitTotal(total, tenders) == Allocate(total, [i \in DOMAIN tenders |-> Positive(tenders[i].amount)])
WithAmounts(tenders, amounts) == [i \in DOMAIN tenders |-> [tenders[i] EXCEPT !.amount = amounts[i]]]

\* The tenders of a sale: the credit first, up to the total, and the remainder
\* split over what was offered.
Applied(total, credit, offered) ==
  LET used == AtMost(credit, total) IN
  (IF used > 0 THEN <<[kind |-> "StoreCredit", amount |-> used]>> ELSE <<>>)
  \o WithAmounts(offered, IF total > used THEN SplitTotal(total - used, offered)
                          ELSE [i \in DOMAIN offered |-> 0])

\* returned_merchandise: valued at the prices of the sale.
ReturnedValue(sale, returns) ==
  IF returns = <<>> THEN Subtotal(sale.lines)
  ELSE SumSeq([i \in DOMAIN returns |->
         SumSeq([l \in DOMAIN sale.lines |->
           IF sale.lines[l].item = returns[i].item THEN sale.lines[l].price * returns[i].qty ELSE 0])])

\* compute_refund: the share of the total that was charged.
RefundOf(sale, returns) ==
  LET value == ReturnedValue(sale, returns)
  IN Allocate(sale.total, <<value, Subtotal(sale.lines) - value>>)[1]

Returnable(sale, returns) ==
  /\ Advanced(sale.status, <<"Returned">>) = "Returned"
  /\ ReturnedValue(sale, returns) <= Subtotal(sale.lines) /\ Subtotal(sale.lines) > 0
  \* split_total has no share to give when nothing was tendered
  /\ SumSeq(Amounts(sale.tenders)) > 0

-----------------------------------------------------------------------------
Idle == [pc |-> "idle"]

PosInit ==
  /\ sales = <<>> /\ localLog = <<>> /\ pending = <<>> /\ central = <<>>
  /\ points = [c \in Customer |-> 0] /\ earned = points /\ spent = points
  /\ hostPoints = 0
  /\ till = [k \in Clerk |-> Idle]
  /\ syncing = [s \in Syncer |-> [pc |-> "idle", batch |-> <<>>]]
  /\ posCalls = 0 /\ posSyncs = 0 /\ jobs = 0
  /\ overtaken = {} /\ dropped = {}

Ringing(c, redeem, credit, lines, offered) ==
  [pc |-> IF c = NoCustomer THEN "price" ELSE "balance", customer |-> c, redeem |-> redeem,
   credit |-> credit, lines |-> lines, offered |-> offered]

\* sale (no customer) and sale_for: ring_sale is entered.
StartSale(k, c, redeem, lines, offered) ==
  /\ till[k].pc = "idle" /\ posCalls < MaxCalls /\ posCalls' = posCalls + 1
  /\ c = NoCustomer => redeem = 0
  /\ till' = [till EXCEPT ![k] = Ringing(c, redeem, 0, lines, offered)]
  /\ UNCHANGED <<saleState, localLog, pending, syncState, overtaken>>

\* The customer's balance is pushed to the pricing host, and its lock released.
PushBalance(k) ==
  /\ till[k].pc = "balance"
  /\ hostPoints' = points[till[k].customer]
  /\ till' = [till EXCEPT ![k].pc = "price"]
  /\ UNCHANGED <<sales, points, earned, spent, dropped, localLog, pending, syncState, posCalls, overtaken>>

\* The plugin prices the subtotal by the balance the host holds now; the redemption
\* is checked, the remainder split over the tenders, and the sale captured.  A
\* redemption beyond the balance or an uncovered remainder ends the call.
Capture(k) ==
  LET t == till[k]
      total == Discounted(hostPoints, Subtotal(t.lines)) + TaxTotal(t.lines)
      credit == t.redeem + t.credit
      refused == (t.redeem > 0 /\ points[t.customer] < t.redeem)
                 \/ (total > credit /\ ~Covers(total - credit, t.offered))
      sale == [status |-> Advanced("Cart", SalePath), total |-> total, lines |-> t.lines,
               tenders |-> Applied(total, credit, t.offered)]
  IN
  /\ t.pc = "price"
  /\ IF refused THEN till' = [till EXCEPT ![k] = Idle] /\ UNCHANGED sales
     ELSE /\ sales' = Append(sales, sale)
          /\ till' = [till EXCEPT ![k] =
               [pc |-> IF t.customer = NoCustomer THEN "log" ELSE "earn",
                customer |-> t.customer, value |-> Subtotal(t.lines), burn |-> AtMost(t.redeem, total),
                event |-> [kind |-> "Sale", txn |-> Len(sales) + 1, amount |-> total], next |-> Idle]]
  /\ UNCHANGED <<points, hostPoints, earned, spent, dropped, localLog, pending, syncState, posCalls, overtaken>>

\* The guest asks the host for the balance, and PosPricingHost answers under a
\* blocking_lock: in a task of a tokio runtime that panics and the call is gone.
\* (Driven by another executor the call goes on to Capture.)
PluginPanics(k) ==
  /\ till[k].pc = "price" /\ Loaded
  /\ till' = [till EXCEPT ![k] = Idle]
  /\ UNCHANGED <<saleState, localLog, pending, syncState, posCalls, overtaken>>

\* LoyaltyEngine::earn
Earn(k) ==
  LET t == till[k] IN
  /\ t.pc = "earn"
  /\ points' = [points EXCEPT ![t.customer] = @ + t.value]
  /\ earned' = [earned EXCEPT ![t.customer] = @ + t.value]
  /\ till' = [till EXCEPT ![k].pc = IF t.burn > 0 THEN "redeem" ELSE "log"]
  /\ UNCHANGED <<sales, hostPoints, spent, dropped, localLog, pending, syncState, posCalls, overtaken>>

\* LoyaltyEngine::redeem checks again under its lock; when the points are gone the
\* call fails with the sale captured, its points credited and nothing recorded.
Redeem(k) ==
  LET t == till[k] IN
  /\ t.pc = "redeem"
  /\ IF points[t.customer] >= t.burn
     THEN /\ points' = [points EXCEPT ![t.customer] = @ - t.burn]
          /\ spent' = [spent EXCEPT ![t.customer] = @ + t.burn]
          /\ till' = [till EXCEPT ![k].pc = "log"] /\ UNCHANGED dropped
     ELSE /\ till' = [till EXCEPT ![k] = Idle] /\ dropped' = dropped \union {t.event.txn}
          /\ UNCHANGED <<points, spent>>
  /\ UNCHANGED <<sales, hostPoints, earned, localLog, pending, syncState, posCalls, overtaken>>

\* return_sale, and exchange before its new sale: the record is copied, the refund
\* computed, and the return recorded under a transaction id of its own, which is
\* never that of a sale.
StartReturn(k, s, returns, next) ==
  /\ till[k].pc = "idle" /\ posCalls < MaxCalls /\ posCalls' = posCalls + 1
  /\ Returnable(sales[s], returns)
  /\ LET refund == RefundOf(sales[s], returns)
     IN till' = [till EXCEPT ![k] =
          [pc |-> "log", next |-> IF next = Idle THEN Idle ELSE [next EXCEPT !.credit = refund],
           event |-> [kind |-> "Return", txn |-> -1 - posCalls, amount |-> refund]]]
  /\ UNCHANGED <<saleState, localLog, pending, syncState, overtaken>>

\* record_offline: the local log, then the pending list, each under its own lock.
LogLocal(k) ==
  /\ till[k].pc = "log"
  /\ localLog' = Append(localLog, till[k].event)
  /\ till' = [till EXCEPT ![k].pc = "pend"]
  /\ UNCHANGED <<saleState, pending, syncState, posCalls, overtaken>>

Pend(k) ==
  /\ till[k].pc = "pend"
  /\ pending' = Append(pending, till[k].event)
  /\ overtaken' = IF \E s \in Syncer : syncing[s].pc # "idle"
                  THEN overtaken \union {till[k].event} ELSE overtaken
  /\ till' = [till EXCEPT ![k] = till[k].next]
  /\ UNCHANGED <<saleState, localLog, syncState, posCalls>>

-----------------------------------------------------------------------------
(* PosSync::sync_to.                                                       *)

StartSync(s) ==
  /\ syncing[s].pc = "idle" /\ pending # <<>> /\ posSyncs < MaxSyncs
  /\ posSyncs' = posSyncs + 1
  /\ syncing' = [syncing EXCEPT ![s] = [pc |-> "apply", batch |-> pending]]
  /\ UNCHANGED <<saleState, localLog, pending, central, jobs, till, posCalls, overtaken>>

\* variant: the central store trusts the register not to repeat itself
ApplySale_blind(s) ==
  /\ syncing[s].pc = "apply"
  /\ central' = Append(central, Head(syncing[s].batch))
  /\ syncing' = [syncing EXCEPT ![s].batch = Tail(@),
                   ![s].pc = IF Len(syncing[s].batch) = 1 THEN "clear" ELSE "apply"]
  /\ UNCHANGED <<saleState, localLog, pending, posSyncs, jobs, till, posCalls, overtaken>>

\* CentralStore::apply_sale keeps the first of each transaction id.
ApplySale(s) ==
  LET event == Head(syncing[s].batch) IN
  /\ syncing[s].pc = "apply"
  /\ central' = IF \E i \in DOMAIN central : central[i].txn = event.txn THEN central
                ELSE Append(central, event)
  /\ syncing' = [syncing EXCEPT ![s].batch = Tail(@),
                   ![s].pc = IF Len(syncing[s].batch) = 1 THEN "clear" ELSE "apply"]
  /\ UNCHANGED <<saleState, localLog, pending, posSyncs, jobs, till, posCalls, overtaken>>

\* The central store fails: the run ends and everything stays pending.
AbortSync(s) ==
  /\ syncing[s].pc = "apply"
  /\ syncing' = [syncing EXCEPT ![s] = [pc |-> "idle", batch |-> <<>>]]
  /\ UNCHANGED <<saleState, localLog, pending, central, posSyncs, jobs, till, posCalls, overtaken>>

\* Everything that was copied is applied: the list is cleared, whatever it holds by now.
ClearPending(s) ==
  /\ syncing[s].pc = "clear"
  /\ pending' = <<>>
  /\ syncing' = [syncing EXCEPT ![s].pc = "announce"]
  /\ UNCHANGED <<saleState, localLog, central, posSyncs, jobs, till, posCalls, overtaken>>

\* The checkpoint is written and pos.synced published: a bus error leaves the job
\* uncounted.
Announce(s, ok) ==
  /\ syncing[s].pc = "announce"
  /\ jobs' = IF ok THEN jobs + 1 ELSE jobs
  /\ syncing' = [syncing EXCEPT ![s] = [pc |-> "idle", batch |-> <<>>]]
  /\ UNCHANGED <<saleState, localLog, pending, central, posSyncs, till, posCalls, overtaken>>

-----------------------------------------------------------------------------
Ring(k) ==
  \/ PushBalance(k) \/ PluginPanics(k) \/ Capture(k) \/ Earn(k) \/ Redeem(k) \/ LogLocal(k) \/ Pend(k)

Sync(s) ==
  \/ StartSync(s) \/ ApplySale(s) \/ AbortSync(s) \/ ClearPending(s)
  \/ \E ok \in BOOLEAN : Announce(s, ok)

PosNext ==
  \/ \E k \in Clerk, c \in Customer \union {NoCustomer}, r \in Redemptions, b \in Baskets, o \in Offers :
       StartSale(k, c, r, b, o)
  \/ \E k \in Clerk, s \in DOMAIN sales, rl \in ReturnLists : StartReturn(k, s, rl, Idle)
  \/ \E k \in Clerk, s \in DOMAIN sales, b \in Baskets, o \in Offers,
        c \in Customer \union {NoCustomer} :
       StartReturn(k, s, <<>>, Ringing(c, 0, 0, b, o))
  \/ \E k \in Clerk : Ring(k)
  \/ \E s \in Syncer : Sync(s)

PosSpec == PosInit /\ [][PosNext]_posvars

-----------------------------------------------------------------------------
(* Properties.                                                             *)

Events(seq) == Range(seq)
Captured == DOMAIN sales

\* Points are never overdrawn, and account for every credit and redemption, however
\* the checks and the bookings of concurrent sales interleave.
PointsCovered == \A c \in Customer : points[c] >= 0 /\ points[c] = earned[c] - spent[c]

\* What is applied to a sale is its total, credit included; a refund never exceeds it
\* and returns the share of the charged total that the goods are of the subtotal.
SplitsAreExact ==
  \A s \in Captured :
    /\ SumSeq(Amounts(sales[s].tenders)) = sales[s].total
    /\ \A rl \in ReturnLists : Returnable(sales[s], rl) =>
         LET refund == RefundOf(sales[s], rl)
             value == ReturnedValue(sales[s], rl)
             shares == SplitTotal(refund, sales[s].tenders)
         IN /\ refund <= sales[s].total /\ SumSeq(shares) = refund
            /\ (rl = <<>> => shares = Amounts(sales[s].tenders))
            /\ 2 * value <= Subtotal(sales[s].lines) => 2 * refund <= sales[s].total + 1

\* A captured sale is on its way to the log, in it, or of a call that failed at the
\* redemption: no other interleaving loses one.
CapturedIsRecorded ==
  \A s \in Captured :
    \/ s \in dropped
    \/ \E e \in Events(localLog) : e.txn = s /\ e.amount = sales[s].total
    \/ \E k \in Clerk : till[k].pc \in {"earn", "redeem", "log"} /\ till[k].event.txn = s

\* What is recorded is pending or at the central store, unless it was pended while a
\* sync_to was running; and a failed run leaves nothing behind that was not applied.
RecordedIsPendingOrSynced ==
  \A e \in Events(localLog) :
    \/ e \in Events(pending) \union Events(central) \union overtaken
    \/ \E k \in Clerk : till[k].pc = "pend" /\ till[k].event = e

\* The central store holds every transaction once, as it was recorded.
CentralOnce ==
  /\ \A i, j \in DOMAIN central : central[i].txn = central[j].txn => i = j
  /\ Events(central) \subseteq Events(localLog)

\* What the register promises under any interleaving of sales, returns and syncs:
\* points and splits are exact, and a captured sale reaches the central store once,
\* but for the two windows `dropped` and `overtaken` name.
SalesAccounted ==
  /\ PointsCovered
  /\ SplitsAreExact
  /\ CapturedIsRecorded
  /\ RecordedIsPendingOrSynced
  /\ CentralOnce
=============================================================================
