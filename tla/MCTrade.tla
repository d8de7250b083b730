------------------------------ MODULE MCTrade ------------------------------
(* Warehouse, transport, register and orders for TLC: one of the parts,    *)
(* chosen at the start, runs; the others stay as they begin.               *)
EXTENDS Inventory, Routes, HoursOfService, PointOfSale, OrderSaga, TLC

CONSTANTS b1, b2, l1, l2, s1
VARIABLE part

(* Inventory: a receipt with a serial number, two of a lot with different expiries. *)
Received(l, q, e, s) == [lot |-> l, qty |-> q, expiry |-> e, serials |-> s]
MCReceipts == {Received(l1, 1, 0, <<s1>>), Received(l2, 2, 3, <<>>), Received(l2, 1, 1, <<>>)}
Loaded1(l, q) == [lot |-> l, qty |-> q]
MCLoads == {<<Loaded1(l1, 1)>>, <<Loaded1(l1, 1), Loaded1(l2, 1)>>}
MCMovements == {-2}

(* Routes: four picks in three aisles, four stops, three polygons and positions *)
(* inside, outside and on them.                                                 *)
MCPickLists == [1..4 -> {<<0,0>>, <<0,2>>, <<2,0>>, <<2,1>>, <<3,1>>, <<3,2>>, <<1,1>>}]
MCFences == << << <<0,0>>, <<2,0>>, <<2,2>>, <<0,2>> >>, << <<0,2>>, <<2,2>>, <<2,4>>, <<0,4>> >>,
               << <<2,0>>, <<4,0>>, <<2,2>> >> >>
MCSpots == {<<1,1>>, <<1,2>>, <<2,1>>, <<0,3>>, <<3,1>>, <<2,2>>}

(* HoursOfService: an interval may start where the last ended, or an hour before. *)
MCGaps == {-2, 0}

(* PointOfSale: a basket the discount rounds, and one that is mostly tax. *)
Goods(i, q, p, x) == [item |-> i, qty |-> q, price |-> p, tax |-> x]
MCBaskets == {<<Goods("mug", 3, 300, 30), Goods("pen", 1, 101, 0)>>, <<Goods("pen", 1, 100, 900)>>}
MCOffers == {<<[kind |-> "Cash", amount |-> 500], [kind |-> "Card", amount |-> 600]>>}
MCReturnLists == {<<>>, <<[item |-> "pen", qty |-> 2]>>}

(* OrderSaga: a cart that can be filled in part, and a competitor for its ware. *)
Wanted(k, q, p) == [sku |-> k, qty |-> q, price |-> p]
MCCarts == {<<Wanted("a", 2, 100), Wanted("b", 1, 60)>>, <<Wanted("b", 2, 50)>>}

(* Picker, Clerk and Order are given the same two values. *)
Symmetry == Permutations(Picker) \union Permutations(Bin)

Init ==
  /\ part \in {"warehouse", "routes", "hours", "register", "sync", "orders"}
  /\ WInit /\ RoInit /\ HInit /\ PosInit /\ SgInit

(* The register is checked without synchronisation, and synchronisation behind *)
(* sales of one kind.                                                          *)
PosPart ==
  \/ part = "register" /\ PosNext /\ posSyncs' = 0
  \/ /\ part = "sync" /\ PosNext
     /\ posCalls' <= 2
     /\ \A k \in Clerk : till'[k].pc \in {"balance", "price"} =>
          till'[k].customer = NoCustomer /\ till'[k].lines[1].item = "pen"

(* The warehouse: one delivery of after_write is missing at a time, in up to *)
(* two calls, of which the second may deliver it or rebuild.                 *)
WarehousePart ==
  /\ part = "warehouse" /\ WNext
  /\ Cardinality(unsent') <= 1 /\ (unsent' # {} => calls' <= 2)

(* Orders: what happens from outside is bounded as a whole: runs, deliveries,   *)
(* lapses, lines that fail, returns, and, for two, the end of the period.       *)
Outside ==
  runs' + deliveries' + lapses'
  + Cardinality({o \in Order : saga'[o].end = "Failed" \/ rma'[o] # "none"})
  + (IF booksOpen' THEN 0 ELSE 2)
OrdersPart == part = "orders" /\ SgNext /\ Outside <= 5

Next ==
  /\ UNCHANGED part
  /\ \/ WarehousePart /\ UNCHANGED <<rovars, hvars, posvars, sgvars>>
     \/ part = "routes" /\ RoNext /\ UNCHANGED <<wvars, hvars, posvars, sgvars>>
     \/ part = "hours" /\ HNext /\ UNCHANGED <<wvars, rovars, posvars, sgvars>>
     \/ PosPart /\ UNCHANGED <<wvars, rovars, hvars, sgvars>>
     \/ OrdersPart /\ UNCHANGED <<wvars, rovars, hvars, posvars>>

Spec == Init /\ [][Next]_<<part, wvars, rovars, hvars, posvars, sgvars>>
=============================================================================
