----------------------------- MODULE StockPool -----------------------------
(***************************************************************************)
(* What the reservation engine promises its callers, without sweeps, locks, *)
(* clocks or caches: units are free, promised to one hold, or shipped, and  *)
(* an identity is promised units at most once.                              *)
(***************************************************************************)
EXTENDS Integers

CONSTANTS Sku, Hold, Qty

VARIABLES
  free,        \* units of each SKU nobody has a claim on
  promised,    \* units of each SKU promised to each hold
  shipped,     \* units of each SKU irrevocably allocated
  used         \* identities that have named a hold

poolVars == <<free, promised, shipped, used>>

Init ==
  /\ free = [s \in Sku |-> 0]
  /\ promised = [s \in Sku |-> [h \in Hold |-> 0]]
  /\ shipped = [s \in Sku |-> 0]
  /\ used = {}

\* Units arrive, from a supplier or from a customer.
Replenish(s, q) ==
  /\ free' = [free EXCEPT ![s] = @ + q]
  /\ UNCHANGED <<promised, shipped, used>>

Promise(s, h, q) ==
  /\ h \notin used /\ q <= free[s]
  /\ free' = [free EXCEPT ![s] = @ - q]
  /\ promised' = [promised EXCEPT ![s][h] = q]
  /\ used' = used \cup {h}
  /\ UNCHANGED shipped

Cancel(s, h) ==
  /\ promised[s][h] > 0
  /\ free' = [free EXCEPT ![s] = @ + promised[s][h]]
  /\ promised' = [promised EXCEPT ![s][h] = 0]
  /\ UNCHANGED <<shipped, used>>

Ship(s, h) ==
  /\ promised[s][h] > 0
  /\ shipped' = [shipped EXCEPT ![s] = @ + promised[s][h]]
  /\ promised' = [promised EXCEPT ![s][h] = 0]
  /\ UNCHANGED <<free, used>>

Next ==
  \E s \in Sku :
    \/ \E q \in Qty : Replenish(s, q) \/ \E h \in Hold : Promise(s, h, q)
    \/ \E h \in Hold : Cancel(s, h) \/ Ship(s, h)

Spec == Init /\ [][Next]_poolVars

=============================================================================
