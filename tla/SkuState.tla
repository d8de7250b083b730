------------------------------ MODULE SkuState ------------------------------
(***************************************************************************)
(* The per-SKU read model of the OMS reservation engine and the events it  *)
(* is derived from (examples/oms/src/reservation.rs).                      *)
(*                                                                         *)
(* A HashMap<Id<Hold>, u32> is a total function on the finite set of hold  *)
(* identities, 0 standing for "no entry": every quantity the engine is     *)
(* asked for here is positive, so the two cannot be confused.              *)
(***************************************************************************)
EXTENDS Integers, FiniteSets

CONSTANT Hold          \* identities Id::new() can draw: holds and backorders

ASSUME HoldFinite == IsFiniteSet(Hold)

QtyMap == [Hold -> Nat]

SkuStates == [onHand: Int, committed: Int, holds: QtyMap, backorders: QtyMap]

NoQty == [h \in Hold |-> 0]

EmptySku == [onHand |-> 0, committed |-> 0, holds |-> NoQty, backorders |-> NoQty]

\* The units promised by a quantity map, numbered within each entry; their
\* number is the sum `held()` computes.
Units(f) == UNION {{h} \X (1..f[h]) : h \in Hold}
Held(f) == Cardinality(Units(f))

Available(st) == st.onHand - st.committed - Held(st.holds)

Present(f, h) == f[h] > 0
Keys(f) == {h \in Hold : Present(f, h)}

-----------------------------------------------------------------------------
(* The changes the engine makes to the live state under a shard lock.      *)

AddStock(st, q) == [st EXCEPT !.onHand = @ + q]
PutHold(st, h, q) == [st EXCEPT !.holds[h] = q]
DropHold(st, h) == [st EXCEPT !.holds[h] = 0]
\* variant: the committed hold is not removed
CommitHold_keepsHold(st, h) == [st EXCEPT !.committed = @ + st.holds[h]]
CommitHold(st, h) ==
  [st EXCEPT !.committed = @ + st.holds[h], !.holds[h] = 0]
PutBackorder(st, b, q) == [st EXCEPT !.backorders[b] = q]
PromoteBackorder(st, b, h, q) ==
  [st EXCEPT !.backorders[b] = 0, !.holds[h] = q]

-----------------------------------------------------------------------------
(* The events, and the projection that folds one of them into a state.     *)

Received(q)           == [kind |-> "received", qty |-> q]
HoldPlaced(h, q)      == [kind |-> "hold", id |-> h, qty |-> q]
Captured(h)           == [kind |-> "capture", id |-> h]
Released(h)           == [kind |-> "release", id |-> h]
BackorderPlaced(b, q) == [kind |-> "backorder_placed", id |-> b, qty |-> q]
BackorderFilled(h, q) == [kind |-> "backorder_filled", id |-> h, qty |-> q]
Returned(q)           == [kind |-> "return", qty |-> q]

\* A hold's deadline is no part of this state: the event of a hold has it, but the
\* projection restores it nowhere (reservation.rs:675-705 against the index of line
\* 101), so what is compared with the live state is the quantities and the ids.

\* variant: the projection forgets that captured units are committed
Project_noCommit(st, ev) ==
  CASE ev.kind \in {"received", "return"} -> [st EXCEPT !.onHand = @ + ev.qty]
    [] ev.kind = "hold" -> [st EXCEPT !.holds[ev.id] = ev.qty]
    [] ev.kind \in {"capture", "release"} -> [st EXCEPT !.holds[ev.id] = 0]
    [] OTHER -> [st EXCEPT !.backorders[ev.id] = ev.qty]

Project(st, ev) ==
  CASE ev.kind \in {"received", "return"} ->
         [st EXCEPT !.onHand = @ + ev.qty]
    [] ev.kind = "hold" ->
         [st EXCEPT !.holds[ev.id] = ev.qty]
    [] ev.kind = "capture" ->
         IF Present(st.holds, ev.id)
           THEN [st EXCEPT !.committed = @ + st.holds[ev.id], !.holds[ev.id] = 0]
           ELSE st
    [] ev.kind = "release" ->
         [st EXCEPT !.holds[ev.id] = 0]
    [] ev.kind = "backorder_placed" ->
         [st EXCEPT !.backorders[ev.id] = ev.qty]
    [] ev.kind = "backorder_filled" ->
         \* the entry looked up is the one the event names; its own qty is ignored
         IF Present(st.backorders, ev.id)
           THEN [st EXCEPT !.holds[ev.id] = st.backorders[ev.id],
                           !.backorders[ev.id] = 0]
           ELSE st
=============================================================================
