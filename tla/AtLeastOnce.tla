---------------------------- MODULE AtLeastOnce ----------------------------
(***************************************************************************)
(* What the outbox promises (crates/tpt-erp-ledger/src/outbox.rs): a row   *)
(* is sent, perhaps more than once, and is settled only after it has been  *)
(* sent; rows are sent for the first time in the order of their ids.       *)
(***************************************************************************)
EXTENDS Integers

CONSTANT Id     \* row ids

VARIABLES accepted, sent, settled     \* sets of row ids

alo == <<accepted, sent, settled>>

Init == accepted = {} /\ sent = {} /\ settled = {}

\* A row becomes visible: it is behind every row sent so far.
Accept(i) ==
  /\ i \notin accepted /\ \A j \in sent : j < i
  /\ accepted' = accepted \cup {i}
  /\ UNCHANGED <<sent, settled>>

\* A row is sent, or sent again, when nothing before it waits to be sent.
Send(i) ==
  /\ i \in accepted /\ \A j \in accepted \ sent : j >= i
  /\ sent' = sent \cup {i}
  /\ UNCHANGED <<accepted, settled>>

Settle(i) ==
  /\ i \in sent
  /\ settled' = settled \cup {i}
  /\ UNCHANGED <<accepted, sent>>

Next == \E i \in Id : Accept(i) \/ Send(i) \/ Settle(i)

Spec == Init /\ [][Next]_alo

=============================================================================
