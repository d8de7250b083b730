-------------------------- MODULE MCLedgerDelivery --------------------------
(* LedgerDelivery for TLC: processes, clients, aggregates, events and      *)
(* relays are interchangeable.                                             *)
EXTENDS LedgerDelivery, TLC

Symmetry == Permutations(Node) \cup Permutations(Client) \cup Permutations(Agg)
            \cup Permutations(Ev) \cup Permutations(Relay)

=============================================================================
