--------------------------- MODULE MCReservation ---------------------------
(* Reservation for TLC: callers and hold identities are interchangeable.   *)
EXTENDS Reservation, TLC

Symmetry == Permutations(Hold) \cup Permutations(Caller)

=============================================================================
