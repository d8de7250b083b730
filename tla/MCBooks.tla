------------------------------ MODULE MCBooks ------------------------------
(* The general ledger and the ledger server for TLC: one of the parts,     *)
(* chosen at the start, runs; the others stay as they begin.               *)
EXTENDS Journal, Consolidation, Revaluation, LedgerApi, TLC

VARIABLE part

(* Journal: a transaction, one that names an account twice, one that does not balance, *)
(* one on an account outside the chart.                                                *)
MCKind == 1 :> "Asset" @@ 2 :> "Revenue" @@ 3 :> "Equity"
Line(a, s, m) == [account |-> a, side |-> s, amount |-> m]
MCOffered ==
  {<<Line(1, "Debit", 1), Line(2, "Credit", 1)>>,
   <<Line(2, "Credit", 1), Line(2, "Credit", 1), Line(1, "Debit", 2)>>,
   <<Line(1, "Debit", 2), Line(2, "Credit", 1)>>,
   <<Line(1, "Debit", 1), Line(4, "Credit", 1)>>}
(* Every account in a shard of its own, or two that share one. *)
MCMaps == {[a \in Account |-> a - 1], [a \in Account |-> IF a = 2 THEN 0 ELSE a - 1]}
Symmetry == Permutations(Poster)

(* Consolidation: entity 1 is owed by and owes entity 2, which has two rows for it *)
(* and one for an entity 3 that has no books.                                      *)
MCKindOf == 1 :> "Asset" @@ 2 :> "Liability" @@ 3 :> "Asset" @@ 4 :> "Liability" @@ 5 :> "Liability"
         @@ 6 :> "Liability"
MCTags == 1 :> 2 @@ 2 :> 2 @@ 3 :> 1 @@ 4 :> 1 @@ 5 :> 1 @@ 6 :> 3
MCRows == {<<1, 1>>, <<1, 2>>, <<2, 3>>, <<2, 4>>, <<2, 5>>, <<2, 6>>}
MCTotals == {[debits |-> d, credits |-> c] : <<d, c>> \in {<<0, 0>>, <<0, 2>>, <<3, 2>>}}

(* Revaluation: an asset and a liability in a foreign currency. *)
MCForeign == 1 :> [kind |-> "Asset", balance |-> 3, book |-> 2]
          @@ 2 :> [kind |-> "Liability", balance |-> 2, book |-> 1]
MCBase == {-5, 1}
MCKeys == {<<"j1", "Sales">>, <<"j1", "Vat">>}

(* LedgerApi: a transaction, the same with its entries swapped, a near one, one far *)
(* off, and two that are not valid.                                                *)
MCBodies ==
  {<<Line("a", "debit", 10), Line("b", "credit", 10)>>,
   <<Line("b", "credit", 10), Line("a", "debit", 10)>>,
   <<Line("a", "debit", 11), Line("b", "credit", 11)>>,
   <<Line("a", "debit", 90), Line("b", "credit", 50), Line("b", "credit", 40)>>,
   <<Line("a", "debit", 10), Line("b", "credit", 9)>>,
   <<Line("a", "debit", 0)>>}

(* The journal runs twice: while the period stays open, with readers beside all  *)
(* transactions, or, once a put has failed or was skipped, in the place of one;  *)
(* and with a period that moves, where the cache misses nothing (bounds).        *)
ReaderForTx == Len(begun') + rebuilds' <= MaxTx
WhileOpen == missed' # {} => ReaderForTx
InPeriods == ReaderForTx /\ missed' = {}

Init ==
  /\ part \in {"journal", "periods", "group", "revaluation", "server"}
  /\ JInit /\ (part \notin {"journal", "periods"} => shardOf = [a \in Account |-> a - 1])
  /\ CInit /\ RInit /\ LaInit

Next ==
  /\ UNCHANGED part
  /\ \/ part = "journal" /\ JNext /\ WhileOpen /\ UNCHANGED <<closedIn, workflow, cvars, rvars, lavars>>
     \/ part = "periods" /\ JNext /\ InPeriods /\ UNCHANGED <<cvars, rvars, lavars>>
     \/ part = "group" /\ CNext /\ UNCHANGED <<jvars, rvars, lavars>>
     \/ part = "revaluation" /\ RNext /\ UNCHANGED <<jvars, cvars, lavars>>
     \/ part = "server" /\ LaNext /\ UNCHANGED <<jvars, cvars, rvars>>

Spec == Init /\ [][Next]_<<part, jvars, cvars, rvars, lavars>>
=============================================================================
