--------------------------- MODULE Consolidation ---------------------------
(***************************************************************************)
(* Multi-entity consolidation and inter-company eliminations               *)
(* (examples/gl/src/consolidation.rs).  A row of the consolidated trial    *)
(* balance is named by its entity and its account, both numbered in the    *)
(* order of their identifiers; the report is computed in one call, from    *)
(* balances a group may really have.                                       *)
(***************************************************************************)
EXTENDS Accounts

CONSTANTS
  Rows,     \* the (entity, account) pairs of the group
  KindOf,   \* the type of each account of the group
  Tags,     \* accounts tagged with a counterparty, and that entity
  Totals,   \* debits and credits a row may have (bound)
  MaxPairs  \* longest explicit pair list (bound)

ASSUME ConsolidationAssumption ==
  /\ Rows \subseteq Int \X Int /\ IsFiniteSet(Rows)
  /\ \A r \in Rows : KindOf[r[2]] \in Kinds
  /\ Totals \subseteq [debits : Nat, credits : Nat] /\ MaxPairs \in Nat

VARIABLES
  trial,      \* the rows' debits and credits, before eliminations
  pairs,      \* the pair list the eliminations run over
  derived,    \* whether the list was derived from the tags
  group       \* the EliminationResult, once there is one

cvars == <<trial, pairs, derived, group>>

RowKind(r) == KindOf[r[2]]
RowSigned(rows, r) == Signed(rows[r], RowKind(r))
Debits(rows) == MapThenSumSet(LAMBDA r : rows[r].debits, DOMAIN rows)
Credits(rows) == MapThenSumSet(LAMBDA r : rows[r].credits, DOMAIN rows)

\* entity_trial_balance and consolidate: the rows of every entity, side by side.
CInit == trial = [r \in Rows |-> ZeroBalance] /\ pairs = <<>> /\ derived = FALSE /\ group = <<>>

Earlier(r, s) == r[1] < s[1] \/ (r[1] = s[1] /\ r[2] < s[2])
Tagged == {r \in Rows : r[2] \in DOMAIN Tags}
DueFrom == {r \in Tagged : NormalSide(RowKind(r)) = "Debit"}
DueTo == {r \in Tagged : RowKind(r) \in {"Liability", "Equity"}}
Counterparty(r) == Tags[r[2]]

\* The Due-To rows that offset a Due-From; of several, the last one inserted
\* into the map stays.
Offsets(from) == {to \in DueTo : to[1] = Counterparty(from) /\ Counterparty(to) = from[1]}
LastOf(S) == CHOOSE r \in S : \A s \in S \ {r} : Earlier(s, r)

\* The elements of S, each once, as the order R has them.
Sorted(S, R) ==
  CHOOSE ps \in [1..Cardinality(S) -> S] :
    Range(ps) = S /\ \A i, j \in DOMAIN ps : i < j => <<ps[i], ps[j]>> \in R

\* variant: the direction of the tag is not looked at
DerivedPairs_anyDirection ==
  LET found == {p \in DueFrom \X DueTo : p[2][1] = Counterparty(p[1])}
  IN Sorted(found, {e \in found \X found :
       Earlier(e[1][1], e[2][1]) \/ (e[1][1] = e[2][1] /\ Earlier(e[1][2], e[2][2]))})

\* derive_elimination_pairs, in its deterministic order
DerivedPairs ==
  LET found == {<<f, LastOf(Offsets(f))>> : f \in {r \in DueFrom : Offsets(r) # {}}}
  IN Sorted(found, {e \in found \X found : Earlier(e[1][1], e[2][1])})

\* The positive part of the smaller balance.
Overlap(rows, pair) ==
  LET both == {RowSigned(rows, pair[1]), RowSigned(rows, pair[2])}
  IN IF Min(both) > 0 THEN Min(both) ELSE 0

\* One turn of the loop of eliminate.
EliminateOne(res, pair) ==
  LET amount == Overlap(res.rows, pair)
  IN IF amount = 0 THEN res
     ELSE [rows |-> [res.rows EXCEPT ![pair[1]].debits = @ - amount,
                                     ![pair[2]].credits = @ - amount],
           entries |-> Append(Append(res.entries,
                         [account |-> pair[1][2], side |-> "Credit", amount |-> amount]),
                         [account |-> pair[2][2], side |-> "Debit", amount |-> amount]),
           total |-> res.total + amount]

\* eliminate, with every row of the pairs known
Eliminated(rows, ps) == FoldLeft(EliminateOne, [rows |-> rows, entries |-> <<>>, total |-> 0], ps)

ReadBooks ==
  /\ group = <<>> /\ pairs = <<>> /\ trial = [r \in Rows |-> ZeroBalance]
  /\ trial' \in [Rows -> Totals]
  /\ UNCHANGED <<pairs, derived, group>>
ListPairs ==
  /\ group = <<>> /\ Len(pairs) < MaxPairs
  /\ \E f \in DueFrom, t \in DueTo : f[1] # t[1] /\ pairs' = Append(pairs, <<f, t>>)
  /\ UNCHANGED <<trial, derived, group>>
Eliminate ==
  /\ group = <<>>
  /\ \/ pairs' = pairs /\ derived' = FALSE
     \/ pairs = <<>> /\ pairs' = DerivedPairs /\ derived' = TRUE
  /\ group' = <<Eliminated(trial, pairs')>>
  /\ UNCHANGED trial

CNext == ReadBooks \/ ListPairs \/ Eliminate
CSpec == CInit /\ [][CNext]_cvars
-----------------------------------------------------------------------------
\* Eliminations leave the difference of debits and credits as it was, and their
\* entries balance, whatever the pairs (consolidation.rs:215-216).
EliminationKeepsBalance ==
  group # <<>> =>
    /\ Debits(group[1].rows) - Credits(group[1].rows) = Debits(trial) - Credits(trial)
    /\ BalancedEntries(group[1].entries)
    /\ group[1].total = Total(group[1].entries, "Debit")

\* Nothing is invented: a balance only shrinks towards zero, and a pair of the
\* list has no overlap left at the end (consolidation.rs:11-13).
EliminatesOverlapOnly ==
  group # <<>> =>
    /\ \A r \in Rows : \/ RowSigned(group[1].rows, r) = RowSigned(trial, r)
                       \/ RowSigned(group[1].rows, r) \in 0..RowSigned(trial, r)
    /\ \A i \in DOMAIN pairs : Overlap(group[1].rows, pairs[i]) = 0

\* Derived pairs join rows tagged with each other's entity, and leave no two
\* such rows with an overlap while no entity has two Due-To rows to one other
\* (consolidation.rs:302-313).
DerivedPairsSettle ==
  group # <<>> /\ derived =>
    /\ \A i \in DOMAIN pairs : pairs[i][1] \in DueFrom /\ pairs[i][2] \in Offsets(pairs[i][1])
    /\ \A f \in DueFrom : Cardinality(Offsets(f)) = 1 =>
         \A t \in Offsets(f) : Overlap(group[1].rows, <<f, t>>) = 0

\* What consolidation promises for every group: it stays balanced, and eliminates
\* what both sides booked, no more, in each pair it derives.
GroupBalances ==
  /\ EliminationKeepsBalance
  /\ EliminatesOverlapOnly
  /\ DerivedPairsSettle
=============================================================================
