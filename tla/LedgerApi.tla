----------------------------- MODULE LedgerApi -----------------------------
(***************************************************************************)
(* The reference ledger server (examples/server) and the read models over  *)
(* the journal: balances, their value at an earlier point of the log, and  *)
(* the anomaly detector (crates/tpt-erp-ledger projection.rs, replay.rs,   *)
(* anomaly.rs).  Each tenant has a journal of its own; a request for       *)
(* balances copies the events under the lock and folds them after it.      *)
(*                                                                         *)
(* The detector's mean and variance are kept as exact sums, n, the sum and *)
(* the sum of squares, where the code updates floating point moments.      *)
(***************************************************************************)
EXTENDS Integers, Sequences, FiniteSets, Functions, FiniteSetsExt, SequencesExt

CONSTANTS
  Tenant, Reader, LedgerAccount,
  Bodies,        \* the sequences of [account, side, amount] clients post
  ZSquared,      \* the square of z_threshold
  MinSamples,
  MaxPosts, MaxReads

LedgerLine == [account : LedgerAccount, side : {"debit", "credit"}, amount : Int]

ASSUME LedgerApiAssumption ==
  /\ IsFiniteSet(LedgerAccount)
  /\ Bodies \subseteq Seq(LedgerLine)
  /\ ZSquared \in Nat /\ MinSamples \in Nat

VARIABLES
  journal,   \* tenant |-> its log of [id, by, entries]
  reading,   \* reader |-> the request it serves
  answered,  \* the balances given: [tenant, upto, sums]
  was,       \* history: tenant |-> its balances after each append
  posts, reads
lavars == <<journal, reading, answered, was, posts, reads>>

Side(entries, s) ==
  FoldLeft(LAMBDA v, e : IF e.side = s THEN v + e.amount ELSE v, 0, entries)

\* Transaction::validate
Validated(entries) ==
  /\ Len(entries) >= 2
  /\ Side(entries, "debit") = Side(entries, "credit")

-----------------------------------------------------------------------------
(* Projections.                                                            *)

\* BalanceProjection::apply: a debit lowers a balance, a credit raises it.
ApplyEntry(sums, e) ==
  [sums EXCEPT ![e.account] = IF e.side = "debit" THEN @ - e.amount ELSE @ + e.amount]

NoBalances == [a \in LedgerAccount |-> 0]

\* replay over the projection, of a log of balanced transactions.
Balances(log) ==
  FoldLeft(LAMBDA sums, tx : FoldLeft(ApplyEntry, sums, tx.entries), NoBalances, log)

\* variant: the bound is inclusive from zero, one event too many
UpTo_inclusive(log, n) == SubSeq(log, 1, Min({Len(log), n + 1}))

\* The events replay_point_in_time replays.
UpTo(log, n) == SubSeq(log, 1, Min({Len(log), n}))

\* The value the detector measures: the sum over all entries of both sides.
ValueOf(tx) == FoldLeft(LAMBDA v, e : v + e.amount, 0, tx.entries)

\* Two transactions have the same signature: the same entries in any order.
SameEntries(x, y) ==
  Len(x.entries) = Len(y.entries)
  /\ \E p \in [DOMAIN x.entries -> DOMAIN y.entries] :
       IsInjective(p) /\ \A i \in DOMAIN p : x.entries[i] = y.entries[p[i]]

FreshDetector == [found |-> <<>>, n |-> 0, sum |-> 0, squares |-> 0, seen |-> <<>>]

\* |value - mean| exceeds z standard deviations of the moments in d.
IsOutlier(d, value) ==
  LET spread == d.n * d.squares - d.sum * d.sum
      off == d.n * value - d.sum
  IN d.n >= MinSamples /\ spread > 0 /\ off * off > ZSquared * spread

WithSample(d, value) ==
  [d EXCEPT !.n = @ + 1, !.sum = @ + value, !.squares = @ + value * value]

\* detect_amount
Measured(d, tx) ==
  LET e == IF IsOutlier(d, ValueOf(tx))
           THEN [d EXCEPT !.found = Append(@, [kind |-> "outlier", tx |-> tx.id])] ELSE d
  IN WithSample(e, ValueOf(tx))

\* The duplicate detector: the first transaction of a signature is kept.
Compared(d, tx) ==
  LET first == SelectInSeq(d.seen, LAMBDA y : SameEntries(y, tx))
  IN IF first = 0 THEN [d EXCEPT !.seen = Append(@, tx)]
     ELSE IF d.seen[first].id = tx.id THEN d
     ELSE [d EXCEPT !.found = Append(@, [kind |-> "duplicate", tx |-> tx.id, first |-> d.seen[first].id])]

\* AnomalyProjector::apply
Detect(d, tx) ==
  IF ~Validated(tx.entries) THEN [d EXCEPT !.found = Append(@, [kind |-> "unbalanced", tx |-> tx.id])]
  ELSE Measured(Compared(d, tx), tx)

Findings(log) == ToSet(FoldLeft(Detect, FreshDetector, log).found)

-----------------------------------------------------------------------------
(* The server.                                                             *)

NoRequest == [on |-> FALSE, tenant |-> CHOOSE t \in Tenant : TRUE, upto |-> 0, events |-> <<>>]

LaInit ==
  /\ journal = [t \in Tenant |-> <<>>]
  /\ reading = [r \in Reader |-> NoRequest]
  /\ answered = {}
  /\ was = [t \in Tenant |-> <<>>]
  /\ posts = 0 /\ reads = 0

\* The map entry of a tenant.
LedgerOf(t) == t

\* POST /transactions: the body is checked, then appended under the lock.
Post(t, entries) ==
  /\ posts < MaxPosts /\ posts' = posts + 1
  /\ Validated(entries)
  /\ journal' = [journal EXCEPT ![LedgerOf(t)] = Append(@, [id |-> posts, by |-> t, entries |-> entries])]
  /\ was' = [was EXCEPT ![LedgerOf(t)] = Append(@, Balances(journal'[LedgerOf(t)]))]
  /\ UNCHANGED <<reading, answered, reads>>

\* GET /balances: the events are copied under the lock; a replay up to an
\* earlier index of the log is the auditor's view.
CopyLog(r, t, n) ==
  /\ ~reading[r].on /\ reads < MaxReads /\ reads' = reads + 1
  /\ n <= Len(journal[LedgerOf(t)])
  /\ reading' = [reading EXCEPT ![r] = [on |-> TRUE, tenant |-> t, upto |-> n,
                                        events |-> UpTo(journal[LedgerOf(t)], n)]]
  /\ UNCHANGED <<journal, answered, was, posts>>

\* The fold, with the lock released.
Answer(r) ==
  /\ reading[r].on
  /\ answered' = answered \union
       {[tenant |-> reading[r].tenant, upto |-> reading[r].upto,
         sums |-> Balances(reading[r].events), by |-> {reading[r].events[i].by : i \in DOMAIN reading[r].events}]}
  /\ reading' = [reading EXCEPT ![r] = NoRequest]
  /\ UNCHANGED <<journal, was, posts, reads>>

LaNext ==
  \/ \E t \in Tenant, entries \in Bodies : Post(t, entries)
  \/ \E r \in Reader, t \in Tenant, n \in 0 .. MaxPosts : CopyLog(r, t, n)
  \/ \E r \in Reader : Answer(r)

LaSpec == LaInit /\ [][LaNext]_lavars

-----------------------------------------------------------------------------
(* Nothing gets into a journal that the balance projection would refuse:   *)
(* GET /balances relies on it ("projection cannot fail", server lib.rs     *)
(* 94-96), and every answer sums to zero over the accounts.                *)
ReplayNeverFails ==
  /\ \A t \in Tenant : \A i \in DOMAIN journal[t] :
       Side(journal[t][i].entries, "debit") = Side(journal[t][i].entries, "credit")
  /\ \A a \in answered : MapThenSumSet(LAMBDA k : a.sums[k], LedgerAccount) = 0

(* A request only ever reads its own tenant's journal (server lib.rs 3-6). *)
TenantsApart == \A a \in answered : a.by \subseteq {a.tenant}

(* A replay of the first n events gives what the balances were when the    *)
(* log had n events, whenever it is asked for (replay.rs 3-14).            *)
PastStands ==
  \A a \in answered :
    a.sums = IF a.upto = 0 THEN NoBalances ELSE was[LedgerOf(a.tenant)][a.upto]

\* What a second pass over a log finds: the pairs of a transaction and a later copy
\* of it, and how far a value lies from the values before it.
Copies(log) ==
  {p \in (DOMAIN log) \X (DOMAIN log) :
     /\ p[1] < p[2] /\ SameEntries(log[p[1]], log[p[2]])
     /\ \A h \in 1 .. p[1] - 1 : ~SameEntries(log[h], log[p[1]])}
TotalValue(log, n) == FoldLeft(LAMBDA v, tx : v + ValueOf(tx), 0, UpTo(log, n))
Off(log, n, k) == n * ValueOf(log[k]) - TotalValue(log, n)
Spread(log, n) == MapThenSumSet(LAMBDA k : Off(log, n, k) * Off(log, n, k), 1 .. n)
Far(log, j) ==
  /\ j - 1 >= MinSamples /\ Spread(log, j - 1) > 0
  /\ (j - 1) * Off(log, j - 1, j) * Off(log, j - 1, j) > ZSquared * Spread(log, j - 1)
TwoPass(log) ==
  {[kind |-> "duplicate", tx |-> log[p[2]].id, first |-> log[p[1]].id] : p \in Copies(log)}
    \union {[kind |-> "outlier", tx |-> log[j].id] : j \in {i \in DOMAIN log : Far(log, i)}}

(* The streaming detector finds what a second pass over the log finds: the *)
(* later copies of a transaction, and the values far from the mean of the  *)
(* values before them (anomaly.rs 11-22, 108-113).                         *)
FindingsMatchTwoPass == \A t \in Tenant : Findings(journal[t]) = TwoPass(journal[t])

\* What the ledger server promises its readers: every journal replays, an answer is
\* of its own tenant and of the very prefix asked for, and the detector finds what a
\* second pass would.
ServerTellsTruth ==
  /\ ReplayNeverFails
  /\ TenantsApart
  /\ PastStands
  /\ FindingsMatchTwoPass
=============================================================================
