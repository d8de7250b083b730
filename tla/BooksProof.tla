----------------------------- MODULE BooksProof -----------------------------
(***************************************************************************)
(* The general ledger under any interleaving of posts, closings, rebuilds  *)
(* and reads: Journal's LedgerHolds, for any accounts, entries and         *)
(* posters.  A group's eliminations: Consolidation's GroupBalances, for    *)
(* any books and any pairs.  The ledger server under any posts and reads:  *)
(* LedgerApi's ServerTellsTruth, for any tenants, readers, bodies and      *)
(* thresholds.  Rates, revaluation and tax: Revaluation's                  *)
(* ConversionsSettle, for any rates, accounts, keys and bases.             *)
(***************************************************************************)
EXTENDS Journal, Consolidation, Revaluation, LedgerApi, FoldLemmas

EntrySide == {"Debit", "Credit"}
Leg == [tx : Nat, side : EntrySide, amount : Int, period : Period]
Balance == [debits : Int, credits : Int]
Logs == [Account -> Seq(Leg)]
Running == [Account -> Balance]

-----------------------------------------------------------------------------
(* Legs, balances and totals: what the folds compute, one element at a     *)
(* time.                                                                   *)

\* A leg moves one side of a balance by its amount.
LEMMA LegEffect ==
  ASSUME NEW bal \in Balance, NEW e, e.side \in EntrySide, e.amount \in Int
  PROVE  /\ WithLeg(bal, e) \in Balance
         /\ WithLeg(bal, e).debits = bal.debits + (IF e.side = "Debit" THEN e.amount ELSE 0)
         /\ WithLeg(bal, e).credits = bal.credits + (IF e.side = "Credit" THEN e.amount ELSE 0)
  BY DEF WithLeg, Balance, EntrySide

\* Replaying a log: one balance after each leg.
LEMMA ReplayedChain ==
  ASSUME NEW log \in Seq(Leg)
  PROVE  \E r \in [0..Len(log) -> Balance] :
           /\ r[0] = ZeroBalance /\ \A i \in 1..Len(log) : r[i] = WithLeg(r[i - 1], log[i])
           /\ Replayed(log) = r[Len(log)]
<1> DEFINE N == Len(log)
           F == [i \in 1..N |-> [t \in Balance |-> WithLeg(t, log[i])]]
           Body(h, s) == IF s = {} THEN ZeroBalance
                         ELSE WithLeg(h[s \ {Max(s)}], log[Max(s)])
           iter == CHOOSE h : h = [s \in SUBSET (DOMAIN log) |-> Body(h, s)]
<1>1. N \in Nat /\ DOMAIN log = 1..N /\ \A i \in 1..N : log[i] \in Leg
  BY ElementOfSeq
<1>2. Replayed(log) = iter[DOMAIN log]
  BY DEF Replayed, FoldLeft, MapThenFoldSet
<1>3. F \in [1..N -> [Balance -> Balance]]
  <2>1. ASSUME NEW i \in 1..N, NEW t \in Balance PROVE WithLeg(t, log[i]) \in Balance
    <3>1. log[i].side \in EntrySide /\ log[i].amount \in Int
      BY <1>1 DEF Leg
    <3> QED
      BY <3>1, LegEffect
  <2> QED
    BY <2>1
<1>4. \A s \in (SUBSET (1..N)) \ {{}} : Max(s) \in 1..N /\ s \ {Max(s)} \in SUBSET (1..N)
  <2>1. ASSUME NEW s \in (SUBSET (1..N)) \ {{}} PROVE Max(s) \in s
    <3>1. s \subseteq 0..N /\ s # {}
      OBVIOUS
    <3> QED
      BY <1>1, <3>1, Greatest
  <2> QED
    BY <2>1
<1>5. \A h, s : s \in (SUBSET (1..N)) \ {{}} /\ h[s \ {Max(s)}] \in Balance
                => F[Max(s)][h[s \ {Max(s)}]] = Body(h, s)
  BY <1>4
<1>6. \A h : Body(h, {}) = ZeroBalance
  OBVIOUS
<1> HIDE DEF Body, F, N, iter
<1>7. Foldable(N, Balance, F, ZeroBalance)
  <2>1. ZeroBalance \in Balance /\ N \in Nat
    BY <1>1 DEF ZeroBalance, Balance
  <2> QED
    BY <1>3, <2>1, FoldRule
<1>8. PICK g \in [SUBSET (1..N) -> Balance], r \in [0..N -> Balance] :
        /\ Unfolds(g, N, F, ZeroBalance) /\ Chain(r, N, F, ZeroBalance)
        /\ \A h : Follows(h, N, Balance, F, ZeroBalance) => h[1..N] = r[N]
  BY <1>7 DEF Foldable
<1>9. g = [s \in SUBSET (DOMAIN log) |-> Body(g, s)]
  <2>1. ASSUME NEW s \in SUBSET (1..N) PROVE g[s] = Body(g, s)
    BY <1>4, <1>5, <1>6, <1>8 DEF Unfolds
  <2> QED
    BY <1>1, <2>1
<1>10. iter = [s \in SUBSET (DOMAIN log) |-> Body(iter, s)]
  BY <1>9 DEF iter
<1>11. Follows(iter, N, Balance, F, ZeroBalance)
  BY <1>1, <1>5, <1>6, <1>10 DEF Follows
<1>12. iter[1..N] = r[N]
  BY <1>8, <1>11
<1>13. \A i \in 1..N : r[i] = WithLeg(r[i - 1], log[i])
  <2>1. ASSUME NEW i \in 1..N PROVE r[i] = WithLeg(r[i - 1], log[i])
    <3>1. i - 1 \in 0..N /\ r[i - 1] \in Balance
      BY <1>1, <1>8
    <3> QED
      BY <1>8, <3>1 DEF Chain, F
  <2> QED
    BY <2>1
<1> QED
  BY <1>1, <1>2, <1>8, <1>12, <1>13 DEF Chain, N

\* Totalling entries: one sum after each entry.
LEMMA TotalChain ==
  ASSUME NEW E, \A x \in E : x.amount \in Int,
         NEW entries \in Seq(E), NEW side
  PROVE  \E r \in [0..Len(entries) -> Int] :
           /\ r[0] = 0 /\ \A i \in 1..Len(entries) : r[i] = (IF entries[i].side = side THEN r[i - 1] + entries[i].amount ELSE r[i - 1])
           /\ Total(entries, side) = r[Len(entries)]
<1> DEFINE N == Len(entries)
           F == [i \in 1..N |-> [t \in Int |-> (IF entries[i].side = side THEN t + entries[i].amount ELSE t)]]
           Body(h, s) == IF s = {} THEN 0
                         ELSE (IF entries[Max(s)].side = side THEN h[s \ {Max(s)}] + entries[Max(s)].amount ELSE h[s \ {Max(s)}])
           iter == CHOOSE h : h = [s \in SUBSET (DOMAIN entries) |-> Body(h, s)]
<1>1. N \in Nat /\ DOMAIN entries = 1..N /\ \A i \in 1..N : entries[i] \in E
  BY ElementOfSeq
<1>2. Total(entries, side) = iter[DOMAIN entries]
  BY DEF Total, FoldLeft, MapThenFoldSet
<1>3. F \in [1..N -> [Int -> Int]]
  BY <1>1
<1>4. \A s \in (SUBSET (1..N)) \ {{}} : Max(s) \in 1..N /\ s \ {Max(s)} \in SUBSET (1..N)
  <2>1. ASSUME NEW s \in (SUBSET (1..N)) \ {{}} PROVE Max(s) \in s
    <3>1. s \subseteq 0..N /\ s # {}
      OBVIOUS
    <3> QED
      BY <1>1, <3>1, Greatest
  <2> QED
    BY <2>1
<1>5. \A h, s : s \in (SUBSET (1..N)) \ {{}} /\ h[s \ {Max(s)}] \in Int
                => F[Max(s)][h[s \ {Max(s)}]] = Body(h, s)
  BY <1>4
<1>6. \A h : Body(h, {}) = 0
  OBVIOUS
<1> HIDE DEF Body, F, N, iter
<1>7. Foldable(N, Int, F, 0)
  <2>1. 0 \in Int /\ N \in Nat
    BY <1>1
  <2> QED
    BY <1>3, <2>1, FoldRule
<1>8. PICK g \in [SUBSET (1..N) -> Int], r \in [0..N -> Int] :
        /\ Unfolds(g, N, F, 0) /\ Chain(r, N, F, 0)
        /\ \A h : Follows(h, N, Int, F, 0) => h[1..N] = r[N]
  BY <1>7 DEF Foldable
<1>9. g = [s \in SUBSET (DOMAIN entries) |-> Body(g, s)]
  <2>1. ASSUME NEW s \in SUBSET (1..N) PROVE g[s] = Body(g, s)
    BY <1>4, <1>5, <1>6, <1>8 DEF Unfolds
  <2> QED
    BY <1>1, <2>1
<1>10. iter = [s \in SUBSET (DOMAIN entries) |-> Body(iter, s)]
  BY <1>9 DEF iter
<1>11. Follows(iter, N, Int, F, 0)
  BY <1>1, <1>5, <1>6, <1>10 DEF Follows
<1>12. iter[1..N] = r[N]
  BY <1>8, <1>11
<1>13. \A i \in 1..N : r[i] = (IF entries[i].side = side THEN r[i - 1] + entries[i].amount ELSE r[i - 1])
  <2>1. ASSUME NEW i \in 1..N PROVE r[i] = (IF entries[i].side = side THEN r[i - 1] + entries[i].amount ELSE r[i - 1])
    <3>1. i - 1 \in 0..N /\ r[i - 1] \in Int
      BY <1>1, <1>8
    <3> QED
      BY <1>8, <3>1 DEF Chain, F
  <2> QED
    BY <2>1
<1> QED
  BY <1>1, <1>2, <1>8, <1>12, <1>13 DEF Chain, N

LEMMA EntriesChain ==
  ASSUME NEW entries \in Seq(LedgerEntry), NEW side
  PROVE  \E r \in [0..Len(entries) -> Int] :
           /\ r[0] = 0 /\ \A i \in 1..Len(entries) : r[i] = (IF entries[i].side = side THEN r[i - 1] + entries[i].amount ELSE r[i - 1])
           /\ Total(entries, side) = r[Len(entries)]
<1>1. \A x \in LedgerEntry : x.amount \in Int
  BY DEF LedgerEntry
<1> QED
  BY <1>1, TotalChain

\* One entry in a log: a leg more in its account's.
WithOneLeg(log, e, tx, p) ==
  [log EXCEPT ![e.account] = Append(@, [tx |-> tx, side |-> e.side, amount |-> e.amount, period |-> p])]
WithOneEntry(bal, e) == [bal EXCEPT ![e.account] = WithLeg(@, e)]

\* The logs are logs still with a leg more.
LEMMA OneLeg ==
  ASSUME NEW log \in Logs, NEW e \in LedgerEntry, NEW tx \in Nat, NEW p \in Period
  PROVE  WithOneLeg(log, e, tx, p) \in Logs
<1> DEFINE leg == [tx |-> tx, side |-> e.side, amount |-> e.amount, period |-> p]
<1>1. leg \in Leg /\ e.account \in Account
  BY DEF Leg, LedgerEntry, EntrySide
<1> HIDE DEF leg
<1>2. Append(log[e.account], leg) \in Seq(Leg)
  BY <1>1, AppendProperties DEF Logs
<1>3. [log EXCEPT ![e.account] = Append(@, leg)] \in Logs
  BY <1>1, <1>2 DEF Logs
<1> QED
  BY <1>3 DEF WithOneLeg, leg

\* The balances are balances still with an entry applied.
LEMMA OneEntry ==
  ASSUME NEW bal \in Running, NEW e \in LedgerEntry
  PROVE  WithOneEntry(bal, e) \in Running
<1>1. WithLeg(bal[e.account], e) \in Balance /\ e.account \in Account
  BY LegEffect DEF Running, LedgerEntry, EntrySide
<1> QED
  BY <1>1 DEF WithOneEntry, Running

\* Posting to the logs: the logs after each entry.
LEMMA LegsChain ==
  ASSUME NEW log \in Logs, NEW entries \in Seq(LedgerEntry), NEW tx \in Nat, NEW p \in Period
  PROVE  \E r \in [0..Len(entries) -> Logs] :
           /\ r[0] = log /\ \A i \in 1..Len(entries) : r[i] = WithOneLeg(r[i - 1], entries[i], tx, p)
           /\ WithLegs(log, entries, tx, p) = r[Len(entries)]
<1> DEFINE N == Len(entries)
           F == [i \in 1..N |-> [t \in Logs |-> WithOneLeg(t, entries[i], tx, p)]]
           Body(h, s) == IF s = {} THEN log
                         ELSE WithOneLeg(h[s \ {Max(s)}], entries[Max(s)], tx, p)
           iter == CHOOSE h : h = [s \in SUBSET (DOMAIN entries) |-> Body(h, s)]
<1>1. N \in Nat /\ DOMAIN entries = 1..N /\ \A i \in 1..N : entries[i] \in LedgerEntry
  BY ElementOfSeq
<1>2. WithLegs(log, entries, tx, p) = iter[DOMAIN entries]
  BY DEF WithLegs, WithOneLeg, FoldLeft, MapThenFoldSet
<1>3. F \in [1..N -> [Logs -> Logs]]
  BY <1>1, OneLeg
<1>4. \A s \in (SUBSET (1..N)) \ {{}} : Max(s) \in 1..N /\ s \ {Max(s)} \in SUBSET (1..N)
  <2>1. ASSUME NEW s \in (SUBSET (1..N)) \ {{}} PROVE Max(s) \in s
    <3>1. s \subseteq 0..N /\ s # {}
      OBVIOUS
    <3> QED
      BY <1>1, <3>1, Greatest
  <2> QED
    BY <2>1
<1>5. \A h, s : s \in (SUBSET (1..N)) \ {{}} /\ h[s \ {Max(s)}] \in Logs
                => F[Max(s)][h[s \ {Max(s)}]] = Body(h, s)
  BY <1>4
<1>6. \A h : Body(h, {}) = log
  OBVIOUS
<1> HIDE DEF Body, F, N, iter
<1>7. Foldable(N, Logs, F, log)
  <2>1. log \in Logs /\ N \in Nat
    BY <1>1
  <2> QED
    BY <1>3, <2>1, FoldRule
<1>8. PICK g \in [SUBSET (1..N) -> Logs], r \in [0..N -> Logs] :
        /\ Unfolds(g, N, F, log) /\ Chain(r, N, F, log)
        /\ \A h : Follows(h, N, Logs, F, log) => h[1..N] = r[N]
  BY <1>7 DEF Foldable
<1>9. g = [s \in SUBSET (DOMAIN entries) |-> Body(g, s)]
  <2>1. ASSUME NEW s \in SUBSET (1..N) PROVE g[s] = Body(g, s)
    BY <1>4, <1>5, <1>6, <1>8 DEF Unfolds
  <2> QED
    BY <1>1, <2>1
<1>10. iter = [s \in SUBSET (DOMAIN entries) |-> Body(iter, s)]
  BY <1>9 DEF iter
<1>11. Follows(iter, N, Logs, F, log)
  BY <1>1, <1>5, <1>6, <1>10 DEF Follows
<1>12. iter[1..N] = r[N]
  BY <1>8, <1>11
<1>13. \A i \in 1..N : r[i] = WithOneLeg(r[i - 1], entries[i], tx, p)
  <2>1. ASSUME NEW i \in 1..N PROVE r[i] = WithOneLeg(r[i - 1], entries[i], tx, p)
    <3>1. i - 1 \in 0..N /\ r[i - 1] \in Logs
      BY <1>1, <1>8
    <3> QED
      BY <1>8, <3>1 DEF Chain, F
  <2> QED
    BY <2>1
<1> QED
  BY <1>1, <1>2, <1>8, <1>12, <1>13 DEF Chain, N

\* Posting to the balances: the balances after each entry.
LEMMA BalancesChain ==
  ASSUME NEW bal \in Running, NEW entries \in Seq(LedgerEntry)
  PROVE  \E r \in [0..Len(entries) -> Running] :
           /\ r[0] = bal /\ \A i \in 1..Len(entries) : r[i] = WithOneEntry(r[i - 1], entries[i])
           /\ WithEntries(bal, entries) = r[Len(entries)]
<1> DEFINE N == Len(entries)
           F == [i \in 1..N |-> [t \in Running |-> WithOneEntry(t, entries[i])]]
           Body(h, s) == IF s = {} THEN bal
                         ELSE WithOneEntry(h[s \ {Max(s)}], entries[Max(s)])
           iter == CHOOSE h : h = [s \in SUBSET (DOMAIN entries) |-> Body(h, s)]
<1>1. N \in Nat /\ DOMAIN entries = 1..N /\ \A i \in 1..N : entries[i] \in LedgerEntry
  BY ElementOfSeq
<1>2. WithEntries(bal, entries) = iter[DOMAIN entries]
  BY DEF WithEntries, WithOneEntry, FoldLeft, MapThenFoldSet
<1>3. F \in [1..N -> [Running -> Running]]
  BY <1>1, OneEntry
<1>4. \A s \in (SUBSET (1..N)) \ {{}} : Max(s) \in 1..N /\ s \ {Max(s)} \in SUBSET (1..N)
  <2>1. ASSUME NEW s \in (SUBSET (1..N)) \ {{}} PROVE Max(s) \in s
    <3>1. s \subseteq 0..N /\ s # {}
      OBVIOUS
    <3> QED
      BY <1>1, <3>1, Greatest
  <2> QED
    BY <2>1
<1>5. \A h, s : s \in (SUBSET (1..N)) \ {{}} /\ h[s \ {Max(s)}] \in Running
                => F[Max(s)][h[s \ {Max(s)}]] = Body(h, s)
  BY <1>4
<1>6. \A h : Body(h, {}) = bal
  OBVIOUS
<1> HIDE DEF Body, F, N, iter
<1>7. Foldable(N, Running, F, bal)
  <2>1. bal \in Running /\ N \in Nat
    BY <1>1
  <2> QED
    BY <1>3, <2>1, FoldRule
<1>8. PICK g \in [SUBSET (1..N) -> Running], r \in [0..N -> Running] :
        /\ Unfolds(g, N, F, bal) /\ Chain(r, N, F, bal)
        /\ \A h : Follows(h, N, Running, F, bal) => h[1..N] = r[N]
  BY <1>7 DEF Foldable
<1>9. g = [s \in SUBSET (DOMAIN entries) |-> Body(g, s)]
  <2>1. ASSUME NEW s \in SUBSET (1..N) PROVE g[s] = Body(g, s)
    BY <1>4, <1>5, <1>6, <1>8 DEF Unfolds
  <2> QED
    BY <1>1, <2>1
<1>10. iter = [s \in SUBSET (DOMAIN entries) |-> Body(iter, s)]
  BY <1>9 DEF iter
<1>11. Follows(iter, N, Running, F, bal)
  BY <1>1, <1>5, <1>6, <1>10 DEF Follows
<1>12. iter[1..N] = r[N]
  BY <1>8, <1>11
<1>13. \A i \in 1..N : r[i] = WithOneEntry(r[i - 1], entries[i])
  <2>1. ASSUME NEW i \in 1..N PROVE r[i] = WithOneEntry(r[i - 1], entries[i])
    <3>1. i - 1 \in 0..N /\ r[i - 1] \in Running
      BY <1>1, <1>8
    <3> QED
      BY <1>8, <3>1 DEF Chain, F
  <2> QED
    BY <2>1
<1> QED
  BY <1>1, <1>2, <1>8, <1>12, <1>13 DEF Chain, N

\* One leg more is applied to what the log replayed to.
LEMMA ReplayAppend ==
  ASSUME NEW log \in Seq(Leg), NEW leg \in Leg
  PROVE  /\ Replayed(Append(log, leg)) = WithLeg(Replayed(log), leg)
         /\ Replayed(log) \in Balance /\ Replayed(<<>>) = ZeroBalance
<1> DEFINE n == Len(log)
<1>1. n \in Nat /\ Append(log, leg) \in Seq(Leg) /\ Len(Append(log, leg)) = n + 1
      /\ (\A i \in 1..n : Append(log, leg)[i] = log[i] /\ log[i] \in Leg) /\ Append(log, leg)[n + 1] = leg
  BY AppendProperties, LenProperties, ElementOfSeq
<1>2. PICK r \in [0..n -> Balance] :
        /\ r[0] = ZeroBalance /\ \A i \in 1..n : r[i] = WithLeg(r[i - 1], log[i])
        /\ Replayed(log) = r[n]
  BY ReplayedChain
<1>3. PICK q \in [0..(n + 1) -> Balance] :
        /\ q[0] = ZeroBalance /\ \A i \in 1..(n + 1) : q[i] = WithLeg(q[i - 1], Append(log, leg)[i])
        /\ Replayed(Append(log, leg)) = q[n + 1]
  <2> PICK more : more = Append(log, leg)
    OBVIOUS
  <2> QED
    BY <1>1, ReplayedChain
<1>4. \A i \in 0..n : r[i] = q[i]
  <2> DEFINE F == [i \in 1..n |-> [t \in Balance |-> WithLeg(t, log[i])]]
  <2>1. \A i \in 1..n : i - 1 \in 0..n /\ i \in 1..(n + 1) /\ i - 1 \in 0..(n + 1)
    BY <1>1
  <2>2. Chain(r, n, F, ZeroBalance)
    BY <1>2, <2>1 DEF Chain
  <2>3. Chain(q, n, F, ZeroBalance)
    BY <1>1, <1>3, <2>1 DEF Chain
  <2> HIDE DEF F
  <2> QED
    BY <1>1, <2>2, <2>3, ChainsAgree
<1>5. Replayed(Append(log, leg)) = WithLeg(Replayed(log), leg)
  <2>1. n \in 0..n /\ n + 1 \in 1..(n + 1) /\ (n + 1) - 1 = n
    BY <1>1
  <2> QED
    BY <1>1, <1>2, <1>3, <1>4, <2>1
<1>6. Replayed(log) \in Balance
  BY <1>1, <1>2
<1>7. Replayed(<<>>) = ZeroBalance
  <2>1. <<>> \in Seq(Leg) /\ Len(<<>>) = 0
    OBVIOUS
  <2>2. PICK none : none = <<>> /\ none \in Seq(Leg) /\ Len(none) = 0
    BY <2>1
  <2>3. Replayed(none) = ZeroBalance
    BY <2>2, ReplayedChain
  <2> QED
    BY <2>2, <2>3
<1> QED
  BY <1>5, <1>6, <1>7

\* One entry more adds its amount to its own side.
LEMMA TotalGrows ==
  ASSUME NEW E, \A x \in E : x.amount \in Int,
         NEW entries \in Seq(E), NEW e \in E, NEW side
  PROVE  /\ Total(Append(entries, e), side)
              = Total(entries, side) + (IF e.side = side THEN e.amount ELSE 0)
         /\ Total(entries, side) \in Int /\ (entries = <<>> => Total(entries, side) = 0)
<1> DEFINE n == Len(entries)
<1>1. n \in Nat /\ Append(entries, e) \in Seq(E) /\ Len(Append(entries, e)) = n + 1
      /\ (\A i \in 1..n : Append(entries, e)[i] = entries[i] /\ entries[i] \in E)
      /\ Append(entries, e)[n + 1] = e
  BY AppendProperties, LenProperties, ElementOfSeq
<1>2. PICK r \in [0..n -> Int] :
        /\ r[0] = 0
        /\ \A i \in 1..n : r[i] = (IF entries[i].side = side THEN r[i - 1] + entries[i].amount ELSE r[i - 1])
        /\ Total(entries, side) = r[n]
  BY TotalChain
<1>3. PICK q \in [0..(n + 1) -> Int] :
        /\ q[0] = 0
        /\ \A i \in 1..(n + 1) : q[i] = (IF Append(entries, e)[i].side = side
                                         THEN q[i - 1] + Append(entries, e)[i].amount ELSE q[i - 1])
        /\ Total(Append(entries, e), side) = q[n + 1]
  <2> PICK more : more = Append(entries, e)
    OBVIOUS
  <2> QED
    BY <1>1, TotalChain
<1>4. \A i \in 0..n : r[i] = q[i]
  <2> DEFINE F == [i \in 1..n |-> [t \in Int |-> IF entries[i].side = side THEN t + entries[i].amount ELSE t]]
  <2>1. \A i \in 1..n : i - 1 \in 0..n /\ i \in 1..(n + 1) /\ i - 1 \in 0..(n + 1)
    BY <1>1
  <2>2. Chain(r, n, F, 0)
    BY <1>2, <2>1 DEF Chain
  <2>3. Chain(q, n, F, 0)
    BY <1>1, <1>3, <2>1 DEF Chain
  <2> HIDE DEF F
  <2> QED
    BY <1>1, <2>2, <2>3, ChainsAgree
<1>5. Total(Append(entries, e), side) = Total(entries, side) + (IF e.side = side THEN e.amount ELSE 0)
  <2>1. n \in 0..n /\ n + 1 \in 1..(n + 1) /\ (n + 1) - 1 = n /\ e.amount \in Int /\ r[n] \in Int
    BY <1>1
  <2>2. q[n + 1] = IF e.side = side THEN q[n] + e.amount ELSE q[n]
    BY <1>1, <1>3, <2>1
  <2> QED
    BY <1>2, <1>3, <1>4, <2>1, <2>2
<1>6. Total(entries, side) \in Int /\ (entries = <<>> => Total(entries, side) = 0)
  <2>1. entries = <<>> => n = 0
    OBVIOUS
  <2> QED
    BY <1>1, <1>2, <2>1
<1> QED
  BY <1>5, <1>6

LEMMA TotalAppend ==
  ASSUME NEW entries \in Seq(LedgerEntry), NEW e \in LedgerEntry, NEW side
  PROVE  /\ Total(Append(entries, e), side)
              = Total(entries, side) + (IF e.side = side THEN e.amount ELSE 0)
         /\ Total(entries, side) \in Int /\ (entries = <<>> => Total(entries, side) = 0)
<1>1. \A x \in LedgerEntry : x.amount \in Int
  BY DEF LedgerEntry
<1> QED
  BY <1>1, TotalGrows

-----------------------------------------------------------------------------
(* Posting.  What it adds is told entry by entry.                          *)

\* The places of a transaction's legs: LegsOf counts them.
Places(log, t) == UNION {{a} \X {i \in DOMAIN log[a] : log[a][i].tx = t} : a \in Account}

\* What an account is in debit.
Net(bal) == [a \in Account |-> bal[a].debits - bal[a].credits]

LEMMA NetType ==
  ASSUME NEW bal \in Running
  PROVE  Net(bal) \in [Account -> Int]
<1>1. \A a \in Account : bal[a].debits \in Int /\ bal[a].credits \in Int
  BY DEF Running, Balance
<1>2. \A a \in Account : bal[a].debits - bal[a].credits \in Int
  BY <1>1
<1> QED
  BY <1>2 DEF Net

IsPlace(log, t, x) ==
  \E a \in Account : \E i \in 1..Len(log[a]) : x = <<a, i>> /\ log[a][i].tx = t

LEMMA PlaceIs ==
  ASSUME NEW log \in Logs, NEW t, NEW x
  PROVE  x \in Places(log, t) <=> IsPlace(log, t, x)
<1>1. \A a \in Account : DOMAIN log[a] = 1..Len(log[a])
  BY LenProperties DEF Logs
<1> QED
  BY <1>1 DEF Places, IsPlace

\* A leg more is one place more, of its own transaction.
LEMMA OnePlace ==
  ASSUME NEW log \in Logs, NEW e \in LedgerEntry, NEW tx \in Nat, NEW p \in Period
  PROVE  /\ \A t : t # tx => Places(WithOneLeg(log, e, tx, p), t) = Places(log, t)
         /\ \E x : /\ x \notin Places(log, tx)
                   /\ Places(WithOneLeg(log, e, tx, p), tx) = Places(log, tx) \cup {x}
<1> DEFINE leg == [tx |-> tx, side |-> e.side, amount |-> e.amount, period |-> p]
<1>1. PICK l2 : l2 = WithOneLeg(log, e, tx, p)
  OBVIOUS
<1>2. PICK b \in Account : b = e.account
  BY DEF LedgerEntry
<1>3. leg \in Leg /\ leg.tx = tx
  BY DEF Leg, LedgerEntry, EntrySide
<1>4. l2 = [log EXCEPT ![b] = Append(log[b], leg)] /\ l2 \in Logs
  <2>1. WithOneLeg(log, e, tx, p) \in Logs
    BY OneLeg
  <2> QED
    BY <1>1, <1>2, <2>1 DEF WithOneLeg
<1> HIDE DEF leg
<1>5. \A a \in Account : log[a] \in Seq(Leg) /\ Len(log[a]) \in Nat
  BY DEF Logs
<1>6. /\ Len(l2[b]) = Len(log[b]) + 1 /\ l2[b][Len(log[b]) + 1] = leg
      /\ \A i \in 1..Len(log[b]) : l2[b][i] = log[b][i]
  <2>1. l2[b] = Append(log[b], leg)
    BY <1>4 DEF Logs
  <2> QED
    BY <1>3, <1>5, <2>1, AppendProperties
<1>7. \A a \in Account \ {b} : l2[a] = log[a]
  BY <1>4 DEF Logs
<1>8. ASSUME NEW t, NEW x
      PROVE  x \in Places(l2, t) <=> x \in Places(log, t) \/ (t = tx /\ x = <<b, Len(log[b]) + 1>>)
  <2>1. x \in Places(l2, t) <=> IsPlace(l2, t, x)
    BY <1>4, PlaceIs
  <2>2. x \in Places(log, t) <=> IsPlace(log, t, x)
    BY PlaceIs
  <2>3. ASSUME NEW a \in Account, NEW i \in 1..Len(l2[a]), x = <<a, i>>, l2[a][i].tx = t
        PROVE  x \in Places(log, t) \/ (t = tx /\ x = <<b, Len(log[b]) + 1>>)
    <3>1. CASE a # b
      BY <1>7, <2>2, <2>3, <3>1 DEF IsPlace
    <3>2. CASE a = b /\ i = Len(log[b]) + 1
      BY <1>3, <1>6, <2>3, <3>2
    <3>3. CASE a = b /\ i # Len(log[b]) + 1
      <4>1. i \in 1..Len(log[b])
        BY <1>5, <1>6, <3>3
      <4> QED
        BY <1>6, <2>2, <2>3, <3>3, <4>1 DEF IsPlace
    <3> QED
      BY <3>1, <3>2, <3>3
  <2>4. ASSUME NEW a \in Account, NEW i \in 1..Len(log[a]), x = <<a, i>>, log[a][i].tx = t
        PROVE  x \in Places(l2, t)
    <3>1. i \in 1..Len(l2[a]) /\ l2[a][i] = log[a][i]
      BY <1>5, <1>6, <1>7
    <3> QED
      BY <2>1, <2>4, <3>1 DEF IsPlace
  <2>5. t = tx /\ x = <<b, Len(log[b]) + 1>> => x \in Places(l2, t)
    <3>1. Len(log[b]) + 1 \in 1..Len(l2[b])
      BY <1>5, <1>6
    <3> QED
      BY <1>3, <1>6, <2>1, <3>1 DEF IsPlace
  <2> QED
    BY <2>1, <2>2, <2>3, <2>4, <2>5 DEF IsPlace
<1>9. ASSUME NEW t PROVE <<b, Len(log[b]) + 1>> \notin Places(log, t)
  <2>1. ASSUME NEW a \in Account, NEW i \in 1..Len(log[a]), <<b, Len(log[b]) + 1>> = <<a, i>> PROVE FALSE
    <3>1. a = b /\ i = Len(log[b]) + 1
      BY <2>1
    <3> QED
      BY <1>5, <3>1
  <2> QED
    BY <2>1, PlaceIs DEF IsPlace
<1>10. Places(l2, tx) = Places(log, tx) \cup {<<b, Len(log[b]) + 1>>}
  BY <1>8
<1>11. ASSUME NEW t, t # tx PROVE Places(l2, t) = Places(log, t)
  <2>1. \A x : x \in Places(l2, t) <=> x \in Places(log, t)
    BY <1>8, <1>11
  <2> QED
    BY <2>1
<1> QED
  BY <1>1, <1>9, <1>10, <1>11

\* Leg by leg the balance stays what the log replays to.
LEMMA OneReplays ==
  ASSUME NEW log \in Logs, NEW bal \in Running, NEW e \in LedgerEntry, NEW tx \in Nat, NEW p \in Period,
         \A a \in Account : bal[a] = Replayed(log[a])
  PROVE  \A a \in Account : WithOneEntry(bal, e)[a] = Replayed(WithOneLeg(log, e, tx, p)[a])
<1> DEFINE leg == [tx |-> tx, side |-> e.side, amount |-> e.amount, period |-> p]
<1>1. PICK b \in Account : b = e.account
  BY DEF LedgerEntry
<1>2. leg \in Leg /\ leg.side = e.side /\ leg.amount = e.amount
  BY DEF Leg, LedgerEntry, EntrySide
<1>3. WithLeg(bal[b], e) = WithLeg(bal[b], leg)
  BY <1>2 DEF WithLeg
<1> HIDE DEF leg
<1>4. Replayed(Append(log[b], leg)) = WithLeg(Replayed(log[b]), leg)
  BY <1>2, ReplayAppend DEF Logs
<1>5. WithOneEntry(bal, e) = [bal EXCEPT ![b] = WithLeg(bal[b], e)]
      /\ WithOneLeg(log, e, tx, p) = [log EXCEPT ![b] = Append(log[b], leg)]
  BY <1>1 DEF WithOneEntry, WithOneLeg, leg
<1>6. ASSUME NEW a \in Account
      PROVE  WithOneEntry(bal, e)[a] = Replayed(WithOneLeg(log, e, tx, p)[a])
  <2>1. CASE a = b
    <3>1. WithOneEntry(bal, e)[b] = WithLeg(bal[b], e) /\ WithOneLeg(log, e, tx, p)[b] = Append(log[b], leg)
      BY <1>5 DEF Running, Logs
    <3> QED
      BY <1>3, <1>4, <2>1, <3>1
  <2>2. CASE a # b
    <3>1. WithOneEntry(bal, e)[a] = bal[a] /\ WithOneLeg(log, e, tx, p)[a] = log[a]
      BY <1>5, <2>2 DEF Running, Logs
    <3> QED
      BY <3>1
  <2> QED
    BY <2>1, <2>2
<1> QED
  BY <1>6

\* An entry on an account of the chart moves what the chart is in debit by its amount.
LEMMA OneMoves ==
  ASSUME IsFiniteSet(Account), Chart \in SUBSET Account,
         NEW bal \in Running, NEW e \in LedgerEntry, e.account \in Chart
  PROVE  /\ Sum(Net(bal), Chart) \in Int
         /\ Sum(Net(WithOneEntry(bal, e)), Chart)
              = Sum(Net(bal), Chart) + (IF e.side = "Debit" THEN e.amount ELSE 0)
                                     - (IF e.side = "Credit" THEN e.amount ELSE 0)
<1>1. PICK b2 \in Running : b2 = WithOneEntry(bal, e)
  BY OneEntry
<1>2. PICK b \in Chart : b = e.account
  OBVIOUS
<1>3. IsFiniteSet(Account) /\ Chart \in SUBSET Account
  OBVIOUS
<1>4. Net(bal) \in [Account -> Int] /\ Net(b2) \in [Account -> Int]
  BY NetType
<1>5. \A a \in Chart \ {b} : Net(b2)[a] = Net(bal)[a]
  <2>1. \A a \in Account \ {b} : b2[a] = bal[a]
    BY <1>1, <1>2 DEF WithOneEntry, Running
  <2> QED
    BY <1>3, <2>1 DEF Net
<1>6. Net(b2)[b] = Net(bal)[b] + (IF e.side = "Debit" THEN e.amount ELSE 0)
                               - (IF e.side = "Credit" THEN e.amount ELSE 0)
  <2>1. bal[b] \in Balance /\ e.side \in EntrySide /\ e.amount \in Int /\ b \in Account
    BY <1>3 DEF Running, LedgerEntry, EntrySide
  <2>2. b2[b] = WithLeg(bal[b], e)
    BY <1>1, <1>2, <2>1 DEF WithOneEntry, Running
  <2>3. b2[b].debits = bal[b].debits + (IF e.side = "Debit" THEN e.amount ELSE 0)
        /\ b2[b].credits = bal[b].credits + (IF e.side = "Credit" THEN e.amount ELSE 0)
    BY <2>1, <2>2, LegEffect
  <2>4. bal[b].debits \in Int /\ bal[b].credits \in Int
    BY <2>1 DEF Balance
  <2> QED
    BY <2>1, <2>3, <2>4 DEF Net, EntrySide
<1>7. Sum(Net(b2), Chart) = Sum(Net(bal), Chart) + (Net(b2)[b] - Net(bal)[b])
  <2>1. PICK f, h, C : f = Net(b2) /\ h = Net(bal) /\ C = Chart
    OBVIOUS
  <2>2. f \in [Account -> Int] /\ h \in [Account -> Int] /\ C \in SUBSET Account /\ b \in C
        /\ \A a \in C \ {b} : f[a] = h[a]
    BY <1>3, <1>4, <1>5, <2>1
  <2>3. Sum(f, C) = Sum(h, C) + (f[b] - h[b])
    <3>1. IsFiniteSet(Account) /\ f \in [Account -> Int] /\ h \in [Account -> Int] /\ C \in SUBSET Account /\ b \in C
      BY <1>3, <2>2
    <3>2. \A y \in C \ {b} : f[y] = h[y]
      BY <2>2
    <3> HIDE <1>3, <2>1, <2>2
    <3> QED
      BY <3>1, <3>2, SumChanged
  <2> QED
    BY <2>1, <2>3
<1>8. Sum(Net(bal), Chart) \in Int /\ Net(bal)[b] \in Int
  BY <1>3, <1>4, SumOne
<1>9. e.amount \in Int
  BY DEF LedgerEntry
<1> QED
  BY <1>1, <1>6, <1>7, <1>8, <1>9

\* The books `l` and `b` after the first k entries of a transaction: balances are
\* what the log replays to, other accounts and transactions are as before, and the
\* transaction has k legs.
Posted(log, bal, l, b, entries, k, tx) ==
  /\ (\A a \in Account : bal[a] = Replayed(log[a])) => \A a \in Account : b[a] = Replayed(l[a])
  /\ \A a \in Account : (\A j \in 1..k : entries[j].account # a) => l[a] = log[a] /\ b[a] = bal[a]
  /\ \A t : t # tx => Places(l, t) = Places(log, t)
  /\ Places(log, tx) = {} => IsFiniteSet(Places(l, tx)) /\ Cardinality(Places(l, tx)) = k

\* One entry more of the transaction.
LEMMA PostedNext ==
  ASSUME NEW log \in Logs, NEW bal \in Running, NEW l \in Logs, NEW b \in Running,
         NEW entries \in Seq(LedgerEntry), NEW k \in 1..Len(entries), NEW tx \in Nat, NEW p \in Period,
         Posted(log, bal, l, b, entries, k - 1, tx)
  PROVE  Posted(log, bal, WithOneLeg(l, entries[k], tx, p), WithOneEntry(b, entries[k]), entries, k, tx)
<1>1. PICK e \in LedgerEntry : e = entries[k]
  BY ElementOfSeq
<1>2. PICK l2 \in Logs, b2 \in Running : l2 = WithOneLeg(l, e, tx, p) /\ b2 = WithOneEntry(b, e)
  BY OneLeg, OneEntry
<1>3. k \in Nat /\ k - 1 \in Nat /\ k - 1 + 1 = k /\ \A j \in 1..(k - 1) : j \in 1..k
  OBVIOUS
<1>4. ASSUME \A a \in Account : bal[a] = Replayed(log[a])
      PROVE  \A a \in Account : b2[a] = Replayed(l2[a])
  <2>1. \A a \in Account : b[a] = Replayed(l[a])
    BY <1>4 DEF Posted
  <2> QED
    BY <1>2, <2>1, OneReplays
<1>5. ASSUME NEW a \in Account, \A j \in 1..k : entries[j].account # a
      PROVE  l2[a] = log[a] /\ b2[a] = bal[a]
  <2>1. l[a] = log[a] /\ b[a] = bal[a]
    BY <1>3, <1>5 DEF Posted
  <2>2. e.account # a /\ e.account \in Account
    BY <1>1, <1>5 DEF LedgerEntry
  <2>3. l2[a] = l[a] /\ b2[a] = b[a]
    BY <1>2, <2>2 DEF WithOneLeg, WithOneEntry, Logs, Running
  <2> QED
    BY <2>1, <2>3
<1>6. ASSUME NEW t, t # tx PROVE Places(l2, t) = Places(log, t)
  <2>1. Places(l2, t) = Places(l, t)
    BY <1>2, <1>6, OnePlace
  <2>2. Places(l, t) = Places(log, t)
    BY <1>6 DEF Posted
  <2> QED
    BY <2>1, <2>2
<1>7. ASSUME Places(log, tx) = {}
      PROVE  IsFiniteSet(Places(l2, tx)) /\ Cardinality(Places(l2, tx)) = k
  <2>1. PICK x : x \notin Places(l, tx) /\ Places(l2, tx) = Places(l, tx) \cup {x}
    BY <1>2, OnePlace
  <2>2. IsFiniteSet(Places(l, tx)) /\ Cardinality(Places(l, tx)) = k - 1
    BY <1>7 DEF Posted
  <2>3. IsFiniteSet(Places(l, tx) \cup {x}) /\ Cardinality(Places(l, tx) \cup {x}) = Cardinality(Places(l, tx)) + 1
    BY <2>1, <2>2, FS_AddElement
  <2> QED
    BY <1>3, <2>1, <2>2, <2>3
<1> QED
  BY <1>1, <1>2, <1>4, <1>5, <1>6, <1>7 DEF Posted

\* What the loop over the entries of a transaction does to logs and balances.
LEMMA Posting ==
  ASSUME NEW log \in Logs, NEW bal \in Running, NEW entries \in Seq(LedgerEntry),
         NEW tx \in Nat, NEW p \in Period
  PROVE  /\ WithLegs(log, entries, tx, p) \in Logs /\ WithEntries(bal, entries) \in Running
         /\ Posted(log, bal, WithLegs(log, entries, tx, p), WithEntries(bal, entries), entries,
                   Len(entries), tx)
<1> DEFINE n == Len(entries)
<1>1. n \in Nat
  OBVIOUS
<1>2. PICK ls \in [0..n -> Logs] :
        /\ ls[0] = log /\ \A i \in 1..n : ls[i] = WithOneLeg(ls[i - 1], entries[i], tx, p)
        /\ WithLegs(log, entries, tx, p) = ls[n]
  BY LegsChain
<1>3. PICK bs \in [0..n -> Running] :
        /\ bs[0] = bal /\ \A i \in 1..n : bs[i] = WithOneEntry(bs[i - 1], entries[i])
        /\ WithEntries(bal, entries) = bs[n]
  BY BalancesChain
<1> DEFINE Bad == {m \in 0..n : ~Posted(log, bal, ls[m], bs[m], entries, m, tx)}
<1>4. SUFFICES ASSUME Bad # {} PROVE FALSE
  <2>1. n \in 0..n
    BY <1>1
  <2> QED
    BY <1>2, <1>3, <2>1
<1>5. PICK m \in Bad : \A y \in Bad : m <= y
  <2>1. Bad \subseteq Nat
    OBVIOUS
  <2> HIDE DEF Bad
  <2> QED
    BY <1>4, <2>1, Least
<1>6. CASE m = 0
  <2>1. Posted(log, bal, log, bal, entries, 0, tx)
    <3>1. IsFiniteSet({}) /\ Cardinality({}) = 0
      BY FS_EmptySet
    <3>2. ASSUME Places(log, tx) = {} PROVE IsFiniteSet(Places(log, tx)) /\ Cardinality(Places(log, tx)) = 0
      BY <3>1, <3>2, Zenon
    <3> QED
      BY <3>2 DEF Posted
  <2> QED
    BY <1>2, <1>3, <1>5, <1>6, <2>1
<1>7. CASE m # 0
  <2>1. m \in 1..n /\ m - 1 \in 0..n /\ m - 1 < m
    BY <1>1, <1>7
  <2>2. Posted(log, bal, ls[m - 1], bs[m - 1], entries, m - 1, tx)
    BY <1>5, <2>1
  <2>3. ls[m - 1] \in Logs /\ bs[m - 1] \in Running
    BY <2>1
  <2>4. Posted(log, bal, WithOneLeg(ls[m - 1], entries[m], tx, p), WithOneEntry(bs[m - 1], entries[m]),
               entries, m, tx)
    BY <2>1, <2>2, <2>3, PostedNext
  <2> QED
    BY <1>2, <1>3, <1>5, <2>1, <2>4
<1> QED
  BY <1>6, <1>7

\* A transaction on accounts of the chart moves what the chart is in debit by the
\* difference of its sides, so by nothing when it balances.
LEMMA PostingMoves ==
  ASSUME IsFiniteSet(Account), Chart \in SUBSET Account,
         NEW bal \in Running, NEW entries \in Seq(LedgerEntry), AccountsOf(entries) \subseteq Chart,
         BalancedEntries(entries)
  PROVE  Sum(Net(WithEntries(bal, entries)), Chart) = Sum(Net(bal), Chart)
<1> DEFINE n == Len(entries)
<1>1. n \in Nat /\ DOMAIN entries = 1..n
      /\ \A i \in 1..n : entries[i] \in LedgerEntry /\ entries[i].account \in Chart
  BY ElementOfSeq DEF AccountsOf
<1>2. PICK bs \in [0..n -> Running] :
        /\ bs[0] = bal /\ \A i \in 1..n : bs[i] = WithOneEntry(bs[i - 1], entries[i])
        /\ WithEntries(bal, entries) = bs[n]
  BY BalancesChain
<1>3. PICK ds \in [0..n -> Int] :
        /\ ds[0] = 0
        /\ \A i \in 1..n : ds[i] = (IF entries[i].side = "Debit" THEN ds[i - 1] + entries[i].amount ELSE ds[i - 1])
        /\ Total(entries, "Debit") = ds[n]
  <2> PICK side : side = "Debit"
    OBVIOUS
  <2> QED
    BY EntriesChain
<1>4. PICK cs \in [0..n -> Int] :
        /\ cs[0] = 0
        /\ \A i \in 1..n : cs[i] = (IF entries[i].side = "Credit" THEN cs[i - 1] + entries[i].amount ELSE cs[i - 1])
        /\ Total(entries, "Credit") = cs[n]
  <2> PICK side : side = "Credit"
    OBVIOUS
  <2> QED
    BY EntriesChain
<1> DEFINE Bad == {m \in 0..n : Sum(Net(bs[m]), Chart) # Sum(Net(bal), Chart) + ds[m] - cs[m]}
<1>5. Sum(Net(bal), Chart) \in Int
  <2>1. Net(bal) \in [Account -> Int]
    BY NetType
  <2> QED
    BY <2>1, SumOne
<1>6. SUFFICES ASSUME Bad # {} PROVE FALSE
  <2>1. n \in 0..n /\ ds[n] = cs[n] /\ ds[n] \in Int
    BY <1>1, <1>3, <1>4 DEF BalancedEntries
  <2>2. Sum(Net(bs[n]), Chart) = Sum(Net(bal), Chart) + ds[n] - cs[n]
    BY <1>6, <2>1
  <2> QED
    BY <1>2, <1>5, <2>1, <2>2
<1>7. PICK m \in Bad : \A y \in Bad : m <= y
  <2>1. Bad \subseteq Nat
    OBVIOUS
  <2> HIDE DEF Bad
  <2> QED
    BY <1>6, <2>1, Least
<1>8. CASE m = 0
  BY <1>2, <1>3, <1>4, <1>5, <1>7, <1>8
<1>9. CASE m # 0
  <2>1. m \in 1..n /\ m - 1 \in 0..n /\ m - 1 < m
    BY <1>1, <1>9
  <2>2. Sum(Net(bs[m - 1]), Chart) = Sum(Net(bal), Chart) + ds[m - 1] - cs[m - 1]
    BY <1>7, <2>1
  <2>3. PICK e \in LedgerEntry, b \in Running : e = entries[m] /\ b = bs[m - 1] /\ e.account \in Chart
    BY <1>1, <2>1
  <2>4. Sum(Net(WithOneEntry(b, e)), Chart)
          = Sum(Net(b), Chart) + (IF e.side = "Debit" THEN e.amount ELSE 0)
                               - (IF e.side = "Credit" THEN e.amount ELSE 0)
    BY <2>3, OneMoves
  <2>5. PICK d \in Int, c \in Int : d = (IF e.side = "Debit" THEN e.amount ELSE 0)
                                    /\ c = (IF e.side = "Credit" THEN e.amount ELSE 0)
    BY DEF LedgerEntry
  <2>6. ds[m] = ds[m - 1] + d /\ cs[m] = cs[m - 1] + c /\ bs[m] = WithOneEntry(b, e)
        /\ ds[m - 1] \in Int /\ cs[m - 1] \in Int
    <3>1. ds[m] = (IF e.side = "Debit" THEN ds[m - 1] + e.amount ELSE ds[m - 1])
          /\ cs[m] = (IF e.side = "Credit" THEN cs[m - 1] + e.amount ELSE cs[m - 1])
          /\ bs[m] = WithOneEntry(b, e) /\ ds[m - 1] \in Int /\ cs[m - 1] \in Int
      BY <1>2, <1>3, <1>4, <2>1, <2>3
    <3> QED
      BY <2>5, <3>1
  <2>7. Sum(Net(bs[m]), Chart) = Sum(Net(b), Chart) + d - c
    BY <2>4, <2>5, <2>6
  <2>8. Sum(Net(b), Chart) = Sum(Net(bal), Chart) + ds[m - 1] - cs[m - 1]
    BY <2>2, <2>3
  <2>9. Sum(Net(bs[m]), Chart) = Sum(Net(bal), Chart) + ds[m] - cs[m]
    <3>1. PICK s0 \in Int : s0 = Sum(Net(bal), Chart)
      BY <1>5
    <3>2. PICK s2 : s2 = Sum(Net(bs[m]), Chart)
      OBVIOUS
    <3>3. s2 = (s0 + ds[m - 1] - cs[m - 1]) + d - c
      BY <2>7, <2>8, <3>1, <3>2
    <3>4. s2 = s0 + ds[m] - cs[m]
      <4>1. PICK x \in Int, y \in Int : x = ds[m - 1] /\ y = cs[m - 1]
        BY <2>6
      <4>2. PICK d1 \in Int, c1 \in Int : d1 = d /\ c1 = c
        BY <2>5
      <4>3. ds[m] = x + d1 /\ cs[m] = y + c1 /\ s2 = (s0 + x - y) + d1 - c1
        BY <2>6, <3>3, <4>1, <4>2
      <4>4. (s0 + x - y) + d1 - c1 = s0 + (x + d1) - (y + c1)
        BY <3>1
      <4> QED
        BY <4>3, <4>4
    <3> QED
      BY <3>1, <3>2, <3>4
  <2> QED
    BY <1>7, <2>9
<1> QED
  BY <1>8, <1>9

\* A list that names fewer accounts than it has entries, by the pigeonhole: entries
\* i and j are on one account.
LEMMA NamedTwice ==
  ASSUME NEW entries \in Seq(LedgerEntry), NEW i \in 1..Len(entries), NEW j \in 1..Len(entries),
         i # j, entries[i].account = entries[j].account
  PROVE  Repeats(entries)
<1> DEFINE D == (1..Len(entries)) \ {i}
           f == [k \in D |-> entries[k].account]
<1>1. Len(entries) \in Nat /\ DOMAIN entries = 1..Len(entries)
  BY LenProperties
<1>2. IsFiniteSet(D) /\ Cardinality(D) = Len(entries) - 1
  <2>1. IsFiniteSet(1..Len(entries)) /\ Cardinality(1..Len(entries)) = Len(entries)
    <3>1. PICK q \in Nat : q = Len(entries)
      BY <1>1
    <3>2. IsFiniteSet(1..q) /\ Cardinality(1..q) = IF 1 > q THEN 0 ELSE q - 1 + 1
      BY <3>1, FS_Interval
    <3> QED
      BY <3>1, <3>2
  <2> QED
    BY <1>1, <2>1, FS_RemoveElement
<1>3. f \in Surjection(D, AccountsOf(entries))
  <2>1. f \in [D -> AccountsOf(entries)]
    BY <1>1 DEF AccountsOf
  <2>2. ASSUME NEW a \in AccountsOf(entries) PROVE \E k \in D : f[k] = a
    <3>1. PICK k \in 1..Len(entries) : a = entries[k].account
      BY <1>1 DEF AccountsOf
    <3>2. CASE k = i
      <4>1. j \in D /\ f[j] = a
        BY <3>1, <3>2
      <4> QED
        BY <4>1
    <3>3. CASE k # i
      BY <3>1, <3>3
    <3> QED
      BY <3>2, <3>3
  <2> HIDE DEF f
  <2> QED
    BY <2>1, <2>2 DEF Surjection
<1> HIDE DEF f, D
<1>4. Cardinality(AccountsOf(entries)) <= Cardinality(D) /\ IsFiniteSet(AccountsOf(entries))
  BY <1>2, <1>3, FS_Surjection
<1>5. Cardinality(AccountsOf(entries)) \in Nat
  BY <1>4, FS_CardinalityType
<1> QED
  BY <1>1, <1>2, <1>4, <1>5 DEF Repeats

\* A post that has its versions appends everything; or it stops short, and then it
\* is guarded and names an account twice.
LEMMA AppendedIs ==
  ASSUME NEW c, call[c].entries \in Seq(LedgerEntry), VersionsMatch(c), legs \in Logs
  PROVE  \/ Appended(c) = call[c].entries
         \/ /\ Appended(c) \in Seq(LedgerEntry) /\ Len(Appended(c)) < Len(call[c].entries)
            /\ Guarded(c) /\ Repeats(call[c].entries)
            /\ AccountsOf(Appended(c)) \subseteq AccountsOf(call[c].entries)
<1> DEFINE es == call[c].entries
           Before(i) == Cardinality({j \in 1..(i - 1) : es[j].account = es[i].account})
           refused == {i \in DOMAIN es :
                         Guarded(c) /\ call[c].guard[es[i].account] # Len(legs[es[i].account]) + Before(i)}
<1>1. Appended(c) = IF refused = {} THEN es ELSE SubSeq(es, 1, Min(refused) - 1)
  BY DEF Appended
<1>2. Len(es) \in Nat /\ DOMAIN es = 1..Len(es) /\ \A i \in 1..Len(es) : es[i] \in LedgerEntry
  BY LenProperties, ElementOfSeq
<1>3. SUFFICES ASSUME refused # {}
               PROVE  /\ Appended(c) \in Seq(LedgerEntry) /\ Len(Appended(c)) < Len(es)
                      /\ Guarded(c) /\ Repeats(es)
                      /\ AccountsOf(Appended(c)) \subseteq AccountsOf(es)
  BY <1>1
<1>4. PICK i \in refused : \A y \in refused : i <= y
  <2>1. refused \subseteq Nat
    BY <1>2
  <2> HIDE DEF refused
  <2> QED
    BY <1>3, <2>1, Least
<1>5. Min(refused) \in refused
  BY <1>4 DEF Min
<1>6. PICK k \in 1..Len(es) : /\ k = Min(refused) /\ Guarded(c)
                              /\ call[c].guard[es[k].account] # Len(legs[es[k].account]) + Before(k)
  BY <1>2, <1>5
<1>7. Appended(c) = SubSeq(es, 1, k - 1)
  BY <1>1, <1>3, <1>6
<1>8. /\ SubSeq(es, 1, k - 1) \in Seq(LedgerEntry) /\ Len(SubSeq(es, 1, k - 1)) = k - 1
      /\ \A j \in 1..(k - 1) : SubSeq(es, 1, k - 1)[j] = es[j] /\ j \in 1..Len(es)
  <2>1. \A j \in 1..(k - 1) : es[j] \in LedgerEntry /\ j \in 1..Len(es) /\ 1 + j - 1 = j
    BY <1>2
  <2>2. k - 1 \in Int /\ 1 \in Int /\ (k - 1) - 1 + 1 = k - 1 /\ k - 1 >= 0
    OBVIOUS
  <2>3. /\ SubSeq(es, 1, k - 1) \in Seq(LedgerEntry)
        /\ Len(SubSeq(es, 1, k - 1)) = IF 1 <= k - 1 THEN (k - 1) - 1 + 1 ELSE 0
        /\ \A j \in 1..((k - 1) - 1 + 1) : SubSeq(es, 1, k - 1)[j] = es[1 + j - 1]
    <3> HIDE DEF es
    <3>1. PICK m \in Int : m = k - 1
      BY <2>2
    <3>2. \A j \in 1..m : es[j] \in LedgerEntry
      BY <2>1, <3>1
    <3>3. /\ SubSeq(es, 1, m) \in Seq(LedgerEntry)
          /\ Len(SubSeq(es, 1, m)) = IF 1 <= m THEN m - 1 + 1 ELSE 0
          /\ \A j \in 1..(m - 1 + 1) : SubSeq(es, 1, m)[j] = es[1 + j - 1]
      BY <2>2, <3>2, SubSeqProperties
    <3> QED
      BY <3>1, <3>3
  <2> QED
    BY <2>1, <2>2, <2>3
<1>9. Repeats(es)
  <2>1. es[k].account \in AccountsOf(es) /\ es[k].account \in Account
    BY <1>2 DEF AccountsOf, LedgerEntry
  <2>2. call[c].guard[es[k].account] = Len(legs[es[k].account]) /\ Len(legs[es[k].account]) \in Nat
    <3>1. legs[es[k].account] \in Seq(Leg)
      BY <2>1 DEF Logs
    <3>2. \A a \in AccountsOf(es) : call[c].guard[a] = Len(legs[a])
      BY <1>6 DEF VersionsMatch
    <3> QED
      BY <2>1, <3>1, <3>2
  <2>3. {j \in 1..(k - 1) : es[j].account = es[k].account} # {}
    <3>1. SUFFICES ASSUME {j \in 1..(k - 1) : es[j].account = es[k].account} = {} PROVE FALSE
      OBVIOUS
    <3>2. Before(k) = 0
      BY <3>1, FS_EmptySet
    <3>3. call[c].guard[es[k].account] # Len(legs[es[k].account]) + Before(k)
      BY <1>6
    <3> HIDE DEF Before
    <3> QED
      BY <2>2, <3>2, <3>3
  <2>4. PICK j \in 1..(k - 1) : es[j].account = es[k].account
    BY <2>3
  <2>5. j \in 1..Len(es) /\ j # k
    OBVIOUS
  <2> HIDE DEF es
  <2> QED
    BY <2>4, <2>5, NamedTwice DEF es
<1>10. AccountsOf(Appended(c)) \subseteq AccountsOf(es)
  <2>1. \A j \in DOMAIN Appended(c) : j \in 1..Len(es) /\ Appended(c)[j] = es[j]
    BY <1>7, <1>8, LenProperties
  <2> QED
    BY <1>2, <2>1 DEF AccountsOf
<1> QED
  <2>1. Len(Appended(c)) = k - 1 /\ k - 1 < Len(es) /\ Appended(c) \in Seq(LedgerEntry)
    BY <1>2, <1>7, <1>8
  <2> QED
    BY <1>6, <1>9, <1>10, <2>1

-----------------------------------------------------------------------------
(* Closing entries and statements.                                         *)

\* The entries that close the income statement balance, whatever balances were read.
LEMMA ClosingBalances ==
  ASSUME IsFiniteSet(Account), Chart \subseteq Account, Kind \in [Chart -> Kinds], Retained \in Chart,
         NEW bal \in Running
  PROVE  /\ ClosingEntries(bal, Retained) \in Seq(LedgerEntry)
         /\ ClosingEntries(bal, Retained) = <<>> \/ Validates(ClosingEntries(bal, Retained))
<1> DEFINE temporary == {a \in Chart : ~Permanent(Kind[a]) /\ Signed(bal[a], Kind[a]) # 0}
           n == Cardinality(temporary)
           closes(a) == [account |-> a, side |-> Opposite(NormalSide(Kind[a])),
                         amount |-> Signed(bal[a], Kind[a])]
           zeroing == [i \in 1..n |-> closes(SetToSeq(temporary)[i])]
           net == Total(zeroing, "Debit") - Total(zeroing, "Credit")
           last == [account |-> Retained, side |-> IF net > 0 THEN "Credit" ELSE "Debit",
                    amount |-> IF net > 0 THEN net ELSE -net]
<1>1. ClosingEntries(bal, Retained) = IF net = 0 THEN zeroing ELSE Append(zeroing, last)
  BY DEF ClosingEntries
<1>2. IsFiniteSet(temporary) /\ n \in Nat /\ ExistsBijection(1..n, temporary)
  <2>1. temporary \in SUBSET Account
    OBVIOUS
  <2> HIDE DEF temporary
  <2> QED
    BY <2>1, FS_Subset, FS_CardinalityType
<1>3. \A i \in 1..n : SetToSeq(temporary)[i] \in temporary
  <2> HIDE DEF temporary
  <2>1. PICK f : f \in Bijection(1..n, temporary)
    BY <1>2 DEF ExistsBijection
  <2>2. f \in [1..n -> temporary] /\ IsInjective(f)
    BY <2>1 DEF Bijection, Injection, IsInjective
  <2>3. SetToSeq(temporary) \in [1..n -> temporary]
    BY <2>2 DEF SetToSeq
  <2> QED
    BY <2>3
<1>4. ASSUME NEW a \in temporary
      PROVE  closes(a) \in LedgerEntry /\ closes(a).amount # 0
  <2>1. bal[a] \in Balance /\ a \in Account
    BY DEF Running
  <2>2. Signed(bal[a], Kind[a]) \in Int
    BY <2>1 DEF Signed, Balance
  <2>3. Opposite(NormalSide(Kind[a])) \in {"Debit", "Credit"}
    BY DEF Opposite
  <2> QED
    BY <2>1, <2>2, <2>3 DEF LedgerEntry
<1>5. \A i \in 1..n : zeroing[i] \in LedgerEntry /\ zeroing[i].amount # 0
  <2> HIDE DEF temporary, closes
  <2> QED
    BY <1>3, <1>4
<1>6. zeroing \in Seq(LedgerEntry) /\ Len(zeroing) = n
  <2>1. zeroing \in [1..n -> LedgerEntry]
    BY <1>5
  <2> HIDE DEF zeroing, temporary, n
  <2> QED
    BY <1>2, <2>1
<1> HIDE DEF zeroing, n, temporary, closes, net, last
<1>7. Total(zeroing, "Debit") \in Int /\ Total(zeroing, "Credit") \in Int
      /\ (zeroing = <<>> => Total(zeroing, "Debit") = 0 /\ Total(zeroing, "Credit") = 0)
  <2>1. ASSUME NEW side
        PROVE  Total(zeroing, side) \in Int /\ (zeroing = <<>> => Total(zeroing, side) = 0)
    <3>1. PICK e : e \in LedgerEntry
      <4>1. [account |-> Retained, side |-> "Debit", amount |-> 0] \in LedgerEntry
        BY DEF LedgerEntry
      <4> QED
        BY <4>1
    <3> QED
      BY <1>6, <3>1, TotalAppend
  <2> QED
    BY <2>1
<1>8. CASE net = 0
  <2>1. ClosingEntries(bal, Retained) = zeroing
    BY <1>1, <1>8
  <2>2. BalancedEntries(zeroing)
    BY <1>7, <1>8 DEF BalancedEntries, net
  <2>3. CASE n = 0
    <3>1. zeroing = <<>>
      BY <1>6, <2>3, EmptySeq
    <3> QED
      BY <1>6, <2>1, <3>1
  <2>4. CASE n = 1
    <3>1. 1 \in 1..Len(zeroing) /\ zeroing[1] \in LedgerEntry /\ zeroing[1].amount # 0
      BY <1>5, <1>6, <2>4
    <3>2. PICK none \in Seq(LedgerEntry), e \in LedgerEntry : none = <<>> /\ e = zeroing[1]
      <4>1. <<>> \in Seq(LedgerEntry)
        OBVIOUS
      <4> QED
        BY <3>1, <4>1, Zenon
    <3>3. zeroing = Append(none, e)
      <4>1. Append(none, e) \in Seq(LedgerEntry) /\ Len(Append(none, e)) = 1 /\ Append(none, e)[1] = e
        <5>1. Len(none) = 0
          BY <3>2
        <5> QED
          BY <3>2, <5>1, AppendProperties
      <4>2. Len(zeroing) = 1 /\ \A i \in 1..Len(zeroing) : zeroing[i] = Append(none, e)[i]
        BY <1>6, <2>4, <3>2, <4>1
      <4> QED
        BY <1>6, <4>1, <4>2, SeqEqual
    <3>4. /\ Total(zeroing, "Debit") = IF e.side = "Debit" THEN e.amount ELSE 0
          /\ Total(zeroing, "Credit") = IF e.side = "Credit" THEN e.amount ELSE 0
      <4>1. ASSUME NEW side PROVE Total(zeroing, side) = IF e.side = side THEN e.amount ELSE 0
        <5>1. Total(Append(none, e), side) = Total(none, side) + (IF e.side = side THEN e.amount ELSE 0)
              /\ Total(none, side) = 0
          <6>1. Total(none, side) = 0
            BY <3>2, TotalAppend
          <6>2. Total(Append(none, e), side) = Total(none, side) + (IF e.side = side THEN e.amount ELSE 0)
            BY TotalAppend
          <6> QED
            BY <6>1, <6>2
        <5> QED
          BY <3>2, <3>3, <5>1 DEF LedgerEntry
      <4> QED
        BY <4>1
    <3>5. e.side \in {"Debit", "Credit"} /\ e.amount \in Int /\ e.amount # 0
      BY <3>1, <3>2 DEF LedgerEntry
    <3>6. FALSE
      BY <2>2, <3>4, <3>5 DEF BalancedEntries
    <3> QED
      BY <3>6
  <2>5. CASE n >= 2
    BY <1>6, <2>1, <2>2, <2>5 DEF Validates
  <2> QED
    BY <1>2, <2>3, <2>4, <2>5
<1>9. CASE net # 0
  <2>1. PICK es : es = Append(zeroing, last) /\ ClosingEntries(bal, Retained) = es
    BY <1>1, <1>9
  <2>2. net \in Int /\ net = Total(zeroing, "Debit") - Total(zeroing, "Credit")
    BY <1>7 DEF net
  <2>3. last \in LedgerEntry /\ (net > 0 => last.side = "Credit" /\ last.amount = net)
        /\ (~(net > 0) => last.side = "Debit" /\ last.amount = -net)
    BY <2>2 DEF last, LedgerEntry
  <2>4. es \in Seq(LedgerEntry) /\ Len(es) = n + 1
    BY <1>6, <2>1, <2>3, AppendProperties
  <2>5. n >= 1
    <3>1. SUFFICES ASSUME n = 0 PROVE FALSE
      BY <1>2
    <3>2. zeroing = <<>>
      BY <1>6, <3>1, EmptySeq
    <3> QED
      BY <1>7, <1>9, <2>2, <3>2
  <2>6. BalancedEntries(es)
    <3>1. \A side : Total(es, side) = Total(zeroing, side) + (IF last.side = side THEN last.amount ELSE 0)
      BY <1>6, <2>1, <2>3, TotalAppend
    <3>2. Total(es, "Debit") = Total(zeroing, "Debit") + (IF last.side = "Debit" THEN last.amount ELSE 0)
          /\ Total(es, "Credit") = Total(zeroing, "Credit") + (IF last.side = "Credit" THEN last.amount ELSE 0)
      BY <3>1
    <3>3. PICK d \in Int, c \in Int : d = Total(zeroing, "Debit") /\ c = Total(zeroing, "Credit")
      BY <1>7
    <3>4. CASE net > 0
      <4>1. Total(es, "Debit") = d + 0 /\ Total(es, "Credit") = c + net /\ net = d - c
        BY <2>2, <2>3, <3>2, <3>3, <3>4
      <4> QED
        BY <2>2, <3>3, <4>1 DEF BalancedEntries
    <3>5. CASE ~(net > 0)
      <4>1. Total(es, "Debit") = d + (-net) /\ Total(es, "Credit") = c + 0 /\ net = d - c
        BY <2>2, <2>3, <3>2, <3>3, <3>5
      <4> QED
        BY <2>2, <3>3, <4>1 DEF BalancedEntries
    <3> QED
      BY <3>4, <3>5
  <2> QED
    BY <1>2, <2>1, <2>4, <2>5, <2>6 DEF Validates
<1> QED
  BY <1>8, <1>9

\* The statements' sums over a set of accounts are sums of a function on accounts:
\* of what was debited,
LEMMA DebitsAdd ==
  ASSUME NEW bal, NEW S, IsFiniteSet(S),
         NEW f \in [S -> Int], \A a \in S : f[a] = bal[a].debits
  PROVE  MapThenSumSet(LAMBDA a : bal[a].debits, S) = Sum(f, S)
<1> DEFINE Some(s) == CHOOSE x \in s : TRUE
           Body(w, s) == IF s = {} THEN 0 ELSE bal[Some(s)].debits + w[s \ {Some(s)}]
           iter == CHOOSE w : w = [s \in SUBSET S |-> Body(w, s)]
<1>1. MapThenSumSet(LAMBDA a : bal[a].debits, S) = iter[S]
  BY DEF MapThenSumSet, MapThenFoldSet
<1>2. \A w, s : s \in (SUBSET S) \ {{}} =>
        Some(s) \in s /\ s \ {Some(s)} \in SUBSET S /\ Body(w, s) = f[Some(s)] + w[s \ {Some(s)}]
  OBVIOUS
<1>3. \A w : Body(w, {}) = 0
  OBVIOUS
<1> HIDE DEF Body, iter, Some
<1>4. PICK g \in [SUBSET S -> Int] : SumsUp(g, S, f)
  BY SumExists
<1>5. \E w : w = [s \in SUBSET S |-> Body(w, s)]
  <2>1. PICK w : w = [s \in SUBSET S |-> g[s]]
    OBVIOUS
  <2>2. ASSUME NEW s \in SUBSET S PROVE w[s] = Body(w, s)
    <3>1. CASE s = {}
      BY <1>3, <1>4, <2>1, <3>1 DEF SumsUp
    <3>2. CASE s # {}
      <4>1. PICK x \in s : x = Some(s) /\ s \ {x} \in SUBSET S /\ Body(w, s) = f[x] + w[s \ {x}]
        BY <1>2, <3>2
      <4>2. g[s] = f[x] + g[s \ {x}]
        BY <1>4 DEF SumsUp
      <4> QED
        BY <2>1, <4>1, <4>2
    <3> QED
      BY <3>1, <3>2
  <2>3. w = [s \in SUBSET S |-> Body(w, s)]
    BY <2>1, <2>2
  <2> QED
    BY <2>3
<1>6. iter = [s \in SUBSET S |-> Body(iter, s)]
  BY <1>5 DEF iter
<1>7. Gathers(iter, S, f)
  <2>1. iter[{}] = 0
    BY <1>3, <1>6
  <2>2. ASSUME NEW s \in (SUBSET S) \ {{}} PROVE \E x \in s : iter[s] = f[x] + iter[s \ {x}]
    <3>1. PICK x \in s : x = Some(s) /\ Body(iter, s) = f[x] + iter[s \ {x}]
      BY <1>2
    <3>2. iter[s] = Body(iter, s)
      BY <1>6
    <3> QED
      BY <3>1, <3>2
  <2> QED
    BY <2>1, <2>2 DEF Gathers
<1> QED
  BY <1>1, <1>7, GatheredSum

LEMMA DebitsSum ==
  ASSUME IsFiniteSet(Account), NEW bal \in Running, NEW S \in SUBSET Account,
         NEW f \in [Account -> Int], \A a \in S : f[a] = bal[a].debits
  PROVE  MapThenSumSet(LAMBDA a : bal[a].debits, S) = Sum(f, S)
<1>1. PICK h : h = [a \in S |-> f[a]]
  OBVIOUS
<1>2. h \in [S -> Int] /\ (\A a \in S : h[a] = f[a]) /\ (\A a \in S : h[a] = bal[a].debits)
  BY <1>1
<1>3. IsFiniteSet(S)
  BY FS_Subset
<1>4. MapThenSumSet(LAMBDA a : bal[a].debits, S) = Sum(h, S)
  BY <1>2, <1>3, DebitsAdd
<1>5. Sum(h, S) = Sum(f, S)
  BY <1>2, SumRestricted
<1> QED
  BY <1>4, <1>5

\* of what was credited,
LEMMA CreditsAdd ==
  ASSUME NEW bal, NEW S, IsFiniteSet(S),
         NEW f \in [S -> Int], \A a \in S : f[a] = bal[a].credits
  PROVE  MapThenSumSet(LAMBDA a : bal[a].credits, S) = Sum(f, S)
<1> DEFINE Some(s) == CHOOSE x \in s : TRUE
           Body(w, s) == IF s = {} THEN 0 ELSE bal[Some(s)].credits + w[s \ {Some(s)}]
           iter == CHOOSE w : w = [s \in SUBSET S |-> Body(w, s)]
<1>1. MapThenSumSet(LAMBDA a : bal[a].credits, S) = iter[S]
  BY DEF MapThenSumSet, MapThenFoldSet
<1>2. \A w, s : s \in (SUBSET S) \ {{}} =>
        Some(s) \in s /\ s \ {Some(s)} \in SUBSET S /\ Body(w, s) = f[Some(s)] + w[s \ {Some(s)}]
  OBVIOUS
<1>3. \A w : Body(w, {}) = 0
  OBVIOUS
<1> HIDE DEF Body, iter, Some
<1>4. PICK g \in [SUBSET S -> Int] : SumsUp(g, S, f)
  BY SumExists
<1>5. \E w : w = [s \in SUBSET S |-> Body(w, s)]
  <2>1. PICK w : w = [s \in SUBSET S |-> g[s]]
    OBVIOUS
  <2>2. ASSUME NEW s \in SUBSET S PROVE w[s] = Body(w, s)
    <3>1. CASE s = {}
      BY <1>3, <1>4, <2>1, <3>1 DEF SumsUp
    <3>2. CASE s # {}
      <4>1. PICK x \in s : x = Some(s) /\ s \ {x} \in SUBSET S /\ Body(w, s) = f[x] + w[s \ {x}]
        BY <1>2, <3>2
      <4>2. g[s] = f[x] + g[s \ {x}]
        BY <1>4 DEF SumsUp
      <4> QED
        BY <2>1, <4>1, <4>2
    <3> QED
      BY <3>1, <3>2
  <2>3. w = [s \in SUBSET S |-> Body(w, s)]
    BY <2>1, <2>2
  <2> QED
    BY <2>3
<1>6. iter = [s \in SUBSET S |-> Body(iter, s)]
  BY <1>5 DEF iter
<1>7. Gathers(iter, S, f)
  <2>1. iter[{}] = 0
    BY <1>3, <1>6
  <2>2. ASSUME NEW s \in (SUBSET S) \ {{}} PROVE \E x \in s : iter[s] = f[x] + iter[s \ {x}]
    <3>1. PICK x \in s : x = Some(s) /\ Body(iter, s) = f[x] + iter[s \ {x}]
      BY <1>2
    <3>2. iter[s] = Body(iter, s)
      BY <1>6
    <3> QED
      BY <3>1, <3>2
  <2> QED
    BY <2>1, <2>2 DEF Gathers
<1> QED
  BY <1>1, <1>7, GatheredSum

LEMMA CreditsSum ==
  ASSUME IsFiniteSet(Account), NEW bal \in Running, NEW S \in SUBSET Account,
         NEW f \in [Account -> Int], \A a \in S : f[a] = bal[a].credits
  PROVE  MapThenSumSet(LAMBDA a : bal[a].credits, S) = Sum(f, S)
<1>1. PICK h : h = [a \in S |-> f[a]]
  OBVIOUS
<1>2. h \in [S -> Int] /\ (\A a \in S : h[a] = f[a]) /\ (\A a \in S : h[a] = bal[a].credits)
  BY <1>1
<1>3. IsFiniteSet(S)
  BY FS_Subset
<1>4. MapThenSumSet(LAMBDA a : bal[a].credits, S) = Sum(h, S)
  BY <1>2, <1>3, CreditsAdd
<1>5. Sum(h, S) = Sum(f, S)
  BY <1>2, SumRestricted
<1> QED
  BY <1>4, <1>5

\* and of the balances, each read from its normal side.
LEMMA SignedSum ==
  ASSUME IsFiniteSet(Account), NEW bal \in Running, NEW S \in SUBSET Account,
         NEW f \in [Account -> Int], \A a \in S : f[a] = Signed(bal[a], Kind[a])
  PROVE  MapThenSumSet(LAMBDA a : Signed(bal[a], Kind[a]), S) = Sum(f, S)
<1> DEFINE Some(s) == CHOOSE x \in s : TRUE
           Body(w, s) == IF s = {} THEN 0 ELSE Signed(bal[Some(s)], Kind[Some(s)]) + w[s \ {Some(s)}]
           iter == CHOOSE w : w = [s \in SUBSET S |-> Body(w, s)]
<1>1. MapThenSumSet(LAMBDA a : Signed(bal[a], Kind[a]), S) = iter[S]
  BY DEF MapThenSumSet, MapThenFoldSet
<1>2. \A w, s : s \in (SUBSET S) \ {{}} =>
        Some(s) \in s /\ s \ {Some(s)} \in SUBSET S /\ Body(w, s) = f[Some(s)] + w[s \ {Some(s)}]
  OBVIOUS
<1>3. \A w : Body(w, {}) = 0
  OBVIOUS
<1> HIDE DEF Body, iter, Some
<1>4. PICK g \in [SUBSET Account -> Int] : SumsUp(g, Account, f)
  BY SumExists
<1>5. \E w : w = [s \in SUBSET S |-> Body(w, s)]
  <2>1. PICK w : w = [s \in SUBSET S |-> g[s]]
    OBVIOUS
  <2>2. ASSUME NEW s \in SUBSET S PROVE w[s] = Body(w, s)
    <3>1. CASE s = {}
      BY <1>3, <1>4, <2>1, <3>1 DEF SumsUp
    <3>2. CASE s # {}
      <4>1. PICK x \in s : x = Some(s) /\ s \ {x} \in SUBSET S /\ Body(w, s) = f[x] + w[s \ {x}]
        BY <1>2, <3>2
      <4>2. g[s] = f[x] + g[s \ {x}]
        BY <1>4 DEF SumsUp
      <4> QED
        BY <2>1, <4>1, <4>2
    <3> QED
      BY <3>1, <3>2
  <2>3. w = [s \in SUBSET S |-> Body(w, s)]
    BY <2>1, <2>2
  <2> QED
    BY <2>3
<1>6. iter = [s \in SUBSET S |-> Body(iter, s)]
  BY <1>5 DEF iter
<1>7. Gathers(iter, S, f)
  <2>1. iter[{}] = 0
    BY <1>3, <1>6
  <2>2. ASSUME NEW s \in (SUBSET S) \ {{}} PROVE \E x \in s : iter[s] = f[x] + iter[s \ {x}]
    <3>1. PICK x \in s : x = Some(s) /\ Body(iter, s) = f[x] + iter[s \ {x}]
      BY <1>2
    <3>2. iter[s] = Body(iter, s)
      BY <1>6
    <3> QED
      BY <3>1, <3>2
  <2> QED
    BY <2>1, <2>2 DEF Gathers
<1>8. iter[S] = Sum(f, S)
  <2>1. PICK h : h = [a \in S |-> f[a]]
    OBVIOUS
  <2>2. h \in [S -> Int] /\ \A a \in S : h[a] = f[a]
    BY <2>1
  <2>3. Gathers(iter, S, h)
    BY <1>7, <2>2 DEF Gathers
  <2>4. IsFiniteSet(S)
    BY FS_Subset
  <2>5. iter[S] = Sum(h, S)
    BY <2>2, <2>3, <2>4, GatheredSum
  <2>6. Sum(h, S) = Sum(f, S)
    BY <2>2, SumRestricted
  <2> QED
    BY <2>5, <2>6
<1> QED
  BY <1>1, <1>8

OfKinds(kinds) == {a \in Chart : Kind[a] \in kinds}

\* The accounts of one kind are summed with the sign of their normal side.
LEMMA SumOfKind ==
  ASSUME IsFiniteSet(Account), Chart \in SUBSET Account, NEW bal \in Running, NEW k
  PROVE  SumOf(bal, {k}) = IF NormalSide(k) = "Debit" THEN Sum(Net(bal), OfKinds({k}))
                                                      ELSE -Sum(Net(bal), OfKinds({k}))
<1>1. PICK S \in SUBSET Account : S = OfKinds({k})
  BY DEF OfKinds
<1>2. PICK net \in [Account -> Int] : net = Net(bal)
  BY NetType
<1>3. \A a \in S : a \in Account /\ Kind[a] = k /\ net[a] = bal[a].debits - bal[a].credits
                   /\ bal[a].debits \in Int /\ bal[a].credits \in Int
  <2>1. \A a \in Account : bal[a] \in Balance
    BY DEF Running
  <2> QED
    BY <1>1, <1>2, <2>1 DEF OfKinds, Net, Balance
<1>4. SumOf(bal, {k}) = MapThenSumSet(LAMBDA a : Signed(bal[a], Kind[a]), S)
  BY <1>1 DEF SumOf, OfKinds
<1>5. CASE NormalSide(k) = "Debit"
  <2>1. \A a \in S : net[a] = Signed(bal[a], Kind[a])
    BY <1>3, <1>5 DEF Signed
  <2>2. MapThenSumSet(LAMBDA a : Signed(bal[a], Kind[a]), S) = Sum(net, S)
    BY <2>1, SignedSum
  <2> QED
    BY <1>1, <1>2, <1>4, <1>5, <2>2
<1>6. CASE NormalSide(k) # "Debit"
  <2>1. PICK f : f = [a \in Account |-> -net[a]]
    OBVIOUS
  <2>2. f \in [Account -> Int] /\ \A a \in S : f[a] = -net[a]
    BY <1>2, <2>1
  <2>3. \A a \in S : f[a] = Signed(bal[a], Kind[a])
    BY <1>3, <1>6, <2>2 DEF Signed
  <2>4. MapThenSumSet(LAMBDA a : Signed(bal[a], Kind[a]), S) = Sum(f, S)
    BY <2>2, <2>3, SignedSum
  <2>5. Sum(f, S) = -Sum(net, S)
    BY <1>2, <2>2, SumOpposite
  <2> QED
    BY <1>1, <1>2, <1>4, <1>6, <2>4, <2>5
<1> QED
  BY <1>5, <1>6

\* What a kind of account more adds.
LEMMA KindsAdd ==
  ASSUME IsFiniteSet(Account), Chart \in SUBSET Account, NEW bal \in Running, NEW ks, NEW k, k \notin ks
  PROVE  /\ Sum(Net(bal), OfKinds(ks \cup {k})) = Sum(Net(bal), OfKinds(ks)) + Sum(Net(bal), OfKinds({k}))
         /\ Sum(Net(bal), OfKinds(ks)) \in Int /\ Sum(Net(bal), OfKinds({k})) \in Int
<1>1. PICK S \in SUBSET Account, T \in SUBSET Account : S = OfKinds(ks) /\ T = OfKinds({k})
  BY DEF OfKinds
<1>2. PICK net \in [Account -> Int] : net = Net(bal)
  BY NetType
<1>3. S \cap T = {} /\ S \cup T = OfKinds(ks \cup {k})
  BY <1>1 DEF OfKinds
<1>4. Sum(net, S \cup T) = Sum(net, S) + Sum(net, T) /\ Sum(net, S) \in Int /\ Sum(net, T) \in Int
  <2>1. Sum(net, S \cup T) = Sum(net, S) + Sum(net, T)
    <3>1. IsFiniteSet(Account) /\ net \in [Account -> Int] /\ S \in SUBSET Account /\ T \in SUBSET Account
          /\ S \cap T = {}
      BY <1>1, <1>2, <1>3
    <3> HIDE <1>1, <1>2, <1>3
    <3> QED
      BY <3>1, SumOfParts
  <2>2. Sum(net, S) \in Int /\ Sum(net, T) \in Int
    BY <1>1, <1>2, SumOne
  <2> QED
    BY <2>1, <2>2
<1> QED
  BY <1>1, <1>2, <1>3, <1>4

\* When the chart is not in debit by anything, every statement balances.
LEMMA Statements ==
  ASSUME IsFiniteSet(Account), Chart \in SUBSET Account, Kind \in [Chart -> Kinds],
         NEW bal \in Running, Sum(Net(bal), Chart) = 0
  PROVE  Reports(bal).trialBalanced /\ Reports(bal).sheetBalanced
<1>1. TrialBalanced(bal)
  <2>1. PICK f, h, net : /\ f = [a \in Account |-> bal[a].debits]
                         /\ h = [a \in Account |-> bal[a].credits] /\ net = Net(bal)
    OBVIOUS
  <2>2. \A a \in Account : bal[a] \in Balance
    BY DEF Running
  <2>3. /\ f \in [Account -> Int] /\ h \in [Account -> Int] /\ net \in [Account -> Int]
        /\ \A a \in Account : f[a] = bal[a].debits /\ h[a] = bal[a].credits /\ net[a] = f[a] - h[a]
    BY <2>1, <2>2, NetType DEF Net, Balance
  <2>4. PICK C \in SUBSET Account : C = Chart
    OBVIOUS
  <2>5. Sum(net, C) = Sum(f, C) - Sum(h, C) /\ Sum(f, C) \in Int /\ Sum(h, C) \in Int
    <3>1. \A a \in C : net[a] = f[a] - h[a]
      BY <2>3, <2>4
    <3>2. Sum(net, C) = Sum(f, C) - Sum(h, C)
      BY <2>3, <2>4, <3>1, SumDifference
    <3>3. Sum(f, C) \in Int /\ Sum(h, C) \in Int
      BY <2>3, <2>4, SumOne
    <3> QED
      BY <3>2, <3>3
  <2>6. Sum(f, C) = Sum(h, C)
    BY <2>1, <2>4, <2>5
  <2>7. MapThenSumSet(LAMBDA a : bal[a].debits, C) = Sum(f, C)
    <3>1. f \in [Account -> Int] /\ \A a \in C : f[a] = bal[a].debits
      BY <2>3, <2>4
    <3> QED
      BY <2>4, <3>1, DebitsSum
  <2>8. MapThenSumSet(LAMBDA a : bal[a].credits, C) = Sum(h, C)
    <3>1. h \in [Account -> Int] /\ \A a \in C : h[a] = bal[a].credits
      BY <2>3, <2>4
    <3> QED
      BY <2>4, <3>1, CreditsSum
  <2> QED
    BY <2>4, <2>6, <2>7, <2>8 DEF TrialBalanced, TrialBalance
<1>2. SheetBalanced(bal)
  <2> DEFINE D(ks) == Sum(Net(bal), OfKinds(ks))
  <2>1. /\ SumOf(bal, {"Asset"}) = D({"Asset"}) /\ SumOf(bal, {"Expense"}) = D({"Expense"})
        /\ SumOf(bal, {"Liability"}) = -D({"Liability"}) /\ SumOf(bal, {"Equity"}) = -D({"Equity"})
        /\ SumOf(bal, {"Revenue"}) = -D({"Revenue"})
    <3> HIDE DEF D
    <3>1. ASSUME NEW k PROVE SumOf(bal, {k}) = IF NormalSide(k) = "Debit" THEN D({k}) ELSE -D({k})
      BY SumOfKind DEF D
    <3> QED
      BY <3>1 DEF NormalSide
  <2> HIDE DEF D
  <2>2. ASSUME NEW ks, NEW k, k \notin ks
        PROVE  D(ks \cup {k}) = D(ks) + D({k}) /\ D(ks) \in Int /\ D({k}) \in Int
    BY <2>2, KindsAdd DEF D
  <2>3. /\ D({"Asset"} \cup {"Expense"}) = D({"Asset"}) + D({"Expense"})
        /\ D({"Asset"}) \in Int /\ D({"Expense"}) \in Int
    BY <2>2
  <2>4. /\ D({"Asset", "Expense"} \cup {"Liability"}) = D({"Asset", "Expense"}) + D({"Liability"})
        /\ D({"Liability"}) \in Int
    BY <2>2
  <2>5. /\ D({"Asset", "Expense", "Liability"} \cup {"Equity"})
             = D({"Asset", "Expense", "Liability"}) + D({"Equity"})
        /\ D({"Equity"}) \in Int
    BY <2>2
  <2>6. /\ D({"Asset", "Expense", "Liability", "Equity"} \cup {"Revenue"})
             = D({"Asset", "Expense", "Liability", "Equity"}) + D({"Revenue"})
        /\ D({"Revenue"}) \in Int
    BY <2>2
  <2>7. /\ {"Asset"} \cup {"Expense"} = {"Asset", "Expense"}
        /\ {"Asset", "Expense"} \cup {"Liability"} = {"Asset", "Expense", "Liability"}
        /\ {"Asset", "Expense", "Liability"} \cup {"Equity"} = {"Asset", "Expense", "Liability", "Equity"}
        /\ {"Asset", "Expense", "Liability", "Equity"} \cup {"Revenue"} = Kinds
    BY DEF Kinds
  <2>8. D(Kinds) = D({"Asset"}) + D({"Expense"}) + D({"Liability"}) + D({"Equity"}) + D({"Revenue"})
    BY <2>3, <2>4, <2>5, <2>6, <2>7
  <2>9. D(Kinds) = 0
    <3>1. OfKinds(Kinds) = Chart
      BY DEF OfKinds
    <3> QED
      BY <3>1 DEF D
  <2>10. SumOf(bal, {"Asset"}) = SumOf(bal, {"Liability"}) + SumOf(bal, {"Equity"})
                                 + (SumOf(bal, {"Revenue"}) - SumOf(bal, {"Expense"}))
    <3>1. PICK a \in Int, x \in Int, l \in Int, q \in Int, r \in Int :
            a = D({"Asset"}) /\ x = D({"Expense"}) /\ l = D({"Liability"}) /\ q = D({"Equity"}) /\ r = D({"Revenue"})
      BY <2>3, <2>4, <2>5, <2>6
    <3>2. a + x + l + q + r = 0
      BY <2>8, <2>9, <3>1
    <3>3. a = (-l) + (-q) + ((-r) - x)
      BY <3>1, <3>2
    <3> QED
      BY <2>1, <3>1, <3>3
  <2> QED
    BY <2>10 DEF SheetBalanced, NetIncome
<1> QED
  BY <1>1, <1>2 DEF Reports

-----------------------------------------------------------------------------
(* The inductive invariant.                                                *)

Begun == [entries : Seq(LedgerEntry), guarded : BOOLEAN, afterClose : BOOLEAN]
CallShape(r) ==
  r = [at |-> r.at, entries |-> r.entries, period |-> r.period, guard |-> r.guard,
       tx |-> r.tx, todo |-> r.todo, seen |-> r.seen, stale |-> r.stale]
CallType(r) ==
  /\ CallShape(r)
  /\ r.at \in {"idle", "lock", "append", "cache", "rebuild", "statement", "closing"}
  /\ r.todo \subseteq Account /\ DOMAIN r.seen \subseteq Account
  /\ r.at = "closing" => r.period \in Period /\ r.stale \subseteq Account \X Balance

BooksType ==
  /\ shardOf \in ShardMaps /\ shardOf \in [Account -> Shard]
  /\ legs \in Logs /\ balances \in Running
  /\ lockedBy \in [Shard -> Poster \cup {Nobody}]
  /\ DOMAIN balanceCache \subseteq Account /\ raced \subseteq Account
  /\ missed \subseteq Account /\ torn \subseteq Poster
  /\ workflow \in [Period -> {"Open", "SoftClose", "Reconciling", "Closed", "Locked"}]
  /\ closedIn \in [Period -> {"none", "Closed", "Locked"}]
  /\ call = [c \in Poster |-> call[c]] /\ \A c \in Poster : CallType(call[c])
  /\ begun \in Seq(Begun)

\* A call that posts: its transaction is in the history, and has no leg yet.  Past
\* the check of the period it was begun before the period was closed.
Posting_(r) == r.at \in {"lock", "append"}
PostSound(r) ==
  /\ r.entries \in Seq(LedgerEntry) /\ Validates(r.entries) /\ r.period \in Period
  /\ r.tx \in 1..Len(begun)
  /\ begun[r.tx].entries = r.entries /\ begun[r.tx].guarded = (r.guard # NoEntries)
  /\ Places(legs, r.tx) = {}
  /\ r.at = "append" => r.todo = {} /\ ~begun[r.tx].afterClose
  /\ begun[r.tx].afterClose => Closed(r.period)
PostsSound ==
  /\ \A c \in Poster : Posting_(call[c]) => PostSound(call[c])
  /\ \A c, d \in Poster : c # d /\ Posting_(call[c]) /\ Posting_(call[d]) => call[c].tx # call[d].tx

\* A lock is held by a post, for an account before all those it still has to lock.
LocksSound ==
  \A c \in Poster, s \in Shard :
    lockedBy[s] = c => /\ Posting_(call[c])
                       /\ \E a \in Account : shardOf[a] = s /\ \A b \in call[c].todo : a < b

HistorySound ==
  /\ BalancesMatchLog
  /\ \A t : t \notin DOMAIN begun => Places(legs, t) = {}
  /\ WholeUnlessRepeated /\ ClosedRejectsLater
  /\ Straight => Sum(Net(balances), Chart) = 0

\* What a poster is going to write to the cache is the balance.
CarriesFresh ==
  \A c \in Poster : WillCache(c) => \A a \in DOMAIN call[c].seen \ raced : call[c].seen[a] = balances[a]
CacheSound ==
  /\ CarriesFresh /\ QuietCacheFresh
  /\ ~WithBalanceCache => DOMAIN balanceCache = {} /\ \A c \in Poster : ~InState(c, "cache")

\* What a reader will have when nobody posts any more: what it has read, and the
\* balances still to be read.  No post crosses it: the chart is in debit by nothing.
AtOnce(c) == [a \in Account |-> IF a \in call[c].todo THEN balances[a] ELSE AsRead(c)[a]]
ReaderSound(c) ==
  Reads(c) => /\ AtOnce(c) \in Running
              /\ c \notin torn /\ Straight => Sum(Net(AtOnce(c)), Chart) = 0
ReadersSound == \A c \in Poster : ReaderSound(c)

BooksInv == BooksType /\ PostsSound /\ LocksSound /\ HistorySound /\ CacheSound /\ ReadersSound

-----------------------------------------------------------------------------
(* What the invariant says.                                                *)

\* A finite set of naturals that is not empty has a greatest element.
LEMMA FiniteGreatest ==
  ASSUME NEW S, IsFiniteSet(S), S \subseteq Nat, S # {}
  PROVE  \E m \in S : \A x \in S : x <= m
<1>1. SUFFICES ASSUME \A m \in S : \E x \in S : m < x PROVE FALSE
  OBVIOUS
<1> DEFINE B == {T \in SUBSET S : T # {} /\ \A m \in T : \E x \in T : m < x}
<1>2. PICK T \in B : \A x \in T : T \ {x} \notin B
  <2>1. B \in SUBSET (SUBSET S) /\ S \in B
    BY <1>1
  <2> HIDE DEF B
  <2> QED
    BY <2>1, SmallestSet
<1>3. PICK m \in T : \A y \in T : m <= y
  <2>1. T \subseteq Nat /\ T # {}
    BY <1>2
  <2> QED
    BY <2>1, Least
<1>4. T \ {m} \in B
  <2>1. T \subseteq Nat /\ \A z \in T : \E x \in T : z < x
    BY <1>2
  <2>2. \A z \in T : \E x \in T \ {m} : z < x
    <3>1. ASSUME NEW z \in T PROVE \E x \in T \ {m} : z < x
      <4>1. PICK x \in T : z < x
        BY <2>1
      <4>2. x # m
        BY <1>3, <2>1, <4>1
      <4> QED
        BY <4>1, <4>2
    <3> QED
      BY <3>1
  <2> QED
    BY <1>3, <2>2
<1> QED
  BY <1>2, <1>3, <1>4

\* Of the posters that wait for one another, the one that wants the greatest account
\* waits for one that wants a greater.
LEMMA NoCycle ==
  ASSUME JournalAssumption, BooksType, LocksSound
  PROVE  NoLockCycle
<1>a. SUFFICES ASSUME IsInjective(shardOf) PROVE NoDeadlock
  BY DEF NoLockCycle
<1>b. SUFFICES ASSUME NEW S \in (SUBSET Poster) \ {{}}, \A c \in S : WaitsIn(c, S) PROVE FALSE
  BY DEF NoDeadlock
<1>1. IsInjective(shardOf) /\ S \in SUBSET Poster /\ S # {} /\ \A c \in S : WaitsIn(c, S)
  BY <1>a, <1>b
<1>2. Account \subseteq Nat /\ IsFiniteSet(Account)
  BY DEF JournalAssumption
<1>3. \A c \in S : /\ call[c].todo \subseteq Account /\ call[c].todo # {}
                   /\ lockedBy[shardOf[NextAccount(c)]] \in S
  BY <1>1 DEF WaitsIn, NextLock, BooksType, CallType
<1>4. \A c \in S : NextAccount(c) \in call[c].todo /\ NextAccount(c) \in Account
  <2>1. ASSUME NEW c \in S PROVE NextAccount(c) \in call[c].todo
    <3>1. \E m \in call[c].todo : \A y \in call[c].todo : m <= y
      BY <1>2, <1>3, Least
    <3> QED
      BY <3>1 DEF NextAccount, Min
  <2> QED
    BY <1>3, <2>1
<1> DEFINE N == {NextAccount(c) : c \in S}
<1>5. PICK m \in N : \A x \in N : x <= m
  <2>1. N \in SUBSET Account /\ N # {}
    BY <1>1, <1>4
  <2>2. IsFiniteSet(N) /\ N \subseteq Nat
    BY <1>2, <2>1, FS_Subset
  <2> HIDE DEF N
  <2> QED
    BY <2>1, <2>2, FiniteGreatest
<1>6. PICK c \in S : m = NextAccount(c)
  OBVIOUS
<1>7. PICK d \in S : d = lockedBy[shardOf[m]]
  BY <1>3, <1>6
<1>8. PICK a \in Account : shardOf[a] = shardOf[m] /\ \A b \in call[d].todo : a < b
  <2>1. shardOf[m] \in Shard
    BY <1>4, <1>6 DEF BooksType
  <2> QED
    BY <1>7, <2>1 DEF LocksSound
<1>9. a = m
  BY <1>1, <1>4, <1>6, <1>8 DEF IsInjective, BooksType
<1>10. m < NextAccount(d) /\ NextAccount(d) \in N
  BY <1>4, <1>8, <1>9
<1>11. m \in Nat /\ NextAccount(d) \in Nat /\ NextAccount(d) <= m
  BY <1>2, <1>4, <1>5, <1>6, <1>10
<1> QED
  BY <1>10, <1>11

\* Closing entries can be posted, whichever balances were read.
LEMMA ClosingPosts ==
  ASSUME JournalAssumption, AccountsAssumption, BooksType, NEW c \in Poster, InState(c, "closing")
  PROVE  LET es == ClosingEntries(ReadBalances(c), Retained)
         IN es \in Seq(LedgerEntry) /\ (es = <<>> \/ Validates(es))
<1>1. IsFiniteSet(Account) /\ Chart \subseteq Account /\ Kind \in [Chart -> Kinds] /\ Retained \in Chart
  BY DEF JournalAssumption, AccountsAssumption
<1>2. ReadBalances(c) \in Running
  <2>1. call[c].stale \subseteq Account \X Balance
    BY DEF BooksType, CallType, InState
  <2>2. ASSUME NEW a \in Account, \E r \in call[c].stale : r[1] = a
        PROVE  (CHOOSE r \in call[c].stale : r[1] = a)[2] \in Balance
    <3>1. (CHOOSE r \in call[c].stale : r[1] = a) \in Account \X Balance
      BY <2>1, <2>2
    <3> QED
      BY <3>1
  <2>3. ZeroBalance \in Balance
    BY DEF ZeroBalance, Balance
  <2> QED
    BY <2>2, <2>3 DEF ReadBalances, Running
<1>3. PICK bal \in Running : bal = ReadBalances(c)
  BY <1>2
<1> QED
  BY <1>1, <1>3, ClosingBalances

\* The inductive invariant has the ledger's promises in it.
LEMMA InvariantSays ==
  ASSUME JournalAssumption, AccountsAssumption, BooksInv
  PROVE  LedgerHolds
<1>1. JTypeOK
  <2>1. ASSUME NEW c \in Poster, NEW s \in Shard, call[c].at \notin {"lock", "append"} PROVE lockedBy[s] # c
    BY <2>1 DEF BooksInv, LocksSound, Posting_
  <2> QED
    BY <2>1 DEF JTypeOK, BooksInv, BooksType, CallType, Logs, Running
<1>2. ClosingAlwaysPosts
  <2>1. ASSUME NEW c \in Poster, InState(c, "closing"), call[c].todo = {}
        PROVE  LET es == ClosingEntries(ReadBalances(c), Retained) IN es = <<>> \/ Validates(es)
    BY <2>1, ClosingPosts DEF BooksInv
  <2> QED
    BY <2>1 DEF ClosingAlwaysPosts
<1>3. StatementsBalance
  <2>1. ASSUME NEW c \in Poster \ torn, Reads(c), call[c].todo = {}, Straight
        PROVE  Reports(AsRead(c)).trialBalanced /\ Reports(AsRead(c)).sheetBalanced
    <3>1. IsFiniteSet(Account) /\ Chart \in SUBSET Account /\ Kind \in [Chart -> Kinds]
      BY DEF JournalAssumption, AccountsAssumption
    <3>2. AtOnce(c) \in Running /\ Sum(Net(AtOnce(c)), Chart) = 0
      BY <2>1 DEF BooksInv, ReadersSound, ReaderSound
    <3>3. AtOnce(c) = AsRead(c)
      BY <2>1 DEF AtOnce, AsRead
    <3> QED
      BY <3>1, <3>2, <3>3, Statements
  <2> QED
    BY <2>1 DEF StatementsBalance
<1>4. NoLockCycle
  BY NoCycle DEF BooksInv
<1> QED
  BY <1>1, <1>2, <1>3, <1>4 DEF LedgerHolds, BooksInv, HistorySound, CacheSound

-----------------------------------------------------------------------------
(* What a step leaves as it was.                                           *)

\* A step of one poster changes that poster's call only.
LEMMA CallMoves ==
  ASSUME BooksType, NEW c \in Poster, NEW r, Becomes(c, r), CallType(r)
  PROVE  /\ call'[c] = r /\ \A d \in Poster \ {c} : call'[d] = call[d]
         /\ call' = [d \in Poster |-> call'[d]] /\ \A d \in Poster : CallType(call'[d])
<1>1. call = [d \in Poster |-> call[d]] /\ \A d \in Poster : CallType(call[d])
  BY DEF BooksType
<1>2. call' = [call EXCEPT ![c] = r]
  BY DEF Becomes
<1>3. call'[c] = r /\ (\A d \in Poster \ {c} : call'[d] = call[d]) /\ call' = [d \in Poster |-> call'[d]]
  BY <1>1, <1>2
<1> QED
  BY <1>1, <1>3

LEMMA RestingType ==
  CallType(Resting) /\ ~Posting_(Resting) /\ Resting.at = "idle"
<1>1. Resting.at = "idle" /\ Resting.todo = {} /\ DOMAIN Resting.seen = {} /\ CallShape(Resting)
  BY DEF Resting, Serving, NoEntries, CallShape
<1> QED
  BY <1>1 DEF CallType, Posting_

\* The history stands while neither books nor transactions change.
LEMMA HistoryKept ==
  ASSUME HistorySound, UNCHANGED <<legs, balances, begun>>
  PROVE  HistorySound'
  BY DEF HistorySound, BalancesMatchLog, WholeUnlessRepeated, ClosedRejectsLater, LegsOf, Straight

\* A poster that does not post, or no longer.
LEMMA PostsKept ==
  ASSUME PostsSound, NEW c \in Poster, ~Posting_(call'[c]),
         \A d \in Poster \ {c} : call'[d] = call[d],
         UNCHANGED <<legs, begun, closedIn>>
  PROVE  PostsSound'
  BY DEF PostsSound, Posting_, PostSound, Closed

\* The locks stand while a poster keeps what it holds or drops all of it.
LEMMA LocksKept ==
  ASSUME LocksSound, NEW c \in Poster, Nobody \notin Poster, UNCHANGED shardOf,
         \A d \in Poster \ {c} : call'[d] = call[d],
         \/ UNCHANGED lockedBy /\ ~Posting_(call[c])
         \/ ReleaseAll(c)
  PROVE  LocksSound'
<1>1. ASSUME NEW d \in Poster, NEW s \in Shard, lockedBy'[s] = d
      PROVE  d # c /\ lockedBy[s] = d
  BY <1>1 DEF LocksSound, ReleaseAll
<1>2. ASSUME NEW d \in Poster, NEW s \in Shard, lockedBy'[s] = d
      PROVE  /\ Posting_(call'[d])
             /\ \E a \in Account : shardOf'[a] = s /\ \A b \in call'[d].todo : a < b
  <2>1. d # c /\ lockedBy[s] = d /\ call'[d] = call[d]
    BY <1>1, <1>2
  <2> QED
    BY <2>1 DEF LocksSound
<1> QED
  BY <1>2 DEF LocksSound, Posting_

\* A poster that writes no cache, or nothing but what it took before and fresh balances.
LEMMA CacheKept ==
  ASSUME CacheSound, NEW c \in Poster, \A d \in Poster \ {c} : call'[d] = call[d],
         UNCHANGED <<balances, balanceCache>>, raced \subseteq raced', missed \subseteq missed',
         WillCache(c)' => \A a \in DOMAIN call'[c].seen \ raced' : call'[c].seen[a] = balances[a],
         WithBalanceCache /\ WillCache(c) =>
           \A a \in DOMAIN call[c].seen : WillCache(c)' /\ a \in DOMAIN call'[c].seen,
         ~WithBalanceCache => call'[c].at # "cache"
  PROVE  CacheSound'
<1>1. \A d \in Poster \ {c} : WillCache(d)' = WillCache(d) /\ InState(d, "cache")' = InState(d, "cache")
  BY DEF WillCache, InState
<1>2. CarriesFresh'
  <2>1. ASSUME NEW d \in Poster, WillCache(d)', NEW a \in DOMAIN call'[d].seen \ raced'
        PROVE  call'[d].seen[a] = balances'[a]
    <3>1. CASE d = c
      BY <2>1, <3>1
    <3>2. CASE d # c
      <4>1. WillCache(d) /\ call'[d] = call[d] /\ a \in DOMAIN call[d].seen \ raced
        BY <1>1, <2>1, <3>2
      <4> QED
        BY <4>1 DEF CacheSound, CarriesFresh
    <3> QED
      BY <3>1, <3>2
  <2> QED
    BY <2>1 DEF CarriesFresh
<1>3. ASSUME ~WithBalanceCache
      PROVE  DOMAIN balanceCache' = {} /\ \A d \in Poster : ~InState(d, "cache")'
  <2>1. ~InState(c, "cache")'
    BY <1>3 DEF InState
  <2> QED
    BY <1>1, <1>3, <2>1 DEF CacheSound
<1>4. QuietCacheFresh'
  <2>1. ASSUME NEW a \in DOMAIN balanceCache' \ (raced' \cup missed')
        PROVE  (\E d \in Poster : WillCache(d)' /\ a \in DOMAIN call'[d].seen) \/ balanceCache'[a] = balances'[a]
    <3>1. WithBalanceCache
      BY <1>3
    <3>2. (\E d \in Poster : WillCache(d) /\ a \in DOMAIN call[d].seen) \/ balanceCache[a] = balances[a]
      BY DEF CacheSound, QuietCacheFresh
    <3>3. ASSUME NEW d \in Poster, WillCache(d), a \in DOMAIN call[d].seen
          PROVE  WillCache(d)' /\ a \in DOMAIN call'[d].seen
      BY <1>1, <3>1, <3>3
    <3> QED
      BY <3>2, <3>3
  <2> QED
    BY <2>1 DEF QuietCacheFresh
<1> QED
  BY <1>2, <1>3, <1>4 DEF CacheSound

\* The other readers are not disturbed while the books stand.
LEMMA ReadersKept ==
  ASSUME ReadersSound, NEW c \in Poster, \A d \in Poster \ {c} : call'[d] = call[d],
         UNCHANGED balances, torn \ {c} \subseteq torn', Straight' => Straight, ReaderSound(c)'
  PROVE  ReadersSound'
<1>1. ASSUME NEW d \in Poster \ {c} PROVE ReaderSound(d)'
  <2>1. Reads(d)' = Reads(d) /\ AtOnce(d)' = AtOnce(d)
    BY DEF Reads, InState, AtOnce, AsRead
  <2>2. d \notin torn' => d \notin torn
    OBVIOUS
  <2>3. ReaderSound(d)
    BY DEF ReadersSound
  <2> QED
    BY <2>1, <2>2, <2>3 DEF ReaderSound
<1> QED
  BY <1>1 DEF ReadersSound

\* A poster that does not read.
LEMMA NotReading ==
  ASSUME NEW c, call'[c].at \notin {"rebuild", "statement"}
  PROVE  ReaderSound(c)'
  BY DEF ReaderSound, Reads, InState

LEMMA StraightKept ==
  ASSUME UNCHANGED <<legs, begun>>
  PROVE  Straight' => Straight
  BY DEF Straight, LegsOf

LEMMA ZeroIsBalance ==
  ZeroBalance \in Balance
  BY DEF ZeroBalance, Balance

\* Two readings that agree on the chart are in debit by the same.
LEMMA SameNet ==
  ASSUME IsFiniteSet(Account), Chart \in SUBSET Account, NEW x \in Running, NEW y \in Running,
         \A a \in Chart : x[a] = y[a]
  PROVE  Sum(Net(x), Chart) = Sum(Net(y), Chart)
<1>1. PICK f \in [Account -> Int], h \in [Account -> Int] : f = Net(x) /\ h = Net(y)
  BY NetType
<1>2. PICK C \in SUBSET Account : C = Chart
  OBVIOUS
<1>3. \A a \in C : f[a] = h[a]
  BY <1>1, <1>2 DEF Net
<1>4. Sum(f, C) = Sum(h, C)
  BY <1>3, SumSame
<1> QED
  BY <1>1, <1>2, <1>4

\* Two readings that a post moves by the same.
LEMMA MovesAlike ==
  ASSUME IsFiniteSet(Account), Chart \in SUBSET Account,
         NEW bal \in Running, NEW after \in Running, NEW old \in Running, NEW now \in Running,
         \A a \in Account : (after[a] = bal[a] /\ now[a] = old[a]) \/ (after[a] = now[a] /\ bal[a] = old[a]),
         Sum(Net(bal), Chart) = 0, Sum(Net(after), Chart) = 0, Sum(Net(old), Chart) = 0
  PROVE  Sum(Net(now), Chart) = 0
<1>1. PICK f \in [Account -> Int], h \in [Account -> Int] : f = Net(after) /\ h = Net(bal)
  BY NetType
<1>2. PICK x \in [Account -> Int], y \in [Account -> Int] : x = Net(now) /\ y = Net(old)
  BY NetType
<1>3. PICK k \in [Account -> Int] : \A a \in Account : k[a] = f[a] - h[a]
  <2>1. [a \in Account |-> f[a] - h[a]] \in [Account -> Int]
    OBVIOUS
  <2> QED
    BY <2>1
<1>4. ASSUME NEW a \in Account PROVE k[a] = x[a] - y[a]
  <2>1. f[a] \in Int /\ h[a] \in Int /\ x[a] \in Int /\ y[a] \in Int /\ k[a] = f[a] - h[a]
    BY <1>3
  <2>2. (f[a] = h[a] /\ x[a] = y[a]) \/ (f[a] = x[a] /\ h[a] = y[a])
    BY <1>1, <1>2 DEF Net
  <2> QED
    BY <2>1, <2>2
<1>5. PICK C \in SUBSET Account : C = Chart
  OBVIOUS
<1>6. Sum(k, C) = Sum(f, C) - Sum(h, C)
  BY <1>3, SumDifference
<1>7. Sum(k, C) = Sum(x, C) - Sum(y, C)
  BY <1>4, SumDifference
<1>8. Sum(x, C) \in Int
  BY SumOne
<1> QED
  BY <1>1, <1>2, <1>5, <1>6, <1>7, <1>8

\* A reader that has just read has at once what it had, and one that begins has the
\* balances.
LEMMA ReadsOn ==
  ASSUME JournalAssumption, AccountsAssumption, BooksInv, NEW c \in Poster, UNCHANGED <<legs, begun, torn>>,
         AtOnce(c)' \in Running,
         \/ \A a \in Chart : AtOnce(c)'[a] = balances[a]
         \/ Reads(c) /\ \A a \in Chart : AtOnce(c)'[a] = AtOnce(c)[a]
  PROVE  ReaderSound(c)'
<1>1. SUFFICES ASSUME c \notin torn', Straight' PROVE Sum(Net(AtOnce(c)'), Chart) = 0
  BY DEF ReaderSound
<1>2. c \notin torn /\ Straight
  BY <1>1, StraightKept
<1>3. PICK x \in Running : x = AtOnce(c)'
  OBVIOUS
<1>6. IsFiniteSet(Account) /\ Chart \in SUBSET Account
  BY DEF JournalAssumption, AccountsAssumption
<1>4. CASE \A a \in Chart : AtOnce(c)'[a] = balances[a]
  <2>1. balances \in Running /\ Sum(Net(balances), Chart) = 0
    BY <1>2 DEF BooksInv, BooksType, HistorySound
  <2>2. Sum(Net(x), Chart) = Sum(Net(balances), Chart)
    BY <1>3, <1>4, <1>6, <2>1, SameNet
  <2> QED
    BY <1>3, <2>1, <2>2
<1>5. CASE Reads(c) /\ \A a \in Chart : AtOnce(c)'[a] = AtOnce(c)[a]
  <2>1. PICK y \in Running : y = AtOnce(c) /\ Sum(Net(y), Chart) = 0
    BY <1>2, <1>5 DEF BooksInv, ReadersSound, ReaderSound
  <2>2. Sum(Net(x), Chart) = Sum(Net(y), Chart)
    BY <1>3, <1>5, <1>6, <2>1, SameNet
  <2> QED
    BY <1>3, <2>1, <2>2
<1> QED
  BY <1>4, <1>5

\* A poster that neither posts nor changes the books: what can go wrong is the cache,
\* and what it reads.
LEMMA Served ==
  ASSUME JournalAssumption, BooksInv, NEW c \in Poster, NEW r, Becomes(c, r), CallType(r), ~Posting_(r),
         ~Posting_(call[c]),
         UNCHANGED <<Books, lockedBy, closedIn, balanceCache, begun, shardOf, workflow>>,
         raced' \subseteq Account, UNCHANGED missed, torn' \subseteq Poster, torn \ {c} \subseteq torn',
         CacheSound', ReaderSound(c)'
  PROVE  BooksInv'
<1>1. /\ call'[c] = r /\ \A d \in Poster \ {c} : call'[d] = call[d]
      /\ call' = [d \in Poster |-> call'[d]] /\ \A d \in Poster : CallType(call'[d])
  BY CallMoves DEF BooksInv
<1>2. UNCHANGED legs /\ UNCHANGED balances
  BY DEF Books
<1>3. BooksType'
  BY <1>1, <1>2 DEF BooksInv, BooksType
<1>4. PostsSound'
  BY <1>1, <1>2, PostsKept DEF BooksInv
<1>5. LocksSound'
  BY <1>1, LocksKept DEF BooksInv, JournalAssumption
<1>6. HistorySound'
  BY <1>2, HistoryKept DEF BooksInv
<1>7. ReadersSound'
  BY <1>1, <1>2, ReadersKept, StraightKept DEF BooksInv
<1> QED
  BY <1>3, <1>4, <1>5, <1>6, <1>7 DEF BooksInv

-----------------------------------------------------------------------------
(* The steps: reading and rebuilding.                                      *)

LEMMA ServingType ==
  ASSUME NEW where \in {"idle", "rebuild", "statement", "closing"}, NEW scope, NEW todo \in SUBSET Account, NEW seen,
         DOMAIN seen \subseteq Account, NEW stale,
         where = "closing" => scope \in Period /\ stale \subseteq Account \X Balance,
         NEW r, r = Serving(where, scope, todo, seen, stale)
  PROVE  /\ CallType(r) /\ ~Posting_(r)
         /\ r.at = where /\ r.period = scope /\ r.todo = todo /\ r.seen = seen /\ r.stale = stale
<1>1. r.at = where /\ r.period = scope /\ r.todo = todo /\ r.seen = seen /\ r.stale = stale /\ CallShape(r)
  BY DEF Serving, CallShape
<1> QED
  BY <1>1 DEF CallType, Posting_

\* The balance that no legs give.
LEMMA NothingReplayed ==
  Replayed(<<>>) = ZeroBalance
<1>1. PICK none \in Seq(Leg) : none = <<>> /\ Len(none) = 0
  BY EmptySeq
<1>2. PICK accs \in [0..Len(none) -> Balance] : accs[0] = ZeroBalance /\ Replayed(none) = accs[Len(none)]
  BY ReplayedChain
<1> QED
  BY <1>1, <1>2

\* A reader begins with everything to read.
LEMMA ReadingBegins ==
  ASSUME JournalAssumption, AccountsAssumption, BooksInv, NEW c \in Poster, InState(c, "idle"),
         NEW where \in {"rebuild", "statement"}, NEW scope, NEW todo \in SUBSET Account, Chart \subseteq todo,
         NEW r, r = Serving(where, scope, todo, NoEntries, {}), Becomes(c, r),
         UNCHANGED <<Books, lockedBy, closedIn, balanceCache, begun, Seen, shardOf, workflow>>
  PROVE  BooksInv'
<1>2. CallType(r) /\ ~Posting_(r) /\ r.at = where /\ r.todo = todo /\ r.seen = NoEntries /\ DOMAIN r.seen = {}
  <2>1. PICK none : none = NoEntries /\ DOMAIN none = {}
    BY DEF NoEntries
  <2>2. where # "closing" /\ where \in {"idle", "rebuild", "statement", "closing"}
    OBVIOUS
  <2>3. PICK stale : stale = {} /\ r = Serving(where, scope, todo, none, stale)
    BY <2>1
  <2>4. /\ CallType(r) /\ ~Posting_(r)
        /\ r.at = where /\ r.period = scope /\ r.todo = todo /\ r.seen = none /\ r.stale = stale
    BY <2>1, <2>2, <2>3, ServingType
  <2> QED
    BY <2>1, <2>4
<1>3. Becomes(c, r) /\ call[c].at = "idle" /\ UNCHANGED <<balances, legs, balanceCache, raced, missed, torn>>
  BY DEF InState, Books, Seen
<1>4. call'[c] = r /\ \A d \in Poster \ {c} : call'[d] = call[d]
  BY <1>2, <1>3, CallMoves DEF BooksInv
<1>5. CacheSound'
  <2>1. ~WillCache(c)
    BY <1>3 DEF WillCache, InState
  <2> QED
    BY <1>2, <1>3, <1>4, <2>1, CacheKept DEF BooksInv
<1>6. UNCHANGED <<Books, lockedBy, closedIn, balanceCache, begun, shardOf, workflow>>
      /\ raced' \subseteq Account /\ torn' \subseteq Poster /\ ~Posting_(call[c])
  BY <1>3 DEF Posting_, BooksInv, BooksType
<1>7. ReaderSound(c)'
  <2>1. PICK now : now = AtOnce(c)'
    OBVIOUS
  <2>2. now = [a \in Account |-> IF a \in todo THEN balances[a] ELSE ZeroBalance]
    BY <1>2, <1>3, <1>4, <2>1 DEF AtOnce, AsRead
  <2>3. now \in Running
    BY <2>2, ZeroIsBalance DEF BooksInv, BooksType, Running
  <2>4. \A a \in Chart : now[a] = balances[a]
    BY <2>2 DEF AccountsAssumption
  <2> QED
    BY <1>3, <1>6, <2>1, <2>3, <2>4, ReadsOn
<1> QED
  BY <1>2, <1>3, <1>5, <1>6, <1>7, Served

LEMMA StartRebuildKeeps ==
  ASSUME JournalAssumption, AccountsAssumption, BooksInv, NEW c \in Poster, NEW scope, StartRebuild(c, scope)
  PROVE  BooksInv'
<1>1. PICK r : r = Serving("rebuild", scope, Account, NoEntries, {}) /\ Becomes(c, r)
  BY DEF StartRebuild
<1>2. Account \in SUBSET Account /\ Chart \subseteq Account /\ "rebuild" \in {"rebuild", "statement"}
  BY DEF AccountsAssumption
<1>3. InState(c, "idle") /\ UNCHANGED <<Books, lockedBy, closedIn, balanceCache, begun, Seen, shardOf, workflow>>
  BY DEF StartRebuild
<1> QED
  BY <1>1, <1>2, <1>3, ReadingBegins

LEMMA StartStatementKeeps ==
  ASSUME JournalAssumption, AccountsAssumption, BooksInv, NEW c \in Poster, StartStatement(c)
  PROVE  BooksInv'
<1>1. PICK r : r = Serving("statement", Nobody, Chart, NoEntries, {}) /\ Becomes(c, r)
  BY DEF StartStatement
<1>2. Chart \in SUBSET Account /\ "statement" \in {"rebuild", "statement"}
  BY DEF AccountsAssumption
<1>3. InState(c, "idle") /\ UNCHANGED <<Books, lockedBy, closedIn, balanceCache, begun, Seen, shardOf, workflow>>
  BY DEF StartStatement
<1> QED
  BY <1>1, <1>2, <1>3, ReadingBegins

\* An account read for a statement has its balance.
LEMMA ReadAccountKeeps ==
  ASSUME JournalAssumption, AccountsAssumption, BooksInv, NEW c \in Poster, NEW a, ReadAccount(c, a)
  PROVE  BooksInv'
<1>1. PICK todo, seen : todo = call[c].todo \ {a}
        /\ seen = [b \in DOMAIN call[c].seen \cup {a} |-> IF b = a THEN balances[a] ELSE call[c].seen[b]]
  OBVIOUS
<1>2. PICK r : r = Serving("statement", Nobody, todo, seen, {}) /\ Becomes(c, r)
  BY <1>1 DEF ReadAccount
<1>3. /\ call[c].at = "statement" /\ a \in call[c].todo /\ call[c].todo \subseteq Account /\ a \in Account
      /\ DOMAIN call[c].seen \subseteq Account
  BY DEF ReadAccount, InState, BooksInv, BooksType, CallType
<1>4. CallType(r) /\ ~Posting_(r) /\ r.at = "statement" /\ r.todo = todo /\ r.seen = seen
  <2>1. todo \in SUBSET Account /\ DOMAIN seen \subseteq Account
    BY <1>1, <1>3
  <2>2. "statement" # "closing" /\ "statement" \in {"idle", "rebuild", "statement", "closing"}
    OBVIOUS
  <2> QED
    BY <1>2, <2>1, <2>2, ServingType
<1>5. /\ UNCHANGED <<Books, lockedBy, closedIn, balanceCache, begun, shardOf, workflow>>
      /\ UNCHANGED <<balances, legs, balanceCache, raced, missed, torn>>
  BY DEF ReadAccount, Books, Seen, Fixed
<1>6. call'[c] = r /\ \A d \in Poster \ {c} : call'[d] = call[d]
  BY <1>2, <1>4, CallMoves DEF BooksInv
<1>7. CacheSound'
  <2>1. ~WillCache(c) /\ ~WillCache(c)' /\ call'[c].at # "cache"
    BY <1>3, <1>4, <1>6 DEF WillCache, InState
  <2> QED
    BY <1>5, <1>6, <2>1, CacheKept DEF BooksInv
<1>8. raced' \subseteq Account /\ torn' \subseteq Poster /\ ~Posting_(call[c]) /\ Reads(c)
  BY <1>3, <1>5 DEF Posting_, Reads, InState, BooksInv, BooksType
<1>9. ReaderSound(c)'
  <2>1. PICK now, old : now = AtOnce(c)' /\ old = AtOnce(c)
    OBVIOUS
  <2>2. old \in Running
    BY <1>8, <2>1 DEF BooksInv, ReadersSound, ReaderSound
  <2>3. \A b \in Account : now[b] = old[b]
    <3>1. \A b \in Account : /\ now[b] = IF b \in todo THEN balances[b]
                                         ELSE IF b \in DOMAIN seen THEN seen[b] ELSE ZeroBalance
                            /\ old[b] = IF b \in call[c].todo THEN balances[b]
                                         ELSE IF b \in DOMAIN call[c].seen THEN call[c].seen[b] ELSE ZeroBalance
      BY <1>4, <1>5, <1>6, <2>1 DEF AtOnce, AsRead
    <3>2. ASSUME NEW b \in Account PROVE now[b] = old[b]
      <4>1. CASE b = a
        <5>1. b \notin todo /\ b \in DOMAIN seen /\ seen[b] = balances[b] /\ b \in call[c].todo
          BY <1>1, <1>3, <4>1
        <5> QED
          BY <3>1, <5>1
      <4>2. CASE b # a
        <5>1. (b \in todo) = (b \in call[c].todo) /\ (b \in DOMAIN seen) = (b \in DOMAIN call[c].seen)
              /\ (b \in DOMAIN seen => seen[b] = call[c].seen[b])
          BY <1>1, <4>2
        <5> QED
          BY <3>1, <5>1
      <4> QED
        BY <4>1, <4>2
    <3> QED
      BY <3>2
  <2>4. now = old
    <3>1. now = [b \in Account |-> now[b]] /\ old = [b \in Account |-> old[b]]
      BY <2>1 DEF AtOnce
    <3> QED
      BY <2>3, <3>1
  <2> QED
    BY <1>5, <1>8, <2>1, <2>2, <2>4, ReadsOn
<1> QED
  BY <1>2, <1>3, <1>4, <1>5, <1>7, <1>8, <1>9, Served

\* A statement that is finished.
LEMMA EndStatementKeeps ==
  ASSUME JournalAssumption, BooksInv, NEW c \in Poster, EndStatement(c)
  PROVE  BooksInv'
<1>1. PICK r : r = Resting /\ Becomes(c, r)
  BY DEF EndStatement, Rests
<1>2. CallType(r) /\ ~Posting_(r) /\ r.at = "idle"
  BY <1>1, RestingType
<1>3. /\ call[c].at = "statement" /\ ~Posting_(call[c]) /\ torn' = torn \ {c}
      /\ UNCHANGED <<Books, lockedBy, closedIn, balanceCache, begun, shardOf, workflow>>
      /\ UNCHANGED <<balances, legs, balanceCache, raced, missed>>
      /\ raced' \subseteq Account /\ torn' \subseteq Poster
  BY DEF EndStatement, InState, Books, Fixed, Posting_, BooksInv, BooksType
<1>4. call'[c] = r /\ \A d \in Poster \ {c} : call'[d] = call[d]
  BY <1>1, <1>2, CallMoves DEF BooksInv
<1>5. CacheSound'
  <2>1. ~WillCache(c) /\ ~WillCache(c)' /\ call'[c].at # "cache"
    BY <1>2, <1>3, <1>4 DEF WillCache, InState
  <2> QED
    BY <1>3, <1>4, <2>1, CacheKept DEF BooksInv
<1>6. ReaderSound(c)'
  BY <1>2, <1>4, NotReading
<1> QED
  BY <1>1, <1>2, <1>3, <1>5, <1>6, Served

\* What a rebuild replays from a shard is the balance at that moment.
LEMMA ReadShardKeeps ==
  ASSUME JournalAssumption, AccountsAssumption, BooksInv, NEW c \in Poster, ReadShard(c)
  PROVE  BooksInv'
<1>1. PICK here : here = {a \in call[c].todo : shardOf[a] = NextShard(c)}
  OBVIOUS
<1>2. PICK scope : scope = call[c].period
  OBVIOUS
<1>3. PICK seen : seen = [a \in DOMAIN call[c].seen \cup {b \in here : InScope(b, scope) # <<>>} |->
                             IF a \in here THEN Replayed(InScope(a, scope)) ELSE call[c].seen[a]]
  OBVIOUS
<1>4. PICK r : r = Serving("rebuild", scope, call[c].todo \ here, seen, {})
  OBVIOUS
<1>5. here \subseteq Account /\ call[c].todo \ here \in SUBSET Account /\ DOMAIN call[c].seen \subseteq Account
  BY <1>1 DEF BooksInv, BooksType, CallType
<1>6. CallType(r) /\ ~Posting_(r) /\ r.at = "rebuild" /\ r.period = scope /\ r.seen = seen
      /\ r.todo = call[c].todo \ here
  <2>1. DOMAIN seen \subseteq Account
    BY <1>3, <1>5
  <2>2. "rebuild" \in {"idle", "rebuild", "statement", "closing"} /\ "rebuild" # "closing"
    OBVIOUS
  <2> QED
    BY <1>4, <1>5, <2>1, <2>2, ServingType
<1>7. /\ Becomes(c, r) /\ call[c].at = "rebuild" /\ UNCHANGED <<balances, legs, balanceCache>>
      /\ raced' = IF WillCache(c) THEN raced \cup (Pending(c) \cap here) ELSE raced
      /\ UNCHANGED <<Books, lockedBy, closedIn, balanceCache, begun, shardOf, workflow>> /\ UNCHANGED <<missed, torn>>
  BY <1>1, <1>2, <1>3, <1>4 DEF ReadShard, InState, Books, Fixed
<1>8. call'[c] = r /\ \A d \in Poster \ {c} : call'[d] = call[d]
  BY <1>6, <1>7, CallMoves DEF BooksInv
<1>9. WillCache(c)' = WillCache(c) /\ (WillCache(c) <=> scope = Nobody)
  BY <1>2, <1>6, <1>7, <1>8 DEF WillCache, InState
<1>10. raced \subseteq raced' /\ raced' \subseteq Account /\ ~Posting_(call[c])
  BY <1>5, <1>7 DEF Posting_, BooksInv, BooksType
<1>11. CacheSound'
  <2>1. ASSUME WillCache(c)', NEW a \in DOMAIN call'[c].seen \ raced'
        PROVE  call'[c].seen[a] = balances[a]
    <3>1. a \in DOMAIN seen /\ a \notin raced /\ a \in Account
      BY <1>3, <1>5, <1>6, <1>8, <1>10
    <3>2. CASE a \in here
      <4>1. seen[a] = Replayed(legs[a])
        BY <1>3, <1>9, <2>1, <3>1, <3>2 DEF InScope
      <4> QED
        BY <1>6, <1>8, <3>1, <4>1 DEF BooksInv, HistorySound, BalancesMatchLog
    <3>3. CASE a \notin here
      <4>1. a \in DOMAIN call[c].seen /\ seen[a] = call[c].seen[a]
        BY <1>3, <3>1, <3>3
      <4>2. call[c].seen[a] = balances[a]
        BY <1>9, <2>1, <3>1, <4>1 DEF BooksInv, CacheSound, CarriesFresh
      <4> QED
        BY <1>6, <1>8, <4>1, <4>2
    <3> QED
      BY <3>2, <3>3
  <2>2. ASSUME WillCache(c), NEW a \in DOMAIN call[c].seen
        PROVE  WillCache(c)' /\ a \in DOMAIN call'[c].seen
    BY <1>3, <1>6, <1>8, <1>9, <2>2
  <2>3. call'[c].at # "cache"
    BY <1>6, <1>8
  <2> QED
    BY <1>7, <1>8, <1>10, <2>1, <2>2, <2>3, CacheKept DEF BooksInv
<1>12. ReaderSound(c)'
  <2>1. CASE ~Reads(c)
    BY <1>2, <1>6, <1>7, <1>8, <2>1 DEF ReaderSound, Reads, InState
  <2>2. CASE Reads(c)
    <3>1. scope = Nobody
      BY <1>2, <1>7, <2>2 DEF Reads, InState
    <3>2. PICK now, old : now = AtOnce(c)' /\ old = AtOnce(c)
      OBVIOUS
    <3>3. old \in Running
      BY <2>2, <3>2 DEF BooksInv, ReadersSound, ReaderSound
    <3>4. \A b \in Account :
            /\ now[b] = IF b \in call[c].todo \ here THEN balances[b]
                        ELSE IF b \in DOMAIN seen THEN seen[b] ELSE ZeroBalance
            /\ old[b] = IF b \in call[c].todo THEN balances[b]
                        ELSE IF b \in DOMAIN call[c].seen THEN call[c].seen[b] ELSE ZeroBalance
      BY <1>6, <1>7, <1>8, <3>2 DEF AtOnce, AsRead
    <3>5. ASSUME NEW b \in Account PROVE now[b] = old[b]
      <4>1. CASE b \in here
        <5>1. b \in call[c].todo /\ balances[b] = Replayed(legs[b]) /\ InScope(b, scope) = legs[b]
          BY <1>1, <3>1, <4>1 DEF InScope, BooksInv, HistorySound, BalancesMatchLog
        <5>2. CASE b \in DOMAIN seen
          BY <1>3, <3>4, <4>1, <5>1, <5>2
        <5>3. CASE b \notin DOMAIN seen
          <6>1. legs[b] = <<>>
            BY <1>3, <4>1, <5>1, <5>3
          <6>2. balances[b] = ZeroBalance
            BY <5>1, <6>1, NothingReplayed
          <6> QED
            BY <3>4, <4>1, <5>1, <5>3, <6>2
        <5> QED
          BY <5>2, <5>3
      <4>2. CASE b \notin here
        <5>1. (b \in DOMAIN seen) = (b \in DOMAIN call[c].seen)
              /\ (b \in DOMAIN seen => seen[b] = call[c].seen[b])
          BY <1>3, <4>2
        <5> QED
          BY <3>4, <4>2, <5>1
      <4> QED
        BY <4>1, <4>2
    <3>6. now = old
      <4>1. now = [b \in Account |-> now[b]] /\ old = [b \in Account |-> old[b]]
        BY <3>2 DEF AtOnce
      <4> QED
        BY <3>5, <4>1
    <3> QED
      BY <1>7, <2>2, <3>2, <3>3, <3>6, ReadsOn DEF BooksInv
  <2> QED
    BY <2>1, <2>2
<1>13. torn' \subseteq Poster
  BY <1>7 DEF BooksInv, BooksType
<1> QED
  BY <1>6, <1>7, <1>10, <1>11, <1>12, <1>13, Served

\* A rebuild of every period goes on to write the cache.
LEMMA EndRebuildKeeps ==
  ASSUME JournalAssumption, BooksInv, NEW c \in Poster, EndRebuild(c)
  PROVE  BooksInv'
<1>1. /\ call[c].at = "rebuild" /\ CallType(call[c]) /\ UNCHANGED <<balances, legs, balanceCache, raced, missed>>
      /\ UNCHANGED <<Books, lockedBy, closedIn, balanceCache, begun, shardOf, workflow>>
      /\ raced' \subseteq Account /\ ~Posting_(call[c]) /\ torn' = torn \ {c} /\ torn' \subseteq Poster
  BY DEF EndRebuild, InState, Books, BooksInv, BooksType, Posting_
<1>2. CASE WithBalanceCache /\ WillCache(c) /\ DOMAIN call[c].seen # {}
  <2>1. PICK r : r = [call[c] EXCEPT !.at = "cache"] /\ Becomes(c, r)
    BY <1>2 DEF EndRebuild
  <2>2. r.at = "cache" /\ r.seen = call[c].seen /\ r.todo = call[c].todo /\ CallShape(r)
    BY <1>1, <2>1 DEF CallType, CallShape
  <2>3. CallType(r) /\ ~Posting_(r)
    BY <1>1, <2>2 DEF CallType, Posting_
  <2>4. call'[c] = r /\ \A d \in Poster \ {c} : call'[d] = call[d]
    BY <2>1, <2>3, CallMoves DEF BooksInv
  <2>5. WillCache(c)' /\ call'[c].seen = call[c].seen
    BY <2>2, <2>4 DEF WillCache, InState
  <2>6. \A a \in DOMAIN call'[c].seen \ raced' : call'[c].seen[a] = balances[a]
    BY <1>1, <1>2, <2>5 DEF BooksInv, CacheSound, CarriesFresh
  <2>7. CacheSound'
    BY <1>1, <1>2, <2>4, <2>5, <2>6, CacheKept DEF BooksInv
  <2>8. ReaderSound(c)'
    BY <2>2, <2>4, NotReading
  <2> QED
    BY <1>1, <2>1, <2>3, <2>7, <2>8, Served
<1>3. CASE ~(WithBalanceCache /\ WillCache(c) /\ DOMAIN call[c].seen # {})
  <2>1. PICK r : r = Resting /\ Becomes(c, r)
    BY <1>3 DEF EndRebuild, Rests
  <2>2. CallType(r) /\ ~Posting_(r) /\ r.at = "idle"
    BY <2>1, RestingType
  <2>3. call'[c] = r /\ \A d \in Poster \ {c} : call'[d] = call[d]
    BY <2>1, <2>2, CallMoves DEF BooksInv
  <2>4. ~WillCache(c)' /\ call'[c].at # "cache"
    BY <2>2, <2>3 DEF WillCache, InState
  <2>5. WithBalanceCache /\ WillCache(c) =>
           \A a \in DOMAIN call[c].seen : WillCache(c)' /\ a \in DOMAIN call'[c].seen
    BY <1>3
  <2>6. CacheSound'
    BY <1>1, <2>3, <2>4, <2>5, CacheKept DEF BooksInv
  <2>7. ReaderSound(c)'
    BY <2>2, <2>3, NotReading
  <2> QED
    BY <1>1, <2>1, <2>2, <2>6, <2>7, Served
<1> QED
  BY <1>2, <1>3

\* A closing that starts or reads one more account.
LEMMA ClosingReads ==
  ASSUME JournalAssumption, BooksInv, NEW c \in Poster, call[c].at \in {"idle", "closing"},
         NEW r, CallType(r), r.at \in {"idle", "closing"}, Becomes(c, r),
         UNCHANGED <<Books, lockedBy, closedIn, balanceCache, begun, Seen, Fixed>>
  PROVE  BooksInv'
<1>1. /\ UNCHANGED <<balances, balanceCache, raced, missed, torn>>
      /\ UNCHANGED <<Books, lockedBy, closedIn, balanceCache, begun, shardOf, workflow>>
      /\ raced' \subseteq Account /\ ~Posting_(call[c]) /\ ~Posting_(r) /\ torn' \subseteq Poster
  BY DEF Books, Seen, Fixed, BooksInv, BooksType, Posting_
<1>2. call'[c] = r /\ \A d \in Poster \ {c} : call'[d] = call[d]
  BY CallMoves DEF BooksInv
<1>3. ~WillCache(c) /\ ~WillCache(c)' /\ call'[c].at # "cache"
  BY <1>2 DEF WillCache, InState
<1>4. CacheSound'
  BY <1>1, <1>2, <1>3, CacheKept DEF BooksInv
<1>5. ReaderSound(c)'
  BY <1>2, NotReading
<1> QED
  BY <1>1, <1>4, <1>5, Served

LEMMA StartClosingKeeps ==
  ASSUME JournalAssumption, AccountsAssumption, BooksInv, NEW c \in Poster, NEW p \in Period, StartClosing(c, p)
  PROVE  BooksInv'
<1>1. PICK r : r = Serving("closing", p, {a \in Chart : ~Permanent(Kind[a])}, NoEntries, {})
  OBVIOUS
<1>2. CallType(r) /\ r.at = "closing"
  <2>1. PICK none : none = NoEntries /\ DOMAIN none = {}
    BY DEF NoEntries
  <2>2. PICK todo \in SUBSET Account : todo = {a \in Chart : ~Permanent(Kind[a])}
    BY DEF AccountsAssumption
  <2>3. PICK stale : stale = {} /\ stale \subseteq Account \X Balance
    OBVIOUS
  <2> QED
    BY <1>1, <2>1, <2>2, <2>3, ServingType
<1> QED
  BY <1>1, <1>2, ClosingReads DEF StartClosing, InState

LEMMA ReadTemporaryKeeps ==
  ASSUME JournalAssumption, BooksInv, NEW c \in Poster, NEW a, ReadTemporary(c, a)
  PROVE  BooksInv'
<1>1. PICK r : r = Serving("closing", call[c].period, call[c].todo \ {a}, NoEntries,
                           call[c].stale \cup {<<a, balances[a]>>})
  OBVIOUS
<1>2. /\ call[c].at = "closing" /\ a \in call[c].todo /\ CallType(call[c])
  BY DEF ReadTemporary, InState, BooksInv, BooksType
<1>3. CallType(r) /\ r.at = "closing"
  <2>1. PICK none : none = NoEntries /\ DOMAIN none = {}
    BY DEF NoEntries
  <2>2. PICK todo \in SUBSET Account : todo = call[c].todo \ {a}
    BY <1>2 DEF CallType
  <2>3. PICK stale : stale = call[c].stale \cup {<<a, balances[a]>>} /\ stale \subseteq Account \X Balance
    <3>1. a \in Account /\ balances[a] \in Balance
      BY <1>2 DEF CallType, BooksInv, BooksType, Running
    <3>2. <<a, balances[a]>> \in Account \X Balance
      BY <3>1
    <3>3. PICK S : S = Account \X Balance
      OBVIOUS
    <3>4. call[c].stale \subseteq S
      BY <1>2, <3>3 DEF CallType
    <3>5. call[c].stale \cup {<<a, balances[a]>>} \subseteq S
      BY <3>2, <3>3, <3>4
    <3> QED
      BY <3>3, <3>5
  <2>4. call[c].period \in Period
    BY <1>2 DEF CallType
  <2> QED
    BY <1>1, <2>1, <2>2, <2>3, <2>4, ServingType
<1> QED
  BY <1>1, <1>2, <1>3, ClosingReads DEF ReadTemporary

-----------------------------------------------------------------------------
(* The steps: posting.                                                     *)

\* A call that begins to post: a transaction more, with no leg yet.
LEMMA PostBegins ==
  ASSUME JournalAssumption, BooksInv, NEW c \in Poster, call[c].at \in {"idle", "closing"},
         NEW entries \in Seq(LedgerEntry), Validates(entries), NEW p \in Period, NEW guard,
         Becomes(c, Posts(entries, p, guard)), Begins(entries, p, guard),
         UNCHANGED <<Books, lockedBy, closedIn, balanceCache, Seen, Fixed>>
  PROVE  BooksInv'
<1>1. PICK n \in Nat : n = Len(begun)
  BY LenProperties DEF BooksInv, BooksType
<1>2. PICK r : r = Posts(entries, p, guard)
  OBVIOUS
<1>3. /\ r.at = "lock" /\ r.entries = entries /\ r.period = p /\ r.guard = guard /\ r.tx = n + 1
      /\ r.todo = AccountsOf(entries) /\ DOMAIN r.seen = {} /\ CallShape(r)
  <2>1. DOMAIN NoEntries = {}
    BY DEF NoEntries
  <2> QED
    BY <1>1, <1>2, <2>1 DEF Posts, CallShape
<1>4. CallType(r)
  <2>1. AccountsOf(entries) \subseteq Account
    <3>1. DOMAIN entries = 1..Len(entries) /\ \A i \in 1..Len(entries) : entries[i] \in LedgerEntry
      BY LenProperties, ElementOfSeq
    <3> QED
      BY <3>1 DEF AccountsOf, LedgerEntry
  <2> QED
    BY <1>3, <2>1 DEF CallType
<1>5. /\ call'[c] = r /\ \A d \in Poster \ {c} : call'[d] = call[d]
      /\ call' = [d \in Poster |-> call'[d]] /\ \A d \in Poster : CallType(call'[d])
  BY <1>2, <1>4, CallMoves DEF BooksInv
<1>6. PICK b \in Begun : b = [entries |-> entries, guarded |-> guard # NoEntries, afterClose |-> Closed(p)]
  <2>1. Closed(p) \in BOOLEAN /\ (guard # NoEntries) \in BOOLEAN
    BY DEF Closed
  <2> QED
    BY <2>1 DEF Begun
<1>7. /\ begun' \in Seq(Begun) /\ Len(begun') = n + 1 /\ begun'[n + 1] = b
      /\ \A i \in 1..n : begun'[i] = begun[i]
      /\ DOMAIN begun' = 1..(n + 1) /\ DOMAIN begun = 1..n
  <2>1. begun' = Append(begun, b) /\ begun \in Seq(Begun)
    BY <1>6 DEF Begins, BooksInv, BooksType
  <2> QED
    BY <1>1, <2>1, AppendProperties, LenProperties
<1>8. /\ b.entries = entries /\ b.guarded = (guard # NoEntries) /\ b.afterClose = Closed(p)
  BY <1>6
<1>9. UNCHANGED <<legs, balances, shardOf, lockedBy, closedIn, balanceCache, raced, missed, torn, workflow>>
  BY DEF Books, Seen, Fixed
<1>10. /\ ~Posting_(call[c]) /\ ~WillCache(c) /\ ~WillCache(c)' /\ ~InState(c, "cache")'
       /\ Posting_(call'[c])
  BY <1>3, <1>5 DEF Posting_, WillCache, InState
<1>11. n + 1 \notin 1..n /\ n + 1 \in 1..(n + 1) /\ \A i \in 1..n : i \in 1..(n + 1) /\ i # n + 1
  BY <1>1
<1>12. Places(legs, n + 1) = {}
  BY <1>7, <1>11 DEF BooksInv, HistorySound
<1>13. BooksType'
  BY <1>5, <1>7, <1>9 DEF BooksInv, BooksType
<1>14. PostsSound'
  <2>1. ASSUME NEW d \in Poster, Posting_(call'[d]) PROVE PostSound(call[d])'
    <3>1. CASE d = c
      <4>1. r.tx \in 1..Len(begun')
        BY <1>3, <1>7, <1>11
      <4>2. begun'[r.tx] = b /\ Places(legs', r.tx) = {}
        BY <1>3, <1>7, <1>9, <1>12
      <4>3. Closed(p)' = Closed(p)
        BY <1>9 DEF Closed
      <4> QED
        BY <1>3, <1>5, <1>8, <3>1, <4>1, <4>2, <4>3 DEF PostSound
    <3>2. CASE d # c
      <4>1. call'[d] = call[d] /\ PostSound(call[d])
        BY <1>5, <2>1, <3>2 DEF BooksInv, PostsSound
      <4>2. call[d].tx \in 1..n /\ begun'[call[d].tx] = begun[call[d].tx] /\ call[d].tx \in 1..(n + 1)
        BY <1>1, <1>7, <1>11, <4>1 DEF PostSound
      <4> QED
        BY <1>7, <1>9, <4>1, <4>2 DEF PostSound, Closed
    <3> QED
      BY <3>1, <3>2
  <2>2. ASSUME NEW d \in Poster, NEW e \in Poster, d # e, Posting_(call'[d]), Posting_(call'[e])
        PROVE  call'[d].tx # call'[e].tx
    <3>1. \A x \in Poster \ {c} : Posting_(call'[x]) =>
            call'[x] = call[x] /\ call'[x].tx \in 1..n
      BY <1>1, <1>5 DEF BooksInv, PostsSound, PostSound
    <3>2. CASE d = c \/ e = c
      BY <1>3, <1>5, <1>11, <2>2, <3>1, <3>2
    <3>3. CASE d # c /\ e # c
      BY <2>2, <3>1, <3>3 DEF BooksInv, PostsSound
    <3> QED
      BY <3>2, <3>3
  <2> QED
    BY <2>1, <2>2 DEF PostsSound, Posting_
<1>15. LocksSound'
  BY <1>5, <1>9, <1>10, LocksKept DEF BooksInv, JournalAssumption
<1>16. Straight' => Straight
  <2>3. \A t : LegsOf(t)' = LegsOf(t)
    BY <1>9 DEF LegsOf
  <2>1. ASSUME Straight', NEW t \in DOMAIN begun, LegsOf(t) > 0
        PROVE  LegsOf(t) = Len(begun[t].entries) /\ AccountsOf(begun[t].entries) \subseteq Chart
    <3>1. t \in DOMAIN begun' /\ begun'[t] = begun[t]
      BY <1>7, <1>11
    <3> QED
      BY <2>3, <2>1, <3>1 DEF Straight
  <2> QED
    BY <2>1 DEF Straight
<1>17. HistorySound'
  <2>1. BalancesMatchLog'
    BY <1>9 DEF BooksInv, HistorySound, BalancesMatchLog
  <2>2. \A t : t \notin DOMAIN begun' => Places(legs', t) = {}
    BY <1>7, <1>9, <1>11 DEF BooksInv, HistorySound
  <2>3. \A t : LegsOf(t)' = LegsOf(t)
    BY <1>9 DEF LegsOf
  <2>4. LegsOf(n + 1) = 0
    <3>1. LegsOf(n + 1) = Cardinality(Places(legs, n + 1))
      BY DEF LegsOf, Places
    <3> QED
      BY <1>12, <3>1, FS_EmptySet
  <2>5. ASSUME NEW t \in DOMAIN begun' PROVE t = n + 1 \/ (t \in DOMAIN begun /\ begun'[t] = begun[t])
    <3>1. t \in 1..(n + 1)
      BY <1>7
    <3>2. t = n + 1 \/ t \in 1..n
      BY <1>1, <3>1
    <3> QED
      BY <1>7, <3>2
  <2>6. WholeUnlessRepeated'
    <3>1. ASSUME NEW t \in DOMAIN begun'
          PROVE  \/ LegsOf(t)' \in {0, Len(begun'[t].entries)}
                 \/ begun'[t].guarded /\ Repeats(begun'[t].entries)
      BY <2>3, <2>4, <2>5 DEF BooksInv, HistorySound, WholeUnlessRepeated
    <3> QED
      BY <3>1 DEF WholeUnlessRepeated
  <2>7. ClosedRejectsLater'
    <3>1. ASSUME NEW t \in DOMAIN begun', begun'[t].afterClose PROVE LegsOf(t)' = 0
      BY <2>3, <2>4, <2>5, <3>1 DEF BooksInv, HistorySound, ClosedRejectsLater
    <3> QED
      BY <3>1 DEF ClosedRejectsLater
  <2> QED
    BY <1>9, <1>16, <2>1, <2>2, <2>6, <2>7 DEF BooksInv, HistorySound
<1>18. CacheSound'
  BY <1>5, <1>9, <1>10, CacheKept DEF BooksInv, InState
<1>19. ReaderSound(c)'
  BY <1>3, <1>5, NotReading
<1>20. ReadersSound'
  BY <1>5, <1>9, <1>16, <1>19, ReadersKept DEF BooksInv
<1> QED
  BY <1>13, <1>14, <1>15, <1>17, <1>18, <1>20 DEF BooksInv

LEMMA StartPostKeeps ==
  ASSUME JournalAssumption, BooksInv, NEW c \in Poster, NEW es \in Offered, NEW p \in Period, NEW g,
         StartPost(c, es, p, g)
  PROVE  BooksInv'
<1>1. es \in Seq(LedgerEntry)
  BY DEF JournalAssumption
<1> QED
  BY <1>1, PostBegins DEF StartPost, InState

\* Closing entries are posted like any others.
LEMMA PostClosingKeeps ==
  ASSUME JournalAssumption, AccountsAssumption, BooksInv, NEW c \in Poster, PostClosing(c)
  PROVE  BooksInv'
<1>1. PICK es : es = ClosingEntries(ReadBalances(c), Retained)
  OBVIOUS
<1>2. /\ call[c].at = "closing" /\ call[c].period \in Period /\ es \in Seq(LedgerEntry)
  <2>1. InState(c, "closing") /\ call[c].at = "closing"
    BY DEF PostClosing, InState
  <2>2. call[c].period \in Period
    BY <2>1 DEF BooksInv, BooksType, CallType
  <2> QED
    BY <1>1, <2>1, <2>2, ClosingPosts DEF BooksInv
<1>3. UNCHANGED <<Books, lockedBy, closedIn, balanceCache, Seen, Fixed>>
  BY DEF PostClosing
<1>4. CASE Validates(es)
  <2>1. Becomes(c, Posts(es, call[c].period, NoEntries)) /\ Begins(es, call[c].period, NoEntries)
    BY <1>1, <1>4 DEF PostClosing
  <2>2. PICK p \in Period : p = call[c].period
    BY <1>2
  <2> QED
    <3>1. call[c].at \in {"idle", "closing"} /\ Becomes(c, Posts(es, p, NoEntries)) /\ Begins(es, p, NoEntries)
      BY <1>2, <2>1, <2>2
    <3> QED
      BY <1>2, <1>3, <1>4, <2>2, <3>1, PostBegins
<1>5. CASE ~Validates(es)
  <2>1. Becomes(c, Resting) /\ UNCHANGED begun
    BY <1>1, <1>5 DEF PostClosing, Rests
  <2>2. CallType(Resting) /\ Resting.at = "idle"
    BY RestingType
  <2> QED
    BY <1>2, <1>3, <2>1, <2>2, ClosingReads
<1> QED
  BY <1>4, <1>5

\* A post that goes on with its shards: its record is as it was, but for what is left to lock.
LEMMA LockNextKeeps ==
  ASSUME JournalAssumption, BooksInv, NEW c \in Poster, LockNext(c)
  PROVE  BooksInv'
<1>1. PICK a : a = NextAccount(c)
  OBVIOUS
<1>2. /\ call[c].at = "lock" /\ call[c].todo # {} /\ CallType(call[c]) /\ call[c].todo \subseteq Account
      /\ Posting_(call[c]) /\ PostSound(call[c])
  BY DEF LockNext, InState, BooksInv, BooksType, CallType, Posting_, PostsSound
<1>3. a \in call[c].todo /\ a \in Account /\ \A y \in call[c].todo : a <= y
  <2>1. Account \subseteq Nat
    BY DEF JournalAssumption
  <2>2. \E m \in call[c].todo : \A y \in call[c].todo : m <= y
    BY <1>2, <2>1, Least
  <2> QED
    BY <1>1, <1>2, <2>2 DEF NextAccount, Min
<1>4. PICK r : r = [call[c] EXCEPT !.todo = @ \ {a}]
  OBVIOUS
<1>5. /\ r.at = "lock" /\ r.entries = call[c].entries /\ r.period = call[c].period /\ r.guard = call[c].guard
      /\ r.tx = call[c].tx /\ r.todo = call[c].todo \ {a} /\ r.seen = call[c].seen /\ CallShape(r)
  BY <1>2, <1>4 DEF CallType, CallShape
<1>6. CallType(r)
  BY <1>2, <1>5 DEF CallType
<1>7. /\ Becomes(c, r) /\ lockedBy' = [lockedBy EXCEPT ![shardOf[a]] = c]
      /\ UNCHANGED <<legs, balances, shardOf, closedIn, balanceCache, begun, raced, missed, torn, workflow>>
  BY <1>1, <1>4 DEF LockNext, Books, Seen, Fixed
<1>8. /\ call'[c] = r /\ \A d \in Poster \ {c} : call'[d] = call[d]
      /\ call' = [d \in Poster |-> call'[d]] /\ \A d \in Poster : CallType(call'[d])
  BY <1>6, <1>7, CallMoves DEF BooksInv
<1>9. BooksType'
  BY <1>7, <1>8 DEF BooksInv, BooksType
<1>10. PostsSound'
  <2>1. ASSUME NEW d \in Poster, Posting_(call'[d]) PROVE PostSound(call[d])'
    <3>1. CASE d = c
      BY <1>2, <1>5, <1>7, <1>8, <3>1 DEF PostSound, Closed
    <3>2. CASE d # c
      BY <1>7, <1>8, <2>1, <3>2 DEF BooksInv, PostsSound, PostSound, Closed
    <3> QED
      BY <3>1, <3>2
  <2>2. \A d \in Poster : Posting_(call'[d]) => Posting_(call[d]) /\ call'[d].tx = call[d].tx
    BY <1>2, <1>5, <1>8
  <2>3. ASSUME NEW d \in Poster, NEW e \in Poster, d # e, Posting_(call'[d]), Posting_(call'[e])
        PROVE  call'[d].tx # call'[e].tx
    BY <2>2, <2>3 DEF BooksInv, PostsSound
  <2> QED
    BY <2>1, <2>3 DEF PostsSound, Posting_
<1>11. LocksSound'
  <2>1. ASSUME NEW d \in Poster, NEW s \in Shard, lockedBy'[s] = d
        PROVE  /\ Posting_(call'[d])
               /\ \E x \in Account : shardOf'[x] = s /\ \A b \in call'[d].todo : x < b
    <3>1. CASE s = shardOf[a]
      <4>1. d = c
        BY <1>3, <1>7, <2>1, <3>1 DEF BooksInv, BooksType
      <4>2. \A b \in call'[c].todo : a < b
        <5>1. Account \subseteq Nat
          BY DEF JournalAssumption
        <5> QED
          BY <1>2, <1>3, <1>5, <1>8, <5>1
      <4>3. Posting_(call'[c])
        BY <1>5, <1>8 DEF Posting_
      <4> QED
        BY <1>3, <1>7, <3>1, <4>1, <4>2, <4>3
    <3>2. CASE s # shardOf[a]
      <4>1. lockedBy[s] = d
        BY <1>7, <2>1, <3>2 DEF BooksInv, BooksType
      <4>2. PICK x \in Account : shardOf[x] = s /\ \A b \in call[d].todo : x < b
        BY <4>1 DEF BooksInv, LocksSound
      <4>3. Posting_(call'[d]) /\ call'[d].todo \subseteq call[d].todo
        BY <1>5, <1>8, <4>1 DEF BooksInv, LocksSound, Posting_
      <4> QED
        BY <1>7, <4>2, <4>3
    <3> QED
      BY <3>1, <3>2
  <2> QED
    BY <2>1 DEF LocksSound, Posting_
<1>12. HistorySound'
  BY <1>7, HistoryKept DEF BooksInv
<1>13. CacheSound'
  <2>1. ~WillCache(c) /\ ~WillCache(c)' /\ call'[c].at # "cache"
    BY <1>2, <1>5, <1>8 DEF WillCache, InState
  <2> QED
    BY <1>7, <1>8, <2>1, CacheKept DEF BooksInv
<1>14. ReadersSound'
  <2>1. ReaderSound(c)'
    BY <1>5, <1>8, NotReading
  <2> QED
    BY <1>7, <1>8, <2>1, ReadersKept, StraightKept DEF BooksInv
<1> QED
  BY <1>9, <1>10, <1>11, <1>12, <1>13, <1>14 DEF BooksInv

\* A post that is turned away leaves the books as they were, and its locks go.
LEMMA GivesUp ==
  ASSUME JournalAssumption, BooksInv, NEW c \in Poster, Posting_(call[c]), Rests(c), ReleaseAll(c),
         UNCHANGED <<legs, balances, shardOf, closedIn, balanceCache, begun, raced, missed, torn, workflow>>
  PROVE  BooksInv'
<1>1. PICK r : r = Resting /\ Becomes(c, r)
  BY DEF Rests
<1>2. CallType(r) /\ ~Posting_(r) /\ r.at = "idle"
  BY <1>1, RestingType
<1>3. /\ call'[c] = r /\ \A d \in Poster \ {c} : call'[d] = call[d]
      /\ call' = [d \in Poster |-> call'[d]] /\ \A d \in Poster : CallType(call'[d])
  BY <1>1, <1>2, CallMoves DEF BooksInv
<1>4. BooksType'
  BY <1>3 DEF BooksInv, BooksType, ReleaseAll
<1>5. PostsSound'
  BY <1>2, <1>3, PostsKept DEF BooksInv
<1>6. LocksSound'
  BY <1>3, LocksKept DEF BooksInv, JournalAssumption
<1>7. HistorySound'
  BY HistoryKept DEF BooksInv
<1>8. CacheSound'
  <2>1. ~WillCache(c) /\ ~WillCache(c)' /\ call'[c].at # "cache"
    BY <1>2, <1>3 DEF WillCache, InState, Posting_
  <2> QED
    BY <1>3, <2>1, CacheKept DEF BooksInv
<1>9. ReadersSound'
  <2>1. ReaderSound(c)'
    BY <1>2, <1>3, NotReading
  <2> QED
    BY <1>3, <2>1, ReadersKept, StraightKept DEF BooksInv
<1> QED
  BY <1>4, <1>5, <1>6, <1>7, <1>8, <1>9 DEF BooksInv

\* A post whose period is closed is turned away; the others go on to append.
LEMMA CheckPeriodKeeps ==
  ASSUME JournalAssumption, BooksInv, NEW c \in Poster, CheckPeriod(c)
  PROVE  BooksInv'
<1>1. /\ call[c].at = "lock" /\ call[c].todo = {} /\ CallType(call[c]) /\ Posting_(call[c]) /\ PostSound(call[c])
      /\ UNCHANGED <<legs, balances, shardOf, closedIn, balanceCache, begun, raced, missed, torn, workflow>>
  BY DEF CheckPeriod, InState, BooksInv, BooksType, Posting_, PostsSound, Books, Seen, Fixed
<1>2. ~WillCache(c)
  BY <1>1 DEF WillCache, InState
<1>3. CASE Closed(call[c].period)
  <2>1. Rests(c) /\ ReleaseAll(c)
    BY <1>3 DEF CheckPeriod
  <2> QED
    BY <1>1, <2>1, GivesUp
<1>4. CASE ~Closed(call[c].period)
  <2>1. PICK r : r = [call[c] EXCEPT !.at = "append"] /\ Becomes(c, r) /\ UNCHANGED lockedBy
    BY <1>4 DEF CheckPeriod
  <2>2. /\ r.at = "append" /\ r.entries = call[c].entries /\ r.period = call[c].period /\ r.guard = call[c].guard
        /\ r.tx = call[c].tx /\ r.todo = call[c].todo /\ r.seen = call[c].seen /\ CallShape(r)
    BY <1>1, <2>1 DEF CallType, CallShape
  <2>3. CallType(r)
    BY <1>1, <2>2 DEF CallType
  <2>4. /\ call'[c] = r /\ \A d \in Poster \ {c} : call'[d] = call[d]
        /\ call' = [d \in Poster |-> call'[d]] /\ \A d \in Poster : CallType(call'[d])
    BY <2>1, <2>3, CallMoves DEF BooksInv
  <2>5. BooksType'
    BY <1>1, <2>1, <2>4 DEF BooksInv, BooksType
  <2>6. PostsSound'
    <3>1. ASSUME NEW d \in Poster, Posting_(call'[d]) PROVE PostSound(call[d])'
      <4>1. CASE d = c
        <5>1. /\ PostSound(call[c]) /\ call[c].todo = {} /\ ~begun[call[c].tx].afterClose
          BY <1>1, <1>4 DEF PostSound
        <5>2. PostSound(r) /\ ~begun[r.tx].afterClose
          BY <2>2, <5>1 DEF PostSound
        <5>3. PICK q : q = r
          OBVIOUS
        <5>4. PostSound(q) /\ ~begun[q.tx].afterClose
          BY <5>2, <5>3
        <5>5. PostSound(q)'
          BY <1>1, <5>4 DEF PostSound
        <5> QED
          BY <2>4, <4>1, <5>3, <5>5 DEF PostSound
      <4>2. CASE d # c
        <5>1. call'[d] = call[d] /\ PostSound(call[d])
          BY <2>4, <3>1, <4>2 DEF BooksInv, PostsSound
        <5>2. UNCHANGED legs /\ UNCHANGED begun /\ UNCHANGED closedIn
          BY <1>1
        <5> QED
          BY <5>1, <5>2 DEF PostSound, Closed
      <4> QED
        BY <4>1, <4>2
    <3>2. \A d \in Poster : Posting_(call'[d]) => Posting_(call[d]) /\ call'[d].tx = call[d].tx
      BY <1>1, <2>2, <2>4
    <3>3. ASSUME NEW d \in Poster, NEW e \in Poster, d # e, Posting_(call'[d]), Posting_(call'[e])
          PROVE  call'[d].tx # call'[e].tx
      BY <3>2, <3>3 DEF BooksInv, PostsSound
    <3> QED
      BY <3>1, <3>3 DEF PostsSound, Posting_
  <2>7. LocksSound'
    <3>1. \A d \in Poster : Posting_(call[d]) => Posting_(call'[d]) /\ call'[d].todo = call[d].todo
      BY <1>1, <2>2, <2>4 DEF Posting_
    <3> QED
      BY <1>1, <2>1, <3>1 DEF BooksInv, LocksSound, Posting_
  <2>8. HistorySound'
    BY <1>1, HistoryKept DEF BooksInv
  <2>9. CacheSound'
    <3>1. ~WillCache(c)' /\ call'[c].at # "cache"
      BY <2>2, <2>4 DEF WillCache, InState
    <3> QED
      BY <1>1, <1>2, <2>4, <3>1, CacheKept DEF BooksInv
  <2>10. ReadersSound'
    <3>1. ReaderSound(c)'
      BY <2>2, <2>4, NotReading
    <3> QED
      BY <1>1, <2>4, <3>1, ReadersKept, StraightKept DEF BooksInv
  <2> QED
    BY <2>5, <2>6, <2>7, <2>8, <2>9, <2>10 DEF BooksInv
<1> QED
  BY <1>3, <1>4

\* What a post that has its versions does to the books: `list` is appended, all of its
\* entries or those before the one that is refused.
Appends(c, list) ==
  /\ list \in Seq(LedgerEntry) /\ AccountsOf(list) \subseteq AccountsOf(call[c].entries)
  /\ \/ list = call[c].entries
     \/ Len(list) < Len(call[c].entries) /\ Guarded(c) /\ Repeats(call[c].entries)
  /\ legs' \in Logs /\ balances' \in Running
  /\ Posted(legs, balances, legs', balances', list, Len(list), call[c].tx)
  /\ balances' = WithEntries(balances, list)
  /\ raced' = raced \cup {a \in AccountsOf(list) : a \in Pending(c) \/ list # call[c].entries}
  /\ torn' = torn \cup {d \in Poster : Crosses(AccountsOf(list), d)}
  /\ \/ /\ list = call[c].entries /\ WithBalanceCache /\ UNCHANGED missed
        /\ Becomes(c, Serving("cache", Nobody, {}, [a \in AccountsOf(list) |-> balances'[a]], {}))
     \/ Becomes(c, Resting) /\ missed' = missed \cup AccountsOf(list)
  /\ ReleaseAll(c) /\ UNCHANGED <<shardOf, closedIn, workflow, balanceCache, begun>>

\* A call past the check of its period, with what the invariant says of it.
Appending(c) ==
  /\ call[c].at = "append" /\ Posting_(call[c]) /\ PostSound(call[c]) /\ ~WillCache(c)
  /\ call[c].tx \in Nat /\ call[c].tx \in DOMAIN begun /\ ~begun[call[c].tx].afterClose

LEMMA AppendingHolds ==
  ASSUME BooksInv, NEW c \in Poster, InState(c, "append")
  PROVE  Appending(c)
<1>1. call[c].at = "append" /\ Posting_(call[c]) /\ PostSound(call[c]) /\ ~WillCache(c)
  BY DEF InState, BooksInv, Posting_, PostsSound, WillCache
<1>2. DOMAIN begun = 1..Len(begun) /\ Len(begun) \in Nat
  BY LenProperties DEF BooksInv, BooksType
<1> QED
  BY <1>1, <1>2 DEF Appending, PostSound

\* The append, by the chains over its entries.
LEMMA AppendLegsAppends ==
  ASSUME BooksInv, NEW c \in Poster, AppendLegs(c), VersionsMatch(c)
  PROVE  \E list : Appends(c, list)
<1>1. Appending(c)
  BY AppendingHolds DEF AppendLegs
<1>0. PICK es : es = call[c].entries
  OBVIOUS
<1>2. PICK tx \in Nat, p \in Period : es = call[c].entries /\ tx = call[c].tx /\ p = call[c].period
  BY <1>0, <1>1 DEF Appending, PostSound
<1>3. PICK list : list = Appended(c)
  OBVIOUS
<1>4. /\ list \in Seq(LedgerEntry) /\ AccountsOf(list) \subseteq AccountsOf(es)
      /\ list = es \/ (Len(list) < Len(es) /\ Guarded(c) /\ Repeats(es))
  <2>1. call[c].entries \in Seq(LedgerEntry) /\ legs \in Logs
    BY <1>1 DEF Appending, PostSound, BooksInv, BooksType
  <2>2. \/ Appended(c) = call[c].entries
        \/ /\ Appended(c) \in Seq(LedgerEntry) /\ Len(Appended(c)) < Len(call[c].entries)
           /\ Guarded(c) /\ Repeats(call[c].entries)
           /\ AccountsOf(Appended(c)) \subseteq AccountsOf(call[c].entries)
    BY <2>1, AppendedIs
  <2> QED
    BY <1>2, <1>3, <2>1, <2>2
<1>5. legs' = WithLegs(legs, list, tx, p) /\ balances' = WithEntries(balances, list)
  BY <1>2, <1>3 DEF AppendLegs
<1>6. legs' \in Logs /\ balances' \in Running /\ Posted(legs, balances, legs', balances', list, Len(list), tx)
  <2>1. legs \in Logs /\ balances \in Running
    BY DEF BooksInv, BooksType
  <2>2. /\ WithLegs(legs, list, tx, p) \in Logs /\ WithEntries(balances, list) \in Running
        /\ Posted(legs, balances, WithLegs(legs, list, tx, p), WithEntries(balances, list), list,
                  Len(list), tx)
    BY <1>4, <2>1, Posting
  <2> QED
    BY <1>5, <2>2
<1>7. /\ raced' = raced \cup {a \in AccountsOf(list) : a \in Pending(c) \/ list # es}
      /\ torn' = torn \cup {d \in Poster : Crosses(AccountsOf(list), d)}
      /\ ReleaseAll(c) /\ UNCHANGED <<shardOf, closedIn, workflow, balanceCache, begun>>
  BY <1>2, <1>3 DEF AppendLegs, Fixed
<1>8. \/ /\ list = es /\ WithBalanceCache /\ UNCHANGED missed
         /\ Becomes(c, Serving("cache", Nobody, {}, [a \in AccountsOf(list) |-> balances'[a]], {}))
      \/ Becomes(c, Resting) /\ missed' = missed \cup AccountsOf(list)
  <2>1. \/ /\ list = es /\ WithBalanceCache /\ UNCHANGED missed
           /\ Becomes(c, Serving("cache", Nobody, {}, [a \in AccountsOf(es) |-> balances'[a]], {}))
        \/ Becomes(c, Resting) /\ missed' = missed \cup AccountsOf(list)
    BY <1>2, <1>3 DEF AppendLegs, Rests
  <2> QED
    BY <2>1
<1> QED
  BY <1>2, <1>4, <1>5, <1>6, <1>7, <1>8 DEF Appends

\* The legs of the transaction are the entries appended; every other one has those it had.
LEMMA LegsAppended ==
  ASSUME NEW c, NEW list, Appends(c, list), PostSound(call[c]), NEW tx, tx = call[c].tx
  PROVE  /\ LegsOf(tx) = 0 /\ LegsOf(tx)' = Len(list)
         /\ \A t : t # tx => LegsOf(t)' = LegsOf(t) /\ Places(legs', t) = Places(legs, t)
         /\ \A a \in Account \ AccountsOf(list) : balances'[a] = balances[a]
<1>1. \A t : LegsOf(t) = Cardinality(Places(legs, t)) /\ LegsOf(t)' = Cardinality(Places(legs', t))
  BY DEF LegsOf, Places
<1>2. Places(legs, tx) = {}
  BY DEF PostSound
<1>3. Posted(legs, balances, legs', balances', list, Len(list), tx)
  BY DEF Appends
<1>4. Cardinality(Places(legs', tx)) = Len(list)
      /\ \A t : t # tx => Places(legs', t) = Places(legs, t)
  BY <1>2, <1>3 DEF Posted
<1>5. ASSUME NEW a \in Account \ AccountsOf(list) PROVE balances'[a] = balances[a]
  <2>1. list \in Seq(LedgerEntry) /\ DOMAIN list = 1..Len(list)
    BY LenProperties DEF Appends
  <2>2. \A j \in 1..Len(list) : list[j].account # a
    BY <2>1 DEF AccountsOf
  <2> QED
    BY <1>3, <2>2 DEF Posted
<1>6. LegsOf(tx) = 0
  BY <1>1, <1>2, FS_EmptySet
<1>7. LegsOf(tx)' = Len(list)
  BY <1>1, <1>4
<1> QED
  BY <1>1, <1>4, <1>5, <1>6, <1>7

\* The history stays sound: the chart is in debit by nothing still, since entries that
\* balance leave it so, and entries cut short leave a transaction that is not whole.
LEMMA HistoryAppended ==
  ASSUME JournalAssumption, AccountsAssumption, BooksInv, NEW c \in Poster, Appending(c),
         NEW list, Appends(c, list)
  PROVE  HistorySound'
<1>0. PICK es : es = call[c].entries
  OBVIOUS
<1>1. PICK tx \in Nat : tx = call[c].tx /\ tx \in DOMAIN begun /\ ~begun[tx].afterClose
  BY DEF Appending
<1>2. PICK n \in Nat : n = Len(list)
  BY LenProperties DEF Appends
<1>3. /\ LegsOf(tx) = 0 /\ LegsOf(tx)' = n
      /\ \A t : t # tx => LegsOf(t)' = LegsOf(t) /\ Places(legs', t) = Places(legs, t)
      /\ \A a \in Account \ AccountsOf(list) : balances'[a] = balances[a]
  BY <1>1, <1>2, LegsAppended DEF Appending
<1>4. /\ begun[tx].entries = es /\ Validates(es) /\ es \in Seq(LedgerEntry)
      /\ list = es \/ (n < Len(es) /\ begun[tx].guarded /\ Repeats(es))
  BY <1>0, <1>1, <1>2 DEF Appending, PostSound, Appends, Guarded
<1>5. UNCHANGED begun /\ HistorySound
  BY DEF Appends, BooksInv
<1>6. BalancesMatchLog'
  BY DEF BooksInv, HistorySound, BalancesMatchLog, Appends, Posted
<1>7. \A t : t \notin DOMAIN begun' => Places(legs', t) = {}
  BY <1>1, <1>3, <1>5 DEF HistorySound
<1>8. WholeUnlessRepeated'
  <2>1. ASSUME NEW t \in DOMAIN begun
        PROVE  LegsOf(t)' \in {0, Len(begun[t].entries)} \/ (begun[t].guarded /\ Repeats(begun[t].entries))
    <3>1. CASE t = tx
      BY <1>2, <1>3, <1>4, <3>1
    <3>2. CASE t # tx
      BY <1>3, <1>5, <3>2 DEF HistorySound, WholeUnlessRepeated
    <3> QED
      BY <3>1, <3>2
  <2> QED
    BY <1>5, <2>1 DEF WholeUnlessRepeated
<1>9. ClosedRejectsLater'
  <2>1. ASSUME NEW t \in DOMAIN begun, begun[t].afterClose PROVE LegsOf(t)' = 0
    <3>1. t # tx
      BY <1>1, <2>1
    <3> QED
      BY <1>3, <1>5, <2>1, <3>1 DEF HistorySound, ClosedRejectsLater
  <2> QED
    BY <1>5, <2>1 DEF ClosedRejectsLater
<1>10. ASSUME Straight' PROVE Sum(Net(balances'), Chart) = 0
  <2>1. Straight
    <3>1. ASSUME NEW t \in DOMAIN begun, LegsOf(t) > 0
          PROVE  LegsOf(t) = Len(begun[t].entries) /\ AccountsOf(begun[t].entries) \subseteq Chart
      <4>1. t # tx
        BY <1>3, <3>1
      <4>2. LegsOf(t)' = LegsOf(t)
        BY <1>3, <4>1
      <4> QED
        BY <1>5, <1>10, <3>1, <4>2 DEF Straight
    <3> QED
      BY <3>1 DEF Straight
  <2>2. Sum(Net(balances), Chart) = 0
    BY <1>5, <2>1 DEF HistorySound
  <2>3. balances \in Running /\ balances' \in Running /\ list \in Seq(LedgerEntry)
    BY DEF BooksInv, BooksType, Appends
  <2>4. CASE n = 0
    <3>1. AccountsOf(list) = {}
      <4>1. DOMAIN list = 1..Len(list)
        BY <2>3, LenProperties
      <4> QED
        BY <1>2, <2>4, <4>1 DEF AccountsOf
    <3>2. \A a \in Account : balances'[a] = balances[a]
      BY <1>3, <3>1
    <3>3. Net(balances') = Net(balances)
      BY <3>2 DEF Net
    <3> QED
      BY <2>2, <3>3
  <2>5. CASE n # 0
    <3>1. n > 0
      BY <1>2, <2>5
    <3>2. LegsOf(tx)' > 0
      BY <1>3, <3>1
    <3>3. n = Len(es) /\ AccountsOf(es) \subseteq Chart
      BY <1>1, <1>3, <1>4, <1>5, <1>10, <3>2 DEF Straight
    <3>4. list = es
      BY <1>2, <1>4, <3>3
    <3>5. BalancedEntries(es) /\ IsFiniteSet(Account) /\ Chart \in SUBSET Account
      BY <1>4 DEF Validates, JournalAssumption, AccountsAssumption
    <3>6. Sum(Net(WithEntries(balances, es)), Chart) = Sum(Net(balances), Chart)
      BY <1>4, <2>3, <3>3, <3>5, PostingMoves
    <3>7. balances' = WithEntries(balances, es)
      BY <3>4 DEF Appends
    <3> QED
      BY <2>2, <3>6, <3>7
  <2> QED
    BY <2>4, <2>5
<1> QED
  BY <1>6, <1>7, <1>8, <1>9, <1>10 DEF HistorySound

\* The cache stays sound: what others carry off for an account that was just posted to
\* is overtaken, and the account counts as raced.
LEMMA CacheAppended ==
  ASSUME BooksInv, NEW c \in Poster, Appending(c), NEW list, Appends(c, list),
         NEW r, call'[c] = r, \A d \in Poster \ {c} : call'[d] = call[d],
         \/ /\ list = call[c].entries /\ WithBalanceCache /\ UNCHANGED missed
            /\ r.at = "cache" /\ r.seen = [a \in AccountsOf(list) |-> balances'[a]]
         \/ r.at = "idle" /\ missed' = missed \cup AccountsOf(list)
  PROVE  CacheSound'
<1>1. \A a \in Account \ AccountsOf(list) : balances'[a] = balances[a]
  <2>1. PICK tx : tx = call[c].tx
    OBVIOUS
  <2> QED
    BY <2>1, LegsAppended DEF Appending
<1>2. /\ raced' = raced \cup {a \in AccountsOf(list) : a \in Pending(c) \/ list # call[c].entries}
      /\ UNCHANGED balanceCache
  BY DEF Appends
<1>3. \A d \in Poster \ {c} : WillCache(d)' = WillCache(d) /\ InState(d, "cache")' = InState(d, "cache")
  BY DEF WillCache, InState
<1>4. \A d \in Poster \ {c} : WillCache(d) => DOMAIN call[d].seen \subseteq Pending(c)
  BY DEF Pending
<1>5. ~WillCache(c)
  BY DEF Appending
<1>6. /\ WillCache(c)' => list = call[c].entries /\ WithBalanceCache
      /\ InState(c, "cache")' => WithBalanceCache
      /\ WillCache(c)' => DOMAIN call'[c].seen = AccountsOf(list) /\ call'[c].seen = [a \in AccountsOf(list) |-> balances'[a]]
      /\ WillCache(c)' \/ AccountsOf(list) \subseteq missed'
      /\ missed \subseteq missed'
  BY DEF WillCache, InState
<1>7. CarriesFresh'
  <2>1. ASSUME NEW d \in Poster, WillCache(d)', NEW a \in DOMAIN call'[d].seen \ raced'
        PROVE  call'[d].seen[a] = balances'[a]
    <3>1. CASE d = c
      BY <1>6, <2>1, <3>1
    <3>2. CASE d # c
      <4>1. WillCache(d) /\ call'[d] = call[d] /\ a \in DOMAIN call[d].seen \ raced /\ a \in Pending(c)
        BY <1>2, <1>3, <1>4, <2>1, <3>2
      <4>2. a \notin AccountsOf(list) /\ a \in Account
        BY <1>2, <2>1, <4>1 DEF BooksInv, BooksType, CallType
      <4>3. call[d].seen[a] = balances[a]
        BY <4>1 DEF BooksInv, CacheSound, CarriesFresh
      <4> QED
        BY <1>1, <4>1, <4>2, <4>3
    <3> QED
      BY <3>1, <3>2
  <2> QED
    BY <2>1 DEF CarriesFresh
<1>8. QuietCacheFresh'
  <2>1. ASSUME NEW a \in DOMAIN balanceCache' \ (raced' \cup missed')
        PROVE  (\E d \in Poster : WillCache(d)' /\ a \in DOMAIN call'[d].seen) \/ balanceCache'[a] = balances'[a]
    <3>1. a \in DOMAIN balanceCache \ (raced \cup missed) /\ a \in Account
      BY <1>2, <1>6, <2>1 DEF BooksInv, BooksType
    <3>2. WithBalanceCache
      BY <3>1 DEF BooksInv, CacheSound
    <3>3. CASE \E d \in Poster : WillCache(d) /\ a \in DOMAIN call[d].seen
      <4>1. PICK d \in Poster : WillCache(d) /\ a \in DOMAIN call[d].seen
        BY <3>3
      <4>2. d # c
        BY <1>5, <4>1
      <4> QED
        BY <1>3, <4>1, <4>2
    <3>4. CASE balanceCache[a] = balances[a] /\ a \in AccountsOf(list)
      <4>1. WillCache(c)'
        BY <1>6, <2>1, <3>4
      <4> QED
        BY <1>6, <3>4, <4>1
    <3>5. CASE balanceCache[a] = balances[a] /\ a \notin AccountsOf(list)
      BY <1>1, <1>2, <3>1, <3>5
    <3> QED
      BY <3>1, <3>3, <3>4, <3>5 DEF BooksInv, CacheSound, QuietCacheFresh
  <2> QED
    BY <2>1 DEF QuietCacheFresh
<1>9. ASSUME ~WithBalanceCache PROVE DOMAIN balanceCache' = {} /\ \A d \in Poster : ~InState(d, "cache")'
  BY <1>2, <1>3, <1>6, <1>9 DEF BooksInv, CacheSound
<1> QED
  BY <1>7, <1>8, <1>9 DEF CacheSound

\* A transaction that is whole after a step was so before it.
LEMMA StraightAppended ==
  ASSUME NEW c \in Poster, Appending(c), NEW list, Appends(c, list)
  PROVE  Straight' => Straight
<1>1. PICK tx : tx = call[c].tx
  OBVIOUS
<1>2. LegsOf(tx) = 0 /\ \A t : t # tx => LegsOf(t)' = LegsOf(t)
  BY <1>1, LegsAppended DEF Appending
<1>3. UNCHANGED begun
  BY DEF Appends
<1>4. ASSUME Straight', NEW t \in DOMAIN begun, LegsOf(t) > 0
      PROVE  LegsOf(t) = Len(begun[t].entries) /\ AccountsOf(begun[t].entries) \subseteq Chart
  <2>1. t # tx
    BY <1>2, <1>4
  <2>2. LegsOf(t)' = LegsOf(t)
    BY <1>2, <2>1
  <2> QED
    BY <1>3, <1>4, <2>2 DEF Straight
<1> QED
  BY <1>4 DEF Straight

\* A reader no post crosses: it has read all the accounts the post changes, or none of
\* them, and then it will see the whole of it.
LEMMA ReadersAppended ==
  ASSUME JournalAssumption, AccountsAssumption, BooksInv, HistorySound', NEW c \in Poster, Appending(c),
         NEW list, Appends(c, list), NEW r, call'[c] = r, r.at \in {"cache", "idle"},
         \A d \in Poster \ {c} : call'[d] = call[d]
  PROVE  ReadersSound'
<1>1. \A a \in Account \ AccountsOf(list) : balances'[a] = balances[a]
  <2>1. PICK tx : tx = call[c].tx
    OBVIOUS
  <2> QED
    BY <2>1, LegsAppended DEF Appending
<1>2. balances \in Running /\ balances' \in Running
  BY DEF BooksInv, BooksType, Appends
<1>3. ReaderSound(c)'
  BY NotReading
<1>4. ASSUME NEW d \in Poster \ {c}, Reads(d)' PROVE ReaderSound(d)'
  <2>1. Reads(d) /\ UNCHANGED call[d]
    BY <1>4 DEF Reads, InState
  <2>2. PICK now, old : now = AtOnce(d)' /\ old = AtOnce(d)
    OBVIOUS
  <2>3. old \in Running /\ (d \notin torn /\ Straight => Sum(Net(old), Chart) = 0)
    BY <2>1, <2>2 DEF BooksInv, ReadersSound, ReaderSound
  <2>4. /\ \A a \in Account : now[a] = IF a \in call[d].todo THEN balances'[a] ELSE old[a]
        /\ \A a \in call[d].todo \cap Account : old[a] = balances[a]
        /\ now = [a \in Account |-> now[a]] /\ old = [a \in Account |-> old[a]]
    BY <2>1, <2>2 DEF AtOnce, AsRead
  <2>5. now \in Running
    <3>1. \A a \in Account : now[a] \in Balance
      BY <1>2, <2>3, <2>4 DEF Running
    <3> QED
      BY <2>4, <3>1 DEF Running
  <2>6. ASSUME d \notin torn', Straight' PROVE Sum(Net(now), Chart) = 0
    <3>0. IsFiniteSet(Account) /\ Chart \in SUBSET Account
      BY DEF JournalAssumption, AccountsAssumption
    <3>1. d \notin torn /\ ~Crosses(AccountsOf(list), d)
      BY <2>6 DEF Appends
    <3>2. Straight
      BY <2>6, StraightAppended
    <3>3. Sum(Net(old), Chart) = 0
      BY <2>3, <3>1, <3>2
    <3>4. CASE AccountsOf(list) \cap call[d].todo = {}
      <4>1. \A a \in Chart : now[a] = old[a]
        BY <1>1, <2>4, <3>4 DEF AccountsAssumption
      <4> QED
        BY <2>3, <2>5, <3>0, <3>3, <4>1, SameNet
    <3>5. CASE AccountsOf(list) \ call[d].todo = {}
      <4>1. Sum(Net(balances), Chart) = 0 /\ Sum(Net(balances'), Chart) = 0
        BY <2>6, <3>2 DEF BooksInv, HistorySound
      <4>2. ASSUME NEW a \in Account
            PROVE  \/ balances'[a] = balances[a] /\ now[a] = old[a]
                   \/ balances'[a] = now[a] /\ balances[a] = old[a]
        BY <1>1, <2>4, <3>5
      <4> QED
        BY <1>2, <2>3, <2>5, <3>0, <3>3, <4>1, <4>2, MovesAlike
    <3> QED
      BY <2>1, <3>1, <3>4, <3>5 DEF Crosses
  <2> QED
    BY <2>2, <2>5, <2>6 DEF ReaderSound
<1>5. ASSUME NEW d \in Poster \ {c}, ~Reads(d)' PROVE ReaderSound(d)'
  BY <1>5 DEF ReaderSound
<1> QED
  BY <1>3, <1>4, <1>5 DEF ReadersSound

\* The append keeps the invariant, whether its versions match, fail, or fail half way.
LEMMA AppendLegsKeeps ==
  ASSUME JournalAssumption, AccountsAssumption, BooksInv, NEW c \in Poster, AppendLegs(c)
  PROVE  BooksInv'
<1>1. Appending(c)
  BY AppendingHolds DEF AppendLegs
<1>2. CASE ~VersionsMatch(c)
  <2>1. Rests(c) /\ ReleaseAll(c)
        /\ UNCHANGED <<legs, balances, shardOf, closedIn, balanceCache, begun, raced, missed, torn, workflow>>
    BY <1>2 DEF AppendLegs, Books, Seen, Fixed
  <2> QED
    BY <1>1, <2>1, GivesUp DEF Appending
<1>3. CASE VersionsMatch(c)
  <2>1. PICK list : Appends(c, list)
    BY <1>3, AppendLegsAppends
  <2>2. AccountsOf(list) \subseteq Account
    <3>1. DOMAIN list = 1..Len(list) /\ \A i \in 1..Len(list) : list[i] \in LedgerEntry
      BY <2>1, LenProperties, ElementOfSeq DEF Appends
    <3> QED
      BY <3>1 DEF AccountsOf, LedgerEntry
  <2>3. PICK seen : seen = [a \in AccountsOf(list) |-> balances'[a]]
    OBVIOUS
  <2>4. PICK r : /\ Becomes(c, r) /\ CallType(r) /\ ~Posting_(r)
                 /\ \/ /\ list = call[c].entries /\ WithBalanceCache /\ UNCHANGED missed
                       /\ r.at = "cache" /\ r.seen = [a \in AccountsOf(list) |-> balances'[a]]
                    \/ r.at = "idle" /\ missed' = missed \cup AccountsOf(list)
    <3>1. CASE list = call[c].entries /\ WithBalanceCache /\ UNCHANGED missed
               /\ Becomes(c, Serving("cache", Nobody, {}, [a \in AccountsOf(list) |-> balances'[a]], {}))
      <4>1. PICK r : r = Serving("cache", Nobody, {}, seen, {}) /\ Becomes(c, r)
        BY <2>3, <3>1
      <4>2. r.at = "cache" /\ r.seen = seen /\ r.todo = {} /\ CallShape(r)
        BY <4>1 DEF Serving, CallShape
      <4>3. CallType(r) /\ ~Posting_(r)
        BY <2>2, <2>3, <4>2 DEF CallType, Posting_
      <4> QED
        BY <2>3, <3>1, <4>1, <4>2, <4>3
    <3>2. CASE Becomes(c, Resting) /\ missed' = missed \cup AccountsOf(list)
      BY <3>2, RestingType
    <3> QED
      BY <2>1, <3>1, <3>2 DEF Appends
  <2>5. /\ call'[c] = r /\ \A d \in Poster \ {c} : call'[d] = call[d]
        /\ call' = [d \in Poster |-> call'[d]] /\ \A d \in Poster : CallType(call'[d])
    BY <2>4, CallMoves DEF BooksInv
  <2>6. BooksType'
    <3>1. raced' \subseteq Account /\ missed' \subseteq Account /\ torn' \subseteq Poster
      BY <2>1, <2>2 DEF Appends, BooksInv, BooksType
    <3>2. lockedBy' \in [Shard -> Poster \cup {Nobody}]
      BY <2>1 DEF Appends, ReleaseAll, BooksInv, BooksType
    <3> QED
      BY <2>1, <2>5, <3>1, <3>2 DEF Appends, BooksInv, BooksType
  <2>7. PostsSound'
    <3>1. PICK tx : tx = call[c].tx
      OBVIOUS
    <3>2. \A t : t # tx => Places(legs', t) = Places(legs, t)
      BY <1>1, <2>1, <3>1, LegsAppended DEF Appending
    <3>3. ~Posting_(call'[c])
      BY <2>4, <2>5
    <3>4. ASSUME NEW d \in Poster, Posting_(call'[d]) PROVE PostSound(call[d])'
      <4>1. d # c /\ call'[d] = call[d] /\ PostSound(call[d]) /\ call[d].tx # tx
        BY <1>1, <2>5, <3>1, <3>3, <3>4 DEF BooksInv, PostsSound, Appending
      <4>2. Places(legs', call[d].tx) = {}
        BY <3>2, <4>1 DEF PostSound
      <4>3. UNCHANGED <<begun, closedIn>>
        BY <2>1 DEF Appends
      <4> QED
        BY <4>1, <4>2, <4>3 DEF PostSound, Closed
    <3>5. ASSUME NEW d \in Poster, NEW e \in Poster, d # e, Posting_(call'[d]), Posting_(call'[e])
          PROVE  call'[d].tx # call'[e].tx
      BY <2>5, <3>3, <3>5 DEF BooksInv, PostsSound
    <3> QED
      BY <3>4, <3>5 DEF PostsSound, Posting_
  <2>8. LocksSound'
    <3>1. UNCHANGED shardOf /\ ReleaseAll(c) /\ Nobody \notin Poster /\ LocksSound
      BY <2>1 DEF Appends, JournalAssumption, BooksInv
    <3> QED
      BY <2>5, <3>1, LocksKept
  <2>9. HistorySound'
    BY <1>1, <2>1, HistoryAppended
  <2>10. CacheSound'
    BY <1>1, <2>1, <2>4, <2>5, CacheAppended
  <2>11. ReadersSound'
    BY <1>1, <2>1, <2>4, <2>5, <2>9, ReadersAppended
  <2> QED
    BY <2>6, <2>7, <2>8, <2>9, <2>10, <2>11 DEF BooksInv
<1> QED
  BY <1>2, <1>3

\* An entry goes to the cache: the balance, unless the account has been raced on.
LEMMA WriteBalanceKeeps ==
  ASSUME JournalAssumption, BooksInv, NEW c \in Poster, NEW a \in Account, WriteBalance(c, a)
  PROVE  BooksInv'
<1>1. /\ call[c].at = "cache" /\ a \in DOMAIN call[c].seen /\ CallType(call[c]) /\ ~Posting_(call[c])
      /\ UNCHANGED <<Books, lockedBy, closedIn, begun, raced, torn, shardOf, workflow>>
      /\ UNCHANGED balances /\ UNCHANGED legs
  BY DEF WriteBalance, InState, BooksInv, BooksType, Posting_, Books, Fixed
<1>2. /\ \A b \in DOMAIN balanceCache' \ {a} : b \in DOMAIN balanceCache /\ balanceCache'[b] = balanceCache[b]
      /\ \A b \in DOMAIN balanceCache' \ {a} : b \in missed => b \in missed'
      /\ a \in missed' \/ (a \in DOMAIN balanceCache' /\ balanceCache'[a] = call[c].seen[a])
      /\ DOMAIN balanceCache' \subseteq DOMAIN balanceCache \cup {a} /\ missed' \subseteq missed \cup {a}
  <2>1. CASE /\ missed' = missed \ {a}
             /\ balanceCache' = [b \in DOMAIN balanceCache \cup {a} |->
                                   IF b = a THEN call[c].seen[a] ELSE balanceCache[b]]
    BY <2>1
  <2>2. CASE missed' = missed \cup {a} /\ UNCHANGED balanceCache
    BY <2>2
  <2> QED
    BY <2>1, <2>2 DEF WriteBalance
<1>3. PICK r : /\ Becomes(c, r) /\ CallType(r) /\ ~Posting_(r)
               /\ \/ r.at = "idle" /\ DOMAIN call[c].seen = {a}
                  \/ r.at = "cache" /\ r.seen = [b \in DOMAIN call[c].seen \ {a} |-> call[c].seen[b]]
  <2>1. CASE DOMAIN call[c].seen = {a}
    <3>1. Becomes(c, Resting)
      BY <2>1 DEF WriteBalance, Rests
    <3> QED
      BY <2>1, <3>1, RestingType
  <2>2. CASE DOMAIN call[c].seen # {a}
    <3>1. PICK left : left = [b \in DOMAIN call[c].seen \ {a} |-> call[c].seen[b]]
      OBVIOUS
    <3>2. PICK r : r = [call[c] EXCEPT !.seen = left] /\ Becomes(c, r)
      BY <2>2, <3>1 DEF WriteBalance
    <3>3. r.at = "cache" /\ r.seen = left /\ r.todo = call[c].todo /\ CallShape(r)
      BY <1>1, <3>2 DEF CallType, CallShape
    <3>4. DOMAIN left \subseteq Account
      BY <1>1, <3>1 DEF CallType
    <3>5. CallType(r) /\ ~Posting_(r)
      BY <1>1, <3>3, <3>4 DEF CallType, Posting_
    <3> QED
      BY <3>1, <3>2, <3>3, <3>5
  <2> QED
    BY <2>1, <2>2
<1>4. /\ call'[c] = r /\ \A d \in Poster \ {c} : call'[d] = call[d]
      /\ call' = [d \in Poster |-> call'[d]] /\ \A d \in Poster : CallType(call'[d])
  BY <1>3, CallMoves DEF BooksInv
<1>5. BooksType'
  <2>1. DOMAIN balanceCache' \subseteq Account /\ missed' \subseteq Account
    BY <1>2 DEF BooksInv, BooksType
  <2> QED
    BY <1>1, <1>4, <2>1 DEF BooksInv, BooksType
<1>6. PostsSound'
  BY <1>1, <1>3, <1>4, PostsKept DEF BooksInv
<1>7. LocksSound'
  BY <1>1, <1>4, LocksKept DEF BooksInv, JournalAssumption
<1>8. HistorySound'
  BY <1>1, HistoryKept DEF BooksInv
<1>9. \A d \in Poster \ {c} : WillCache(d)' = WillCache(d) /\ InState(d, "cache")' = InState(d, "cache")
  BY <1>4 DEF WillCache, InState
<1>10. WillCache(c) /\ WithBalanceCache
  BY <1>1 DEF WillCache, InState, BooksInv, CacheSound
<1>11. /\ WillCache(c)' => r.at = "cache"
       /\ r.at = "cache" => WillCache(c)'
  BY <1>3, <1>4 DEF WillCache, InState
<1>12. CarriesFresh'
  <2>1. ASSUME NEW d \in Poster, WillCache(d)', NEW b \in DOMAIN call'[d].seen \ raced'
        PROVE  call'[d].seen[b] = balances'[b]
    <3>1. CASE d = c
      <4>1. r.at = "cache"
        BY <1>11, <2>1, <3>1
      <4>2. b \in DOMAIN call[c].seen \ raced /\ call'[d].seen[b] = call[c].seen[b]
        BY <1>1, <1>3, <1>4, <2>1, <3>1, <4>1
      <4> QED
        BY <1>1, <1>10, <4>2 DEF BooksInv, CacheSound, CarriesFresh
    <3>2. CASE d # c
      BY <1>1, <1>4, <1>9, <2>1, <3>2 DEF BooksInv, CacheSound, CarriesFresh
    <3> QED
      BY <3>1, <3>2
  <2> QED
    BY <2>1 DEF CarriesFresh
<1>13. QuietCacheFresh'
  <2>1. ASSUME NEW b \in DOMAIN balanceCache' \ (raced' \cup missed')
        PROVE  (\E d \in Poster : WillCache(d)' /\ b \in DOMAIN call'[d].seen) \/ balanceCache'[b] = balances'[b]
    <3>1. CASE b = a
      <4>1. balanceCache'[b] = call[c].seen[a] /\ a \in DOMAIN call[c].seen \ raced
        BY <1>1, <1>2, <2>1, <3>1
      <4>2. call[c].seen[a] = balances[a]
        BY <1>10, <4>1 DEF BooksInv, CacheSound, CarriesFresh
      <4> QED
        BY <1>1, <3>1, <4>1, <4>2
    <3>2. CASE b # a
      <4>1. b \in DOMAIN balanceCache \ (raced \cup missed) /\ balanceCache'[b] = balanceCache[b]
        BY <1>1, <1>2, <2>1, <3>2
      <4>2. (\E d \in Poster : WillCache(d) /\ b \in DOMAIN call[d].seen) \/ balanceCache[b] = balances[b]
        BY <4>1 DEF BooksInv, CacheSound, QuietCacheFresh
      <4>3. ASSUME NEW d \in Poster, WillCache(d), b \in DOMAIN call[d].seen
            PROVE  WillCache(d)' /\ b \in DOMAIN call'[d].seen
        <5>1. CASE d = c
          BY <1>3, <1>4, <1>11, <3>2, <4>3, <5>1
        <5>2. CASE d # c
          BY <1>4, <1>9, <4>3, <5>2
        <5> QED
          BY <5>1, <5>2
      <4> QED
        BY <1>1, <4>1, <4>2, <4>3
    <3> QED
      BY <3>1, <3>2
  <2> QED
    BY <2>1 DEF QuietCacheFresh
<1>14. CacheSound'
  BY <1>10, <1>12, <1>13 DEF CacheSound
<1>15. ReadersSound'
  <2>1. ReaderSound(c)'
    BY <1>3, <1>4, NotReading
  <2> QED
    BY <1>1, <1>4, <2>1, ReadersKept, StraightKept DEF BooksInv
<1> QED
  BY <1>5, <1>6, <1>7, <1>8, <1>14, <1>15 DEF BooksInv

\* Nobody moves.
LEMMA ReadersStill ==
  ASSUME ReadersSound, UNCHANGED <<legs, balances, call, begun, torn>>
  PROVE  ReadersSound'
<1>1. Straight' => Straight
  BY StraightKept
<1>2. ASSUME NEW d \in Poster PROVE ReaderSound(d)'
  <2>1. Reads(d)' = Reads(d) /\ AtOnce(d)' = AtOnce(d)
    BY DEF Reads, InState, AtOnce, AsRead
  <2> QED
    BY <1>1, <2>1 DEF ReadersSound, ReaderSound
<1> QED
  BY <1>2 DEF ReadersSound

\* A period only ever becomes closed: what was posted for it before stays posted, and
\* what was refused stays refused.
LEMMA CloseStepKeeps ==
  ASSUME BooksInv, NEW p \in Period, CloseStep(p)
  PROVE  BooksInv'
<1>1. UNCHANGED <<shardOf, legs, balances, lockedBy, balanceCache, call, begun, raced, missed, torn>>
  BY DEF CloseStep, SoftClose, BeginReconcile, Close, Lock, ClosePeriod, Engine, Books, Seen
<1>2. workflow' \in [Period -> {"Open", "SoftClose", "Reconciling", "Closed", "Locked"}]
  BY DEF CloseStep, SoftClose, BeginReconcile, Close, Lock, ClosePeriod, Advance, BooksInv, BooksType
<1>3. /\ closedIn' \in [Period -> {"none", "Closed", "Locked"}]
      /\ \A q \in Period : Closed(q) => Closed(q)'
  BY DEF CloseStep, SoftClose, BeginReconcile, Close, Lock, ClosePeriod, SetStatus, Closed, BooksInv, BooksType
<1>4. BooksType'
  BY <1>1, <1>2, <1>3 DEF BooksInv, BooksType
<1>5. PostsSound'
  <2>1. ASSUME NEW c \in Poster, Posting_(call'[c]) PROVE PostSound(call[c])'
    <3>1. PostSound(call[c])
      BY <1>1, <2>1 DEF BooksInv, PostsSound
    <3>2. PICK q \in Period : q = call[c].period
      BY <3>1 DEF PostSound
    <3>3. Closed(call[c].period) => Closed(call[c].period)'
      BY <1>1, <1>3, <3>2 DEF Closed
    <3> QED
      BY <1>1, <3>1, <3>3 DEF PostSound
  <2> QED
    BY <1>1, <2>1 DEF BooksInv, PostsSound, Posting_
<1>6. LocksSound'
  BY <1>1 DEF BooksInv, LocksSound, Posting_
<1>7. HistorySound'
  BY <1>1, HistoryKept DEF BooksInv
<1>8. CacheSound'
  BY <1>1 DEF BooksInv, CacheSound, CarriesFresh, QuietCacheFresh, WillCache, InState
<1>9. ReadersSound'
  BY <1>1, ReadersStill DEF BooksInv
<1> QED
  BY <1>4, <1>5, <1>6, <1>7, <1>8, <1>9 DEF BooksInv

-----------------------------------------------------------------------------
(* The theorem.                                                            *)

\* Empty books are sound: nothing is posted and the chart is in debit by nothing.
LEMMA BooksInit ==
  ASSUME JournalAssumption, AccountsAssumption, JInit
  PROVE  BooksInv
<1>1. /\ legs = [a \in Account |-> <<>>] /\ balances = [a \in Account |-> ZeroBalance]
      /\ \A a \in Account : legs[a] = <<>> /\ balances[a] = ZeroBalance
  BY DEF JInit
<1>2. ZeroBalance \in Balance /\ ZeroBalance.debits - ZeroBalance.credits = 0 /\ <<>> \in Seq(Leg)
  BY EmptySeq DEF ZeroBalance, Balance
<1>3. PICK r : r = Resting
  OBVIOUS
<1>4. CallType(r) /\ ~Posting_(r) /\ r.at = "idle"
  BY <1>3, RestingType
<1>5. call = [c \in Poster |-> r] /\ \A c \in Poster : call[c] = r
  BY <1>3 DEF JInit
<1>6. begun = <<>> /\ DOMAIN begun = {} /\ begun \in Seq(Begun)
  <2>1. <<>> \in Seq(Begun) /\ DOMAIN <<>> = {}
    BY EmptySeq
  <2> QED
    BY <2>1 DEF JInit
<1>7. DOMAIN balanceCache = {} /\ raced = {} /\ missed = {} /\ torn = {}
  BY DEF JInit, NoEntries
<1>8. BooksType
  <2>1. shardOf \in ShardMaps /\ shardOf \in [Account -> Shard]
    BY DEF JInit, JournalAssumption
  <2>2. lockedBy \in [Shard -> Poster \cup {Nobody}]
    BY DEF JInit
  <2>3. legs \in Logs /\ balances \in Running
    BY <1>1, <1>2 DEF Logs, Running
  <2>4. /\ workflow \in [Period -> {"Open", "SoftClose", "Reconciling", "Closed", "Locked"}]
        /\ closedIn \in [Period -> {"none", "Closed", "Locked"}]
    BY DEF JInit
  <2>5. call = [c \in Poster |-> call[c]] /\ \A c \in Poster : CallType(call[c])
    BY <1>4, <1>5
  <2> QED
    BY <1>6, <1>7, <2>1, <2>2, <2>3, <2>4, <2>5 DEF BooksType
<1>9. PostsSound
  BY <1>4, <1>5 DEF PostsSound
<1>10. LocksSound
  BY DEF JInit, JournalAssumption, LocksSound
<1>11. HistorySound
  <2>1. BalancesMatchLog
    BY <1>1, NothingReplayed DEF BalancesMatchLog
  <2>2. \A t : Places(legs, t) = {}
    <3>1. \A a \in Account : DOMAIN legs[a] = {}
      BY <1>1
    <3> QED
      BY <3>1 DEF Places
  <2>3. Sum(Net(balances), Chart) = 0
    <3>1. PICK net \in [Account -> Int] : net = Net(balances)
      BY <1>8, NetType DEF BooksType
    <3>2. \A a \in Account : net[a] = 0
      BY <1>1, <1>2, <3>1 DEF Net
    <3>3. IsFiniteSet(Account) /\ Chart \in SUBSET Account
      BY DEF JournalAssumption, AccountsAssumption
    <3> QED
      BY <3>1, <3>2, <3>3, SumNothing
  <2> QED
    BY <1>6, <2>1, <2>2, <2>3 DEF HistorySound, WholeUnlessRepeated, ClosedRejectsLater
<1>12. CacheSound
  <2>1. \A c \in Poster : ~WillCache(c) /\ ~InState(c, "cache")
    BY <1>4, <1>5 DEF WillCache, InState
  <2> QED
    BY <1>7, <2>1 DEF CacheSound, CarriesFresh, QuietCacheFresh
<1>13. ReadersSound
  BY <1>4, <1>5 DEF ReadersSound, ReaderSound, Reads, InState
<1> QED
  BY <1>8, <1>9, <1>10, <1>11, <1>12, <1>13 DEF BooksInv

\* Every step keeps the invariant.
LEMMA BooksStep ==
  ASSUME JournalAssumption, AccountsAssumption, BooksInv, [JNext]_jvars
  PROVE  BooksInv'
<1>1. ASSUME NEW c \in Poster, PostStep(c) PROVE BooksInv'
  <2>1. ASSUME NEW es \in Offered, NEW p \in Period, NEW g, StartPost(c, es, p, g) PROVE BooksInv'
    BY <2>1, StartPostKeeps
  <2>2. ASSUME NEW scope, StartRebuild(c, scope) PROVE BooksInv'
    BY <2>2, StartRebuildKeeps
  <2>3. ASSUME NEW p \in Period, StartClosing(c, p) PROVE BooksInv'
    BY <2>3, StartClosingKeeps
  <2>4. CASE StartStatement(c)
    BY <2>4, StartStatementKeeps
  <2> QED
    BY <1>1, <2>1, <2>2, <2>3, <2>4 DEF PostStep
<1>2. ASSUME NEW c \in Poster, Continue(c) PROVE BooksInv'
  <2>1. CASE LockNext(c)
    BY <2>1, LockNextKeeps
  <2>2. CASE CheckPeriod(c)
    BY <2>2, CheckPeriodKeeps
  <2>3. CASE AppendLegs(c)
    BY <2>3, AppendLegsKeeps
  <2>4. ASSUME NEW a \in Account, WriteBalance(c, a) PROVE BooksInv'
    BY <2>4, WriteBalanceKeeps
  <2>5. ASSUME NEW a \in Account, ReadTemporary(c, a) PROVE BooksInv'
    BY <2>5, ReadTemporaryKeeps
  <2>6. CASE ReadShard(c)
    BY <2>6, ReadShardKeeps
  <2>7. CASE EndRebuild(c)
    BY <2>7, EndRebuildKeeps
  <2>8. CASE PostClosing(c)
    BY <2>8, PostClosingKeeps
  <2>9. ASSUME NEW a \in Account, ReadAccount(c, a) PROVE BooksInv'
    BY <2>9, ReadAccountKeeps
  <2>10. CASE EndStatement(c)
    BY <2>10, EndStatementKeeps
  <2> QED
    BY <1>2, <2>1, <2>2, <2>3, <2>4, <2>5, <2>6, <2>7, <2>8, <2>9, <2>10 DEF Continue
<1>3. ASSUME NEW p \in Period, CloseStep(p) PROVE BooksInv'
  BY <1>3, CloseStepKeeps
<1>4. CASE UNCHANGED jvars
  <2>1. UNCHANGED <<shardOf, legs, balances, lockedBy, closedIn, workflow, balanceCache, call, begun, raced, missed, torn>>
    BY <1>4 DEF jvars
  <2>2. BooksType' /\ LocksSound'
    BY <2>1 DEF BooksInv, BooksType, LocksSound, Posting_
  <2>3. PostsSound'
    BY <2>1 DEF BooksInv, PostsSound, PostSound, Posting_, Closed
  <2>4. HistorySound'
    BY <2>1, HistoryKept DEF BooksInv
  <2>5. CacheSound'
    BY <2>1 DEF BooksInv, CacheSound, CarriesFresh, QuietCacheFresh, WillCache, InState
  <2>6. ReadersSound'
    BY <2>1, ReadersStill DEF BooksInv
  <2> QED
    BY <2>2, <2>3, <2>4, <2>5, <2>6 DEF BooksInv
<1> QED
  BY <1>1, <1>2, <1>3, <1>4 DEF JNext

\* The general ledger keeps its promises for any accounts, hash of them to shards, posters
\* and entries offered: balances follow the log, a post is whole unless it is guarded and
\* names an account twice, a closed period takes nothing begun later, the cache settles
\* on the balance but for a put that failed or was skipped, closings post, statements no
\* post crosses balance, and posts cannot wait in a circle
\* when no two accounts share a shard (journal.rs:10-12, 260-261, 277-279, 353-370).
THEOREM LedgerStands == JSpec => []LedgerHolds
<1>1. JInit => BooksInv
  BY JournalAssumption, AccountsAssumption, BooksInit
<1>2. BooksInv /\ [JNext]_jvars => BooksInv'
  BY JournalAssumption, AccountsAssumption, BooksStep
<1>3. BooksInv => LedgerHolds
  BY JournalAssumption, AccountsAssumption, InvariantSays
<1> QED
  BY <1>1, <1>2, <1>3, PTL DEF JSpec

-----------------------------------------------------------------------------
(* Consolidation.  A group's rows, and the result eliminate builds.        *)

GroupRows == [Rows -> Balance]
GroupEntry == [account : {r[2] : r \in Rows}, side : EntrySide, amount : Int]
Elimination == [rows : GroupRows, entries : Seq(GroupEntry), total : Int]
Pair == DueFrom \X DueTo

\* What a pair joins: two rows of different kinds, one owed and one owing.
LEMMA PairIs ==
  ASSUME NEW p \in Pair
  PROVE  /\ p[1] \in Rows /\ p[2] \in Rows /\ p[1] # p[2] /\ p = <<p[1], p[2]>>
         /\ \A rows \in GroupRows :
              /\ RowSigned(rows, p[1]) = rows[p[1]].debits - rows[p[1]].credits
              /\ RowSigned(rows, p[2]) = rows[p[2]].credits - rows[p[2]].debits
<1>1. p[1] \in DueFrom /\ p[2] \in DueTo /\ p = <<p[1], p[2]>>
  BY DEF Pair
<1>2. p[1] \in Rows /\ p[2] \in Rows
  BY <1>1 DEF DueFrom, DueTo, Tagged
<1>3. NormalSide(RowKind(p[1])) = "Debit" /\ NormalSide(RowKind(p[2])) = "Credit"
  BY <1>1 DEF DueFrom, DueTo, NormalSide
<1> QED
  BY <1>1, <1>2, <1>3 DEF RowSigned, Signed

LEMMA SignedInt ==
  ASSUME NEW rows \in GroupRows, NEW r \in Rows
  PROVE  RowSigned(rows, r) \in Int
<1>1. rows[r] \in Balance
  BY DEF GroupRows
<1> QED
  BY <1>1 DEF RowSigned, Signed, Balance

LEMMA OverlapIs ==
  ASSUME NEW rows \in GroupRows, NEW p \in Pair
  PROVE  LET a == RowSigned(rows, p[1])
             b == RowSigned(rows, p[2])
             m == IF a <= b THEN a ELSE b
         IN a \in Int /\ b \in Int /\ Overlap(rows, p) = IF m > 0 THEN m ELSE 0
<1>1. p[1] \in Rows /\ p[2] \in Rows
  BY PairIs
<1>2. PICK a \in Int : a = RowSigned(rows, p[1])
  BY <1>1, SignedInt
<1>3. PICK b \in Int : b = RowSigned(rows, p[2])
  BY <1>1, SignedInt
<1>4. Overlap(rows, p) = IF Min({a, b}) > 0 THEN Min({a, b}) ELSE 0
  BY <1>2, <1>3 DEF Overlap
<1>5. Min({a, b}) = IF a <= b THEN a ELSE b
  BY LesserOfTwo
<1> QED
  BY <1>2, <1>3, <1>4, <1>5

\* The rows after an amount was taken from the two of a pair.
Reduced(rows, p, amount) ==
  [rows EXCEPT ![p[1]].debits = @ - amount, ![p[2]].credits = @ - amount]

LEMMA ReducedIs ==
  ASSUME NEW rows \in GroupRows, NEW p \in Pair, NEW amount \in Int
  PROVE  /\ Reduced(rows, p, amount) \in GroupRows
         /\ \A r \in Rows :
              /\ Reduced(rows, p, amount)[r].debits
                   = IF r = p[1] THEN rows[r].debits - amount ELSE rows[r].debits
              /\ Reduced(rows, p, amount)[r].credits
                   = IF r = p[2] THEN rows[r].credits - amount ELSE rows[r].credits
<1>1. p[1] \in Rows /\ p[2] \in Rows /\ p[1] # p[2]
  BY PairIs
<1>2. \A r \in Rows : rows[r] \in Balance
  BY DEF GroupRows
<1>3. DOMAIN rows = Rows
  BY DEF GroupRows
<1>4. PICK one : one = [rows[p[1]] EXCEPT !.debits = @ - amount]
  OBVIOUS
<1>5. one \in Balance /\ one.debits = rows[p[1]].debits - amount /\ one.credits = rows[p[1]].credits
  BY <1>1, <1>2, <1>4 DEF Balance
<1>6. PICK two : two = [rows[p[2]] EXCEPT !.credits = @ - amount]
  OBVIOUS
<1>7. two \in Balance /\ two.credits = rows[p[2]].credits - amount /\ two.debits = rows[p[2]].debits
  BY <1>1, <1>2, <1>6 DEF Balance
<1>8. PICK mid : mid = [rows EXCEPT ![p[1]] = one]
  OBVIOUS
<1>9. PICK out : out = [mid EXCEPT ![p[2]] = two]
  OBVIOUS
<1>10. mid \in GroupRows /\ mid[p[1]] = one /\ \A r \in Rows \ {p[1]} : mid[r] = rows[r]
  BY <1>1, <1>5, <1>8 DEF GroupRows
<1>11. out \in GroupRows /\ out[p[2]] = two /\ \A r \in Rows \ {p[2]} : out[r] = mid[r]
  BY <1>1, <1>7, <1>9, <1>10 DEF GroupRows
<1>12. out = Reduced(rows, p, amount)
  <2>1. mid = [rows EXCEPT ![p[1]].debits = @ - amount]
    BY <1>4, <1>8
  <2>2. out = [mid EXCEPT ![p[2]].credits = @ - amount]
    <3>1. mid[p[2]] = rows[p[2]]
      BY <1>1, <1>10
    <3> QED
      BY <1>6, <1>9, <3>1
  <2> QED
    BY <2>1, <2>2 DEF Reduced
<1>13. ASSUME NEW r \in Rows
       PROVE  /\ out[r].debits = IF r = p[1] THEN rows[r].debits - amount ELSE rows[r].debits
              /\ out[r].credits = IF r = p[2] THEN rows[r].credits - amount ELSE rows[r].credits
  <2>1. CASE r = p[1]
    BY <1>1, <1>5, <1>10, <1>11, <2>1
  <2>2. CASE r = p[2]
    BY <1>1, <1>7, <1>10, <1>11, <2>2
  <2>3. CASE r # p[1] /\ r # p[2]
    BY <1>10, <1>11, <2>3
  <2> QED
    BY <2>1, <2>2, <2>3
<1> QED
  BY <1>11, <1>12, <1>13

\* The totals of a group's rows are sums of a function on rows.
LEMMA GroupSums ==
  ASSUME IsFiniteSet(Rows), NEW rows \in GroupRows,
         NEW f \in [Rows -> Int], NEW h \in [Rows -> Int],
         \A r \in Rows : f[r] = rows[r].debits, \A r \in Rows : h[r] = rows[r].credits
  PROVE  Debits(rows) = Sum(f, Rows) /\ Credits(rows) = Sum(h, Rows)
<1>1. DOMAIN rows = Rows
  BY DEF GroupRows
<1>2. MapThenSumSet(LAMBDA a : rows[a].debits, Rows) = Sum(f, Rows)
  BY DebitsAdd
<1>3. MapThenSumSet(LAMBDA a : rows[a].credits, Rows) = Sum(h, Rows)
  BY CreditsAdd
<1> QED
  BY <1>1, <1>2, <1>3 DEF Debits, Credits

\* An amount taken from both rows of a pair leaves the difference of the totals.
LEMMA ReducedTotals ==
  ASSUME IsFiniteSet(Rows), NEW rows \in GroupRows, NEW p \in Pair, NEW amount \in Int
  PROVE  /\ Reduced(rows, p, amount) \in GroupRows
         /\ Debits(Reduced(rows, p, amount)) - Credits(Reduced(rows, p, amount))
              = Debits(rows) - Credits(rows)
<1>1. p[1] \in Rows /\ p[2] \in Rows
  BY PairIs
<1>2. PICK out : out = Reduced(rows, p, amount)
  OBVIOUS
<1>3. \A r \in Rows : rows[r].debits \in Int /\ rows[r].credits \in Int
  BY DEF GroupRows, Balance
<1>4. out \in GroupRows
  BY <1>2, ReducedIs
<1>5. PICK f : f = [r \in Rows |-> rows[r].debits]
  OBVIOUS
<1>6. PICK h : h = [r \in Rows |-> rows[r].credits]
  OBVIOUS
<1>7. PICK f1 : f1 = [r \in Rows |-> out[r].debits]
  OBVIOUS
<1>8. PICK h1 : h1 = [r \in Rows |-> out[r].credits]
  OBVIOUS
<1>9. \A r \in Rows : out[r].debits \in Int /\ out[r].credits \in Int
  BY <1>4 DEF GroupRows, Balance
<1>10. f \in [Rows -> Int] /\ h \in [Rows -> Int] /\ f1 \in [Rows -> Int] /\ h1 \in [Rows -> Int]
  BY <1>3, <1>5, <1>6, <1>7, <1>8, <1>9
<1>11. /\ \A r \in Rows \ {p[1]} : f1[r] = f[r]
       /\ \A r \in Rows \ {p[2]} : h1[r] = h[r]
       /\ f1[p[1]] - f[p[1]] = -amount /\ h1[p[2]] - h[p[2]] = -amount
  <2>1. /\ \A r \in Rows : out[r].debits = IF r = p[1] THEN rows[r].debits - amount ELSE rows[r].debits
        /\ \A r \in Rows : out[r].credits = IF r = p[2] THEN rows[r].credits - amount ELSE rows[r].credits
    BY <1>2, ReducedIs
  <2> QED
    BY <1>1, <1>3, <1>5, <1>6, <1>7, <1>8, <2>1
<1>12. Debits(rows) = Sum(f, Rows) /\ Credits(rows) = Sum(h, Rows)
  <2>1. (\A r \in Rows : f[r] = rows[r].debits) /\ (\A r \in Rows : h[r] = rows[r].credits)
    BY <1>5, <1>6
  <2> QED
    BY <1>10, <2>1, GroupSums
<1>13. Debits(out) = Sum(f1, Rows) /\ Credits(out) = Sum(h1, Rows)
  <2>1. (\A r \in Rows : f1[r] = out[r].debits) /\ (\A r \in Rows : h1[r] = out[r].credits)
    BY <1>7, <1>8
  <2> QED
    BY <1>4, <1>10, <2>1, GroupSums
<1>14. Sum(f1, Rows) = Sum(f, Rows) + (f1[p[1]] - f[p[1]])
  BY <1>1, <1>10, <1>11, SumChanged
<1>15. Sum(h1, Rows) = Sum(h, Rows) + (h1[p[2]] - h[p[2]])
  BY <1>1, <1>10, <1>11, SumChanged
<1>16. Sum(f, Rows) \in Int /\ Sum(h, Rows) \in Int
  BY <1>10, SumOne
<1> QED
  BY <1>2, <1>4, <1>11, <1>12, <1>13, <1>14, <1>15, <1>16

\* A balance stays, or comes closer to zero from above.
Shrinks(new, old) ==
  \A r \in Rows : \/ RowSigned(new, r) = RowSigned(old, r)
                  \/ RowSigned(new, r) \in 0..RowSigned(old, r)

\* What was left of a pair's overlap is not brought back by shrinking.
LEMMA OverlapShrinks ==
  ASSUME NEW old \in GroupRows, NEW new \in GroupRows, Shrinks(new, old),
         NEW p \in Pair, Overlap(old, p) = 0
  PROVE  Overlap(new, p) = 0
<1>1. p[1] \in Rows /\ p[2] \in Rows
  BY PairIs
<1>2. PICK a \in Int, b \in Int : a = RowSigned(old, p[1]) /\ b = RowSigned(old, p[2])
  BY <1>1, SignedInt
<1>3. PICK c \in Int, d \in Int : c = RowSigned(new, p[1]) /\ d = RowSigned(new, p[2])
  BY <1>1, SignedInt
<1>4. 0 = LET m == IF a <= b THEN a ELSE b IN IF m > 0 THEN m ELSE 0
  BY <1>2, OverlapIs
<1>5. Overlap(new, p) = LET m == IF c <= d THEN c ELSE d IN IF m > 0 THEN m ELSE 0
  BY <1>3, OverlapIs
<1>6. (c = a \/ c \in 0..a) /\ (d = b \/ d \in 0..b)
  BY <1>1, <1>2, <1>3 DEF Shrinks
<1> QED
  BY <1>4, <1>5, <1>6

LEMMA ShrinksOn ==
  ASSUME NEW a \in GroupRows, NEW b \in GroupRows, NEW c \in GroupRows, Shrinks(b, a), Shrinks(c, b)
  PROVE  Shrinks(c, a)
<1> SUFFICES ASSUME NEW r \in Rows
             PROVE  RowSigned(c, r) = RowSigned(a, r) \/ RowSigned(c, r) \in 0..RowSigned(a, r)
  BY DEF Shrinks
<1>1. PICK x \in Int, y \in Int, z \in Int :
        x = RowSigned(a, r) /\ y = RowSigned(b, r) /\ z = RowSigned(c, r)
  BY SignedInt
<1>2. (y = x \/ y \in 0..x) /\ (z = y \/ z \in 0..y)
  BY <1>1 DEF Shrinks
<1> QED
  BY <1>1, <1>2

\* The entries of an elimination balance, and their debits are its total.
EntriesEven(res) == BalancedEntries(res.entries) /\ res.total = Total(res.entries, "Debit")

LEMMA TwoEntries ==
  ASSUME NEW entries \in Seq(GroupEntry), NEW x \in GroupEntry, NEW y \in GroupEntry,
         x.side = "Credit", y.side = "Debit"
  PROVE  /\ Append(Append(entries, x), y) \in Seq(GroupEntry)
         /\ Total(Append(Append(entries, x), y), "Debit") = Total(entries, "Debit") + y.amount
         /\ Total(Append(Append(entries, x), y), "Credit") = Total(entries, "Credit") + x.amount
<1>1. \A e \in GroupEntry : e.amount \in Int
  BY DEF GroupEntry
<1>2. PICK more : more = Append(entries, x)
  OBVIOUS
<1>3. more \in Seq(GroupEntry)
  BY <1>2, AppendProperties
<1>4. Append(more, y) \in Seq(GroupEntry)
  BY <1>3, AppendProperties
<1>5. Total(Append(more, y), "Debit") = Total(more, "Debit") + y.amount
  BY <1>1, <1>3, TotalGrows
<1>6. Total(Append(more, y), "Credit") = Total(more, "Credit") + 0
  BY <1>1, <1>3, TotalGrows
<1>7. Total(more, "Debit") = Total(entries, "Debit") + 0
  BY <1>1, <1>2, TotalGrows
<1>8. Total(more, "Credit") = Total(entries, "Credit") + x.amount
  BY <1>1, <1>2, TotalGrows
<1>9. Total(entries, "Debit") \in Int /\ Total(entries, "Credit") \in Int /\ x.amount \in Int
  BY <1>1, TotalGrows
<1> QED
  BY <1>2, <1>4, <1>5, <1>6, <1>7, <1>8, <1>9

\* One turn of the loop.
LEMMA OneEliminates ==
  ASSUME IsFiniteSet(Rows), NEW res \in Elimination, NEW p \in Pair, NEW out, out = EliminateOne(res, p)
  PROVE  /\ out \in Elimination
         /\ Debits(out.rows) - Credits(out.rows) = Debits(res.rows) - Credits(res.rows)
         /\ EntriesEven(res) => EntriesEven(out)
         /\ Shrinks(out.rows, res.rows) /\ Overlap(out.rows, p) = 0
<1>1. res.rows \in GroupRows /\ res.entries \in Seq(GroupEntry) /\ res.total \in Int
  BY DEF Elimination
<1>2. p[1] \in Rows /\ p[2] \in Rows /\ p[1] # p[2]
  BY PairIs
<1>3. PICK a \in Int, b \in Int : a = RowSigned(res.rows, p[1]) /\ b = RowSigned(res.rows, p[2])
  BY <1>1, <1>2, SignedInt
<1>4. PICK amount \in Int :
        /\ amount = Overlap(res.rows, p)
        /\ amount = LET m == IF a <= b THEN a ELSE b IN IF m > 0 THEN m ELSE 0
  BY <1>1, <1>3, OverlapIs
<1>5. CASE amount = 0
  <2>1. out = res
    BY <1>4, <1>5 DEF EliminateOne
  <2>2. Shrinks(res.rows, res.rows)
    BY DEF Shrinks
  <2> QED
    BY <1>4, <1>5, <2>1, <2>2
<1>6. CASE amount # 0
  <2>1. PICK x : x = [account |-> p[1][2], side |-> "Credit", amount |-> amount]
    OBVIOUS
  <2>2. PICK y : y = [account |-> p[2][2], side |-> "Debit", amount |-> amount]
    OBVIOUS
  <2>3. x \in GroupEntry /\ y \in GroupEntry /\ x.side = "Credit" /\ y.side = "Debit"
        /\ x.amount = amount /\ y.amount = amount
    BY <1>2, <2>1, <2>2 DEF GroupEntry, EntrySide
  <2>4. PICK rows : rows = Reduced(res.rows, p, amount)
    OBVIOUS
  <2>5. out = [rows |-> rows, entries |-> Append(Append(res.entries, x), y), total |-> res.total + amount]
    BY <1>4, <1>6, <2>1, <2>2, <2>4 DEF EliminateOne, Reduced
  <2>6. rows \in GroupRows /\ Debits(rows) - Credits(rows) = Debits(res.rows) - Credits(res.rows)
    BY <1>1, <2>4, ReducedTotals
  <2>7. /\ \A r \in Rows : rows[r].debits = IF r = p[1] THEN res.rows[r].debits - amount ELSE res.rows[r].debits
        /\ \A r \in Rows : rows[r].credits = IF r = p[2] THEN res.rows[r].credits - amount ELSE res.rows[r].credits
    <3>1. PICK first \in GroupRows : first = res.rows
      BY <1>1
    <3>2. rows = Reduced(first, p, amount)
      BY <2>4, <3>1
    <3>3. \A r \in Rows : rows[r].debits = IF r = p[1] THEN first[r].debits - amount ELSE first[r].debits
      BY <3>2, ReducedIs, Zenon
    <3>4. \A r \in Rows : rows[r].credits = IF r = p[2] THEN first[r].credits - amount ELSE first[r].credits
      BY <3>2, ReducedIs, Zenon
    <3> QED
      BY <3>1, <3>3, <3>4
  <2>8. /\ Append(Append(res.entries, x), y) \in Seq(GroupEntry)
        /\ Total(Append(Append(res.entries, x), y), "Debit") = Total(res.entries, "Debit") + amount
        /\ Total(Append(Append(res.entries, x), y), "Credit") = Total(res.entries, "Credit") + amount
    BY <1>1, <2>3, TwoEntries
  <2>9. out \in Elimination /\ out.rows = rows
    <3>1. res.total + amount \in Int
      BY <1>1, <1>4
    <3> QED
      BY <2>5, <2>6, <2>8, <3>1 DEF Elimination
  <2>10. EntriesEven(res) => EntriesEven(out)
    BY <2>5, <2>8 DEF EntriesEven, BalancedEntries
  <2>11. PICK c \in Int, d \in Int : c = RowSigned(rows, p[1]) /\ d = RowSigned(rows, p[2])
    BY <1>2, <2>6, SignedInt
  <2>12. c = a - amount /\ d = b - amount
    <3>1. a = res.rows[p[1]].debits - res.rows[p[1]].credits /\ b = res.rows[p[2]].credits - res.rows[p[2]].debits
      BY <1>1, <1>3, PairIs
    <3>2. c = rows[p[1]].debits - rows[p[1]].credits /\ d = rows[p[2]].credits - rows[p[2]].debits
      BY <2>6, <2>11, PairIs
    <3>3. \A r \in Rows : res.rows[r].debits \in Int /\ res.rows[r].credits \in Int
      BY <1>1 DEF GroupRows, Balance
    <3> QED
      BY <1>2, <2>7, <3>1, <3>2, <3>3
  <2>13. Overlap(rows, p) = 0
    <3>1. Overlap(rows, p) = LET m == IF c <= d THEN c ELSE d IN IF m > 0 THEN m ELSE 0
      BY <2>6, <2>11, OverlapIs
    <3> QED
      BY <1>4, <2>12, <3>1
  <2>14. Shrinks(rows, res.rows)
    <3>1. ASSUME NEW r \in Rows, r # p[1], r # p[2] PROVE RowSigned(rows, r) = RowSigned(res.rows, r)
      <4>1. rows[r].debits = res.rows[r].debits /\ rows[r].credits = res.rows[r].credits
        BY <2>7, <3>1
      <4> QED
        BY <4>1 DEF RowSigned, Signed
    <3>2. c \in 0..a /\ d \in 0..b
      BY <1>4, <1>6, <2>12
    <3>3. ASSUME NEW r \in Rows
          PROVE  RowSigned(rows, r) = RowSigned(res.rows, r) \/ RowSigned(rows, r) \in 0..RowSigned(res.rows, r)
      <4>1. r = p[1] \/ r = p[2] \/ (r # p[1] /\ r # p[2])
        OBVIOUS
      <4> QED
        BY <1>3, <2>11, <3>1, <3>2, <4>1
    <3> QED
      BY <3>3 DEF Shrinks
  <2> QED
    BY <2>6, <2>9, <2>10, <2>13, <2>14
<1> QED
  BY <1>5, <1>6

\* The loop, turn by turn.
LEMMA EliminatedChain ==
  ASSUME IsFiniteSet(Rows), NEW rows \in GroupRows, NEW ps \in Seq(Pair)
  PROVE  \E r \in [0..Len(ps) -> Elimination] :
           /\ r[0] = [rows |-> rows, entries |-> <<>>, total |-> 0]
           /\ \A i \in 1..Len(ps) : r[i] = EliminateOne(r[i - 1], ps[i])
           /\ Eliminated(rows, ps) = r[Len(ps)]
<1> DEFINE N == Len(ps)
           base == [rows |-> rows, entries |-> <<>>, total |-> 0]
           F == [i \in 1..N |-> [t \in Elimination |-> EliminateOne(t, ps[i])]]
           Body(h, s) == IF s = {} THEN base ELSE EliminateOne(h[s \ {Max(s)}], ps[Max(s)])
           iter == CHOOSE h : h = [s \in SUBSET (DOMAIN ps) |-> Body(h, s)]
<1>1. N \in Nat /\ DOMAIN ps = 1..N /\ \A i \in 1..N : ps[i] \in Pair
  BY ElementOfSeq
<1>2. Eliminated(rows, ps) = iter[DOMAIN ps]
  BY DEF Eliminated, FoldLeft, MapThenFoldSet
<1>3. F \in [1..N -> [Elimination -> Elimination]]
  <2>1. ASSUME NEW i \in 1..N, NEW t \in Elimination PROVE EliminateOne(t, ps[i]) \in Elimination
    BY <1>1, OneEliminates
  <2> QED
    BY <2>1
<1>4. \A s \in (SUBSET (1..N)) \ {{}} : Max(s) \in 1..N /\ s \ {Max(s)} \in SUBSET (1..N)
  <2>1. ASSUME NEW s \in (SUBSET (1..N)) \ {{}} PROVE Max(s) \in s
    <3>1. s \subseteq 0..N /\ s # {}
      OBVIOUS
    <3> QED
      BY <1>1, <3>1, Greatest
  <2> QED
    BY <2>1
<1>5. \A h, s : s \in (SUBSET (1..N)) \ {{}} /\ h[s \ {Max(s)}] \in Elimination
                => F[Max(s)][h[s \ {Max(s)}]] = Body(h, s)
  BY <1>4
<1>6. \A h : Body(h, {}) = base
  OBVIOUS
<1>7. base \in Elimination
  BY EmptySeq DEF Elimination
<1> HIDE DEF Body, F, N, iter, base
<1>8. Foldable(N, Elimination, F, base)
  BY <1>1, <1>3, <1>7, FoldRule
<1>9. PICK g \in [SUBSET (1..N) -> Elimination], r \in [0..N -> Elimination] :
        /\ Unfolds(g, N, F, base) /\ Chain(r, N, F, base)
        /\ \A h : Follows(h, N, Elimination, F, base) => h[1..N] = r[N]
  BY <1>8 DEF Foldable
<1>10. g = [s \in SUBSET (DOMAIN ps) |-> Body(g, s)]
  <2>1. ASSUME NEW s \in SUBSET (1..N) PROVE g[s] = Body(g, s)
    <3>1. CASE s = {}
      BY <1>6, <1>9, <3>1 DEF Unfolds
    <3>2. CASE s # {}
      <4>1. g[s \ {Max(s)}] \in Elimination
        BY <1>4, <1>9, <3>2
      <4> QED
        BY <1>5, <1>9, <3>2, <4>1 DEF Unfolds
    <3> QED
      BY <3>1, <3>2
  <2> QED
    BY <1>1, <2>1
<1>11. iter = [s \in SUBSET (DOMAIN ps) |-> Body(iter, s)]
  BY <1>10 DEF iter
<1>12. Follows(iter, N, Elimination, F, base)
  <2>1. iter[{}] = base
    BY <1>1, <1>6, <1>11
  <2>2. ASSUME NEW s \in (SUBSET (1..N)) \ {{}}, iter[s \ {Max(s)}] \in Elimination
        PROVE  iter[s] = F[Max(s)][iter[s \ {Max(s)}]]
    <3>1. iter[s] = Body(iter, s)
      BY <1>1, <1>11
    <3> QED
      BY <1>5, <2>2, <3>1
  <2> QED
    BY <2>1, <2>2 DEF Follows
<1>13. iter[1..N] = r[N]
  BY <1>9, <1>12
<1>14. \A i \in 1..N : r[i] = EliminateOne(r[i - 1], ps[i])
  <2>1. ASSUME NEW i \in 1..N PROVE r[i] = EliminateOne(r[i - 1], ps[i])
    <3>1. i - 1 \in 0..N /\ r[i - 1] \in Elimination
      BY <1>1, <1>9
    <3> QED
      BY <1>9, <3>1 DEF Chain, F
  <2> QED
    BY <2>1
<1> QED
  BY <1>1, <1>2, <1>9, <1>13, <1>14 DEF Chain, N, base

\* A turn keeps what the turns before it left.
TurnsKept(res, rows, ps, k) ==
  /\ Debits(res.rows) - Credits(res.rows) = Debits(rows) - Credits(rows)
  /\ EntriesEven(res) /\ Shrinks(res.rows, rows)
  /\ \A i \in 1..k : Overlap(res.rows, ps[i]) = 0

LEMMA TurnKeeps ==
  ASSUME IsFiniteSet(Rows), NEW rows \in GroupRows, NEW ps, NEW k \in Nat \ {0},
         \A i \in 1..k : ps[i] \in Pair,
         NEW prior \in Elimination, TurnsKept(prior, rows, ps, k - 1),
         NEW p \in Pair, p = ps[k], NEW out, out = EliminateOne(prior, p)
  PROVE  TurnsKept(out, rows, ps, k)
<1>1. /\ out \in Elimination
      /\ Debits(out.rows) - Credits(out.rows) = Debits(prior.rows) - Credits(prior.rows)
      /\ EntriesEven(prior) => EntriesEven(out)
      /\ Shrinks(out.rows, prior.rows) /\ Overlap(out.rows, p) = 0
  BY OneEliminates
<1>2. prior.rows \in GroupRows /\ out.rows \in GroupRows
  BY <1>1 DEF Elimination
<1>3. /\ Debits(prior.rows) - Credits(prior.rows) = Debits(rows) - Credits(rows)
      /\ EntriesEven(prior) /\ Shrinks(prior.rows, rows)
      /\ \A i \in 1..(k - 1) : Overlap(prior.rows, ps[i]) = 0
  BY DEF TurnsKept
<1>4. Shrinks(out.rows, rows)
  BY <1>1, <1>2, <1>3, ShrinksOn
<1>5. ASSUME NEW i \in 1..k PROVE Overlap(out.rows, ps[i]) = 0
  <2>1. CASE i = k
    BY <1>1, <2>1
  <2>2. CASE i # k
    <3>1. i \in 1..(k - 1)
      BY <2>2
    <3>2. ps[i] \in Pair /\ Overlap(prior.rows, ps[i]) = 0
      BY <1>3, <3>1
    <3> QED
      BY <1>1, <1>2, <3>2, OverlapShrinks
  <2> QED
    BY <2>1, <2>2
<1> QED
  BY <1>1, <1>3, <1>4, <1>5 DEF TurnsKept

\* What eliminate returns, for any rows and any pairs.
LEMMA EliminationSound ==
  ASSUME IsFiniteSet(Rows), NEW rows \in GroupRows, NEW ps \in Seq(Pair),
         NEW res, res = Eliminated(rows, ps)
  PROVE  /\ res \in Elimination
         /\ Debits(res.rows) - Credits(res.rows) = Debits(rows) - Credits(rows)
         /\ EntriesEven(res) /\ Shrinks(res.rows, rows)
         /\ \A i \in 1..Len(ps) : Overlap(res.rows, ps[i]) = 0
<1>1. PICK n \in Nat : n = Len(ps) /\ \A i \in 1..n : ps[i] \in Pair
  BY ElementOfSeq
<1>2. PICK r \in [0..n -> Elimination] :
        /\ r[0] = [rows |-> rows, entries |-> <<>>, total |-> 0]
        /\ \A i \in 1..n : r[i] = EliminateOne(r[i - 1], ps[i])
        /\ res = r[n]
  BY <1>1, EliminatedChain
<1> DEFINE Good(k) == TurnsKept(r[k], rows, ps, k)
<1>3. Good(0)
  <2>1. Shrinks(rows, rows)
    BY DEF Shrinks
  <2>2. EntriesEven(r[0])
    <3>1. \A e \in GroupEntry : e.amount \in Int
      BY DEF GroupEntry
    <3>2. PICK none \in Seq(GroupEntry) : none = <<>> /\ Len(none) = 0
      BY EmptySeq
    <3>3. ASSUME NEW side PROVE Total(none, side) = 0
      <4>1. PICK q \in [0..Len(none) -> Int] :
              /\ q[0] = 0 /\ \A i \in 1..Len(none) : q[i] = (IF none[i].side = side THEN q[i - 1] + none[i].amount ELSE q[i - 1])
              /\ Total(none, side) = q[Len(none)]
        BY <3>1, TotalChain
      <4> QED
        BY <3>2, <4>1
    <3> QED
      BY <1>2, <3>2, <3>3 DEF EntriesEven, BalancedEntries
  <2>3. r[0].rows = rows
    BY <1>2
  <2>4. 1..0 = {}
    OBVIOUS
  <2> QED
    BY <2>1, <2>2, <2>3, <2>4 DEF TurnsKept
<1>4. ASSUME NEW k \in 1..n, Good(k - 1) PROVE Good(k)
  <2>1. k - 1 \in 0..n /\ k \in Nat \ {0} /\ \A i \in 1..k : ps[i] \in Pair
    BY <1>1
  <2>2. PICK prior \in Elimination, p \in Pair : prior = r[k - 1] /\ p = ps[k] /\ r[k] = EliminateOne(prior, p)
    BY <1>1, <1>2, <2>1
  <2>3. TurnsKept(prior, rows, ps, k - 1)
    BY <1>4, <2>2
  <2> QED
    BY <2>1, <2>2, <2>3, TurnKeeps
<1>5. Good(n)
  <2> DEFINE Bad == {k \in 0..n : ~Good(k)}
  <2> HIDE DEF Good
  <2>1. SUFFICES ASSUME Bad # {} PROVE FALSE
    BY <1>1
  <2>2. PICK k \in Bad : \A y \in Bad : k <= y
    <3>1. Bad \subseteq Nat
      OBVIOUS
    <3> HIDE DEF Bad
    <3> QED
      BY <2>1, <3>1, Least
  <2>3. k # 0 /\ k \in 0..n
    BY <1>3, <2>2
  <2>4. k \in 1..n /\ k - 1 \in 0..n /\ k - 1 < k
    BY <1>1, <2>3
  <2>5. Good(k - 1)
    BY <2>2, <2>4
  <2> QED
    BY <1>4, <2>2, <2>4, <2>5
<1> QED
  BY <1>1, <1>2, <1>5 DEF TurnsKept

\* Rows in the order of their entities and accounts.
LEMMA RowsOrdered ==
  ASSUME ConsolidationAssumption
  PROVE  /\ \A r, s \in Rows : r # s => Earlier(r, s) \/ Earlier(s, r)
         /\ \A r, s, t \in Rows : Earlier(r, s) /\ Earlier(s, t) => Earlier(r, t)
<1>1. \A r \in Rows : r[1] \in Int /\ r[2] \in Int /\ r = <<r[1], r[2]>>
  BY DEF ConsolidationAssumption
<1>2. ASSUME NEW r \in Rows, NEW s \in Rows, r # s PROVE Earlier(r, s) \/ Earlier(s, r)
  <2>1. r[1] # s[1] \/ r[2] # s[2]
    BY <1>1, <1>2
  <2> QED
    BY <1>1, <2>1 DEF Earlier
<1>3. ASSUME NEW r \in Rows, NEW s \in Rows, NEW t \in Rows, Earlier(r, s), Earlier(s, t)
      PROVE  Earlier(r, t)
  BY <1>1, <1>3 DEF Earlier
<1> QED
  BY <1>2, <1>3

LEMMA LastOfIs ==
  ASSUME ConsolidationAssumption, NEW S \in SUBSET Rows, S # {}
  PROVE  LastOf(S) \in S
<1>1. IsFiniteSet(S)
  BY FS_Subset DEF ConsolidationAssumption
<1>2. PICK R : R = {e \in Rows \X Rows : Earlier(e[1], e[2])}
  OBVIOUS
<1>3. Ranks(R, S)
  <2>1. \A x, y \in S : x # y => <<x, y>> \in R \/ <<y, x>> \in R
    BY <1>2, RowsOrdered
  <2>2. \A x, y, z \in S : <<x, y>> \in R /\ <<y, z>> \in R => <<x, z>> \in R
    BY <1>2, RowsOrdered
  <2> QED
    BY <2>1, <2>2 DEF Ranks
<1>4. \E x \in S : \A y \in S \ {x} : <<y, x>> \in R
  BY <1>1, <1>3, LastExists
<1>5. \E x : x \in S /\ \A y \in S \ {x} : Earlier(y, x)
  BY <1>2, <1>4
<1> QED
  BY <1>5 DEF LastOf

\* The pairs derive_elimination_pairs finds, in no order.
Found == {<<f, LastOf(Offsets(f))>> : f \in {r \in DueFrom : Offsets(r) # {}}}

LEMMA FoundIs ==
  ASSUME ConsolidationAssumption
  PROVE  /\ IsFiniteSet(Found)
         /\ \A p \in Found : p \in Pair /\ p[1] \in DueFrom /\ p[2] \in Offsets(p[1])
         /\ \A p, q \in Found : p[1] = q[1] => p = q
         /\ \A f \in DueFrom : Offsets(f) # {} => <<f, LastOf(Offsets(f))>> \in Found
<1> DEFINE With == {r \in DueFrom : Offsets(r) # {}}
<1>1. \A f \in With : Offsets(f) \in SUBSET DueTo /\ Offsets(f) \in SUBSET Rows
  BY DEF Offsets, DueTo, Tagged
<1>2. \A f \in With : LastOf(Offsets(f)) \in Offsets(f)
  <2>1. ASSUME NEW S \in SUBSET Rows, S # {} PROVE LastOf(S) \in S
    BY <2>1, LastOfIs
  <2> QED
    BY <1>1, <2>1
<1>3. IsFiniteSet(With)
  <2>1. With \subseteq Rows
    BY DEF DueFrom, Tagged
  <2> QED
    BY <2>1, FS_Subset DEF ConsolidationAssumption
<1>4. IsFiniteSet(Found)
  <2>1. PICK g : g = [f \in With |-> <<f, LastOf(Offsets(f))>>]
    OBVIOUS
  <2>2. g \in Surjection(With, Found)
    BY <2>1, Zenon DEF Surjection, Found
  <2> QED
    BY <1>3, <2>2, FS_Surjection
<1>5. ASSUME NEW p \in Found PROVE p \in Pair /\ p[1] \in DueFrom /\ p[2] \in Offsets(p[1])
  <2>1. PICK f \in With : p = <<f, LastOf(Offsets(f))>>
    BY DEF Found
  <2>2. f \in DueFrom /\ LastOf(Offsets(f)) \in Offsets(f) /\ LastOf(Offsets(f)) \in DueTo
    BY <1>1, <1>2
  <2> QED
    BY <2>1, <2>2 DEF Pair
<1>6. ASSUME NEW p \in Found, NEW q \in Found, p[1] = q[1] PROVE p = q
  <2>1. PICK f \in With : p = <<f, LastOf(Offsets(f))>>
    BY DEF Found
  <2>2. PICK g \in With : q = <<g, LastOf(Offsets(g))>>
    BY DEF Found
  <2> QED
    BY <1>6, <2>1, <2>2
<1>7. \A f \in DueFrom : Offsets(f) # {} => <<f, LastOf(Offsets(f))>> \in Found
  BY DEF Found
<1> QED
  BY <1>4, <1>5, <1>6, <1>7

\* derive_elimination_pairs lists what it finds, each once.
LEMMA DerivedIs ==
  ASSUME ConsolidationAssumption
  PROVE  DerivedPairs \in Seq(Pair) /\ Range(DerivedPairs) = Found
<1> DEFINE R == {e \in Found \X Found : Earlier(e[1][1], e[2][1])}
<1>1. IsFiniteSet(Found) /\ \A p \in Found : p \in Pair /\ p[1] \in Rows
  <2>1. \A p \in Found : p[1] \in Rows
    BY FoundIs DEF DueFrom, Tagged
  <2> QED
    BY <2>1, FoundIs
<1>2. ASSUME NEW p \in Found, NEW q \in Found, p # q PROVE <<p, q>> \in R \/ <<q, p>> \in R
  <2>1. p[1] # q[1]
    BY <1>2, FoundIs
  <2> QED
    BY <1>1, <2>1, RowsOrdered
<1>3. ASSUME NEW p \in Found, NEW q \in Found, NEW r \in Found, <<p, q>> \in R, <<q, r>> \in R
      PROVE  <<p, r>> \in R
  BY <1>1, <1>3, RowsOrdered
<1>4. PICK T : T = R
  OBVIOUS
<1>5. DerivedPairs = Sorted(Found, T)
  BY <1>4 DEF DerivedPairs, Found
<1> HIDE DEF R
<1>6. \E ps \in [1..Cardinality(Found) -> Found] :
        Range(ps) = Found /\ \A i, j \in DOMAIN ps : i < j => <<ps[i], ps[j]>> \in T
  <2>1. \A x, y \in Found : x # y => <<x, y>> \in T \/ <<y, x>> \in T
    BY <1>2, <1>4
  <2>2. \A x, y, z \in Found : <<x, y>> \in T /\ <<y, z>> \in T => <<x, z>> \in T
    BY <1>3, <1>4
  <2> QED
    BY <1>1, <2>1, <2>2, SortedExists DEF Ranks
<1>7. Sorted(Found, T) \in [1..Cardinality(Found) -> Found] /\ Range(Sorted(Found, T)) = Found
  BY <1>6 DEF Sorted
<1>8. Cardinality(Found) \in Nat
  BY <1>1, FS_CardinalityType
<1>9. Sorted(Found, T) \in Seq(Pair)
  BY <1>1, <1>7, <1>8
<1> QED
  BY <1>5, <1>7, <1>9

-----------------------------------------------------------------------------
(* The report.                                                             *)

GroupInv ==
  /\ trial \in GroupRows /\ pairs \in Seq(Pair)
  /\ derived \in BOOLEAN /\ (group = <<>> => ~derived)
  /\ derived => pairs = DerivedPairs
  /\ group # <<>> => group = <<Eliminated(trial, pairs)>>

LEMMA GroupInit ==
  ASSUME CInit
  PROVE  GroupInv
<1>1. ZeroBalance \in Balance
  BY DEF ZeroBalance, Balance
<1>2. trial \in GroupRows
  BY <1>1 DEF CInit, GroupRows
<1>3. pairs \in Seq(Pair)
  BY EmptySeq DEF CInit
<1> QED
  BY <1>2, <1>3 DEF CInit, GroupInv

LEMMA GroupStep ==
  ASSUME ConsolidationAssumption, GroupInv, [CNext]_cvars
  PROVE  GroupInv'
<1> USE DEF GroupInv
<1>1. CASE ReadBooks
  <2>1. Totals \subseteq Balance
    BY DEF ConsolidationAssumption, Balance
  <2>2. trial' \in GroupRows
    BY <1>1, <2>1 DEF ReadBooks, GroupRows
  <2> QED
    BY <1>1, <2>2 DEF ReadBooks
<1>2. CASE ListPairs
  <2>1. PICK f \in DueFrom, t \in DueTo : pairs' = Append(pairs, <<f, t>>)
    BY <1>2 DEF ListPairs
  <2>2. <<f, t>> \in Pair
    BY <2>1 DEF Pair
  <2>3. pairs' \in Seq(Pair)
    BY <2>1, <2>2, AppendProperties
  <2> QED
    BY <1>2, <2>3 DEF ListPairs
<1>3. CASE Eliminate
  <2>1. pairs' \in Seq(Pair) /\ derived' \in BOOLEAN /\ (derived' => pairs' = DerivedPairs)
    BY <1>3, DerivedIs DEF Eliminate
  <2>2. group' = <<Eliminated(trial, pairs')>> /\ trial' = trial /\ group' # <<>>
    BY <1>3 DEF Eliminate
  <2>3. DerivedPairs' = DerivedPairs
    BY DEF DerivedPairs
  <2> QED
    BY <2>1, <2>2, <2>3
<1>4. CASE UNCHANGED cvars
  BY <1>4 DEF cvars
<1> QED
  BY <1>1, <1>2, <1>3, <1>4 DEF CNext

LEMMA GroupReport ==
  ASSUME ConsolidationAssumption, GroupInv
  PROVE  GroupBalances
<1> SUFFICES ASSUME group # <<>> PROVE GroupBalances
  BY DEF GroupBalances, EliminationKeepsBalance, EliminatesOverlapOnly, DerivedPairsSettle
<1>1. PICK res : res = group[1] /\ res = Eliminated(trial, pairs)
  BY DEF GroupInv
<1>2. IsFiniteSet(Rows) /\ trial \in GroupRows /\ pairs \in Seq(Pair)
  BY DEF ConsolidationAssumption, GroupInv
<1>3. /\ res \in Elimination
      /\ Debits(res.rows) - Credits(res.rows) = Debits(trial) - Credits(trial)
      /\ EntriesEven(res) /\ Shrinks(res.rows, trial)
      /\ \A i \in 1..Len(pairs) : Overlap(res.rows, pairs[i]) = 0
  BY <1>1, <1>2, EliminationSound
<1>4. EliminationKeepsBalance
  BY <1>1, <1>3 DEF EliminationKeepsBalance, EntriesEven
<1>5. DOMAIN pairs = 1..Len(pairs)
  BY <1>2
<1>6. EliminatesOverlapOnly
  BY <1>1, <1>3, <1>5 DEF EliminatesOverlapOnly, Shrinks
<1>7. ASSUME derived
      PROVE  /\ \A i \in DOMAIN pairs : pairs[i][1] \in DueFrom /\ pairs[i][2] \in Offsets(pairs[i][1])
             /\ \A f \in DueFrom : Cardinality(Offsets(f)) = 1 =>
                  \A t \in Offsets(f) : Overlap(res.rows, <<f, t>>) = 0
  <2>1. Range(pairs) = Found
    BY <1>7, DerivedIs DEF GroupInv
  <2>2. ASSUME NEW i \in DOMAIN pairs PROVE pairs[i][1] \in DueFrom /\ pairs[i][2] \in Offsets(pairs[i][1])
    <3>1. pairs[i] \in Found
      BY <2>1 DEF Range
    <3> QED
      BY <3>1, FoundIs
  <2>3. ASSUME NEW f \in DueFrom, Cardinality(Offsets(f)) = 1, NEW t \in Offsets(f)
        PROVE  Overlap(res.rows, <<f, t>>) = 0
    <3>1. IsFiniteSet(Offsets(f)) /\ Offsets(f) \in SUBSET Rows
      <4>1. Offsets(f) \in SUBSET Rows
        BY DEF Offsets, DueTo, Tagged
      <4> QED
        BY <1>2, <4>1, FS_Subset
    <3>2. PICK x : Offsets(f) = {x}
      BY <2>3, <3>1, FS_Singleton
    <3>3. LastOf(Offsets(f)) = t
      BY <3>1, <3>2, LastOfIs
    <3>4. <<f, t>> \in Found
      BY <3>3, FoundIs
    <3>5. PICK i \in DOMAIN pairs : pairs[i] = <<f, t>>
      BY <2>1, <3>4 DEF Range
    <3> QED
      BY <1>3, <1>5, <3>5
  <2> QED
    BY <2>2, <2>3
<1>8. DerivedPairsSettle
  BY <1>1, <1>7 DEF DerivedPairsSettle
<1> QED
  BY <1>4, <1>6, <1>8 DEF GroupBalances

\* Eliminating a group's inter-company balances (eliminate, derive_elimination_pairs):
\* whatever the books and the pairs, the group stays balanced, a balance only comes
\* closer to zero, and no derived pair keeps an overlap.
THEOREM GroupStands == CSpec => []GroupBalances
<1>1. CInit => GroupInv
  BY GroupInit
<1>2. GroupInv /\ [CNext]_cvars => GroupInv'
  BY ConsolidationAssumption, GroupStep
<1>3. GroupInv => GroupBalances
  BY ConsolidationAssumption, GroupReport
<1> QED
  BY <1>1, <1>2, <1>3, PTL DEF CSpec

-----------------------------------------------------------------------------
(* The ledger server's folds, one element at a time.                       *)

LedgerTx == [id : Nat, by : Tenant, entries : Seq(LedgerLine)]
Sums == [LedgerAccount -> Int]
Applied(sums, entries) == FoldLeft(ApplyEntry, sums, entries)

\* Summing a side of a transaction: one sum after each entry.
LEMMA SideChain ==
  ASSUME NEW entries \in Seq(LedgerLine), NEW side
  PROVE  \E r \in [0..Len(entries) -> Int] :
           /\ r[0] = 0 /\ \A i \in 1..Len(entries) : r[i] = (IF entries[i].side = side THEN r[i - 1] + entries[i].amount ELSE r[i - 1])
           /\ Side(entries, side) = r[Len(entries)]
<1> DEFINE N == Len(entries)
           F == [i \in 1..N |-> [t \in Int |-> (IF entries[i].side = side THEN t + entries[i].amount ELSE t)]]
           Body(h, s) == IF s = {} THEN 0
                         ELSE (IF entries[Max(s)].side = side THEN h[s \ {Max(s)}] + entries[Max(s)].amount ELSE h[s \ {Max(s)}])
           iter == CHOOSE h : h = [s \in SUBSET (DOMAIN entries) |-> Body(h, s)]
<1>1. N \in Nat /\ DOMAIN entries = 1..N /\ \A i \in 1..N : entries[i] \in LedgerLine
  BY ElementOfSeq
<1>2. Side(entries, side) = iter[DOMAIN entries]
  BY DEF Side, FoldLeft, MapThenFoldSet
<1>3. F \in [1..N -> [Int -> Int]]
  BY <1>1 DEF LedgerLine
<1>4. \A s \in (SUBSET (1..N)) \ {{}} : Max(s) \in 1..N /\ s \ {Max(s)} \in SUBSET (1..N)
  <2>1. ASSUME NEW s \in (SUBSET (1..N)) \ {{}} PROVE Max(s) \in s
    <3>1. s \subseteq 0..N /\ s # {}
      OBVIOUS
    <3> QED
      BY <1>1, <3>1, Greatest
  <2> QED
    BY <2>1
<1>5. \A h, s : s \in (SUBSET (1..N)) \ {{}} /\ h[s \ {Max(s)}] \in Int
                => F[Max(s)][h[s \ {Max(s)}]] = Body(h, s)
  BY <1>4
<1>6. \A h : Body(h, {}) = 0
  OBVIOUS
<1> HIDE DEF Body, F, N, iter
<1>7. Foldable(N, Int, F, 0)
  <2>1. 0 \in Int /\ N \in Nat
    BY <1>1
  <2> QED
    BY <1>3, <2>1, FoldRule
<1>8. PICK g \in [SUBSET (1..N) -> Int], r \in [0..N -> Int] :
        /\ Unfolds(g, N, F, 0) /\ Chain(r, N, F, 0)
        /\ \A h : Follows(h, N, Int, F, 0) => h[1..N] = r[N]
  BY <1>7 DEF Foldable
<1>9. g = [s \in SUBSET (DOMAIN entries) |-> Body(g, s)]
  <2>1. ASSUME NEW s \in SUBSET (1..N) PROVE g[s] = Body(g, s)
    BY <1>4, <1>5, <1>6, <1>8 DEF Unfolds
  <2> QED
    BY <1>1, <2>1
<1>10. iter = [s \in SUBSET (DOMAIN entries) |-> Body(iter, s)]
  BY <1>9 DEF iter
<1>11. Follows(iter, N, Int, F, 0)
  BY <1>1, <1>5, <1>6, <1>10 DEF Follows
<1>12. iter[1..N] = r[N]
  BY <1>8, <1>11
<1>13. \A i \in 1..N : r[i] = (IF entries[i].side = side THEN r[i - 1] + entries[i].amount ELSE r[i - 1])
  <2>1. ASSUME NEW i \in 1..N PROVE r[i] = (IF entries[i].side = side THEN r[i - 1] + entries[i].amount ELSE r[i - 1])
    <3>1. i - 1 \in 0..N /\ r[i - 1] \in Int
      BY <1>1, <1>8
    <3> QED
      BY <1>8, <3>1 DEF Chain, F
  <2> QED
    BY <2>1
<1> QED
  BY <1>1, <1>2, <1>8, <1>12, <1>13 DEF Chain, N

\* A transaction's value: one sum after each entry.
LEMMA ValueChain ==
  ASSUME NEW tx, tx.entries \in Seq(LedgerLine)
  PROVE  \E r \in [0..Len(tx.entries) -> Int] :
           /\ r[0] = 0 /\ \A i \in 1..Len(tx.entries) : r[i] = r[i - 1] + tx.entries[i].amount
           /\ ValueOf(tx) = r[Len(tx.entries)]
<1> DEFINE N == Len(tx.entries)
           F == [i \in 1..N |-> [t \in Int |-> t + tx.entries[i].amount]]
           Body(h, s) == IF s = {} THEN 0
                         ELSE h[s \ {Max(s)}] + tx.entries[Max(s)].amount
           iter == CHOOSE h : h = [s \in SUBSET (DOMAIN tx.entries) |-> Body(h, s)]
<1>1. N \in Nat /\ DOMAIN tx.entries = 1..N /\ \A i \in 1..N : tx.entries[i] \in LedgerLine
  BY ElementOfSeq
<1>2. ValueOf(tx) = iter[DOMAIN tx.entries]
  BY DEF ValueOf, FoldLeft, MapThenFoldSet
<1>3. F \in [1..N -> [Int -> Int]]
  BY <1>1 DEF LedgerLine
<1>4. \A s \in (SUBSET (1..N)) \ {{}} : Max(s) \in 1..N /\ s \ {Max(s)} \in SUBSET (1..N)
  <2>1. ASSUME NEW s \in (SUBSET (1..N)) \ {{}} PROVE Max(s) \in s
    <3>1. s \subseteq 0..N /\ s # {}
      OBVIOUS
    <3> QED
      BY <1>1, <3>1, Greatest
  <2> QED
    BY <2>1
<1>5. \A h, s : s \in (SUBSET (1..N)) \ {{}} /\ h[s \ {Max(s)}] \in Int
                => F[Max(s)][h[s \ {Max(s)}]] = Body(h, s)
  BY <1>4
<1>6. \A h : Body(h, {}) = 0
  OBVIOUS
<1> HIDE DEF Body, F, N, iter
<1>7. Foldable(N, Int, F, 0)
  <2>1. 0 \in Int /\ N \in Nat
    BY <1>1
  <2> QED
    BY <1>3, <2>1, FoldRule
<1>8. PICK g \in [SUBSET (1..N) -> Int], r \in [0..N -> Int] :
        /\ Unfolds(g, N, F, 0) /\ Chain(r, N, F, 0)
        /\ \A h : Follows(h, N, Int, F, 0) => h[1..N] = r[N]
  BY <1>7 DEF Foldable
<1>9. g = [s \in SUBSET (DOMAIN tx.entries) |-> Body(g, s)]
  <2>1. ASSUME NEW s \in SUBSET (1..N) PROVE g[s] = Body(g, s)
    BY <1>4, <1>5, <1>6, <1>8 DEF Unfolds
  <2> QED
    BY <1>1, <2>1
<1>10. iter = [s \in SUBSET (DOMAIN tx.entries) |-> Body(iter, s)]
  BY <1>9 DEF iter
<1>11. Follows(iter, N, Int, F, 0)
  BY <1>1, <1>5, <1>6, <1>10 DEF Follows
<1>12. iter[1..N] = r[N]
  BY <1>8, <1>11
<1>13. \A i \in 1..N : r[i] = r[i - 1] + tx.entries[i].amount
  <2>1. ASSUME NEW i \in 1..N PROVE r[i] = r[i - 1] + tx.entries[i].amount
    <3>1. i - 1 \in 0..N /\ r[i - 1] \in Int
      BY <1>1, <1>8
    <3> QED
      BY <1>8, <3>1 DEF Chain, F
  <2> QED
    BY <2>1
<1> QED
  BY <1>1, <1>2, <1>8, <1>12, <1>13 DEF Chain, N

\* An entry moves one account by its amount, a debit down and a credit up.
LEMMA EntryEffect ==
  ASSUME NEW sums \in Sums, NEW e \in LedgerLine
  PROVE  /\ ApplyEntry(sums, e) \in Sums /\ e.account \in LedgerAccount
         /\ \A a \in LedgerAccount \ {e.account} : ApplyEntry(sums, e)[a] = sums[a]
         /\ ApplyEntry(sums, e)[e.account] - sums[e.account]
              = (IF e.side = "credit" THEN e.amount ELSE 0) - (IF e.side = "debit" THEN e.amount ELSE 0)
<1>1. e.account \in LedgerAccount /\ e.side \in {"debit", "credit"} /\ e.amount \in Int
  BY DEF LedgerLine
<1>2. PICK a \in LedgerAccount : a = e.account
  BY <1>1
<1>3. PICK v \in Int : v = IF e.side = "debit" THEN sums[a] - e.amount ELSE sums[a] + e.amount
  <2>1. sums[a] \in Int
    BY DEF Sums
  <2> QED
    BY <1>1, <2>1
<1>4. ApplyEntry(sums, e) = [sums EXCEPT ![a] = v]
  BY <1>2, <1>3 DEF ApplyEntry
<1>5. sums \in [LedgerAccount -> Int]
  BY DEF Sums
<1>6. ApplyEntry(sums, e) \in Sums /\ ApplyEntry(sums, e)[a] = v
      /\ \A b \in LedgerAccount \ {a} : ApplyEntry(sums, e)[b] = sums[b]
  BY <1>4, <1>5 DEF Sums
<1>7. v - sums[a] = (IF e.side = "credit" THEN e.amount ELSE 0) - (IF e.side = "debit" THEN e.amount ELSE 0)
  <2>1. sums[a] \in Int
    BY <1>5
  <2> QED
    BY <1>1, <1>3, <2>1
<1> QED
  BY <1>1, <1>2, <1>6, <1>7

\* Applying a transaction: the balances after each entry.
LEMMA AppliedChain ==
  ASSUME NEW sums \in Sums, NEW entries \in Seq(LedgerLine)
  PROVE  \E r \in [0..Len(entries) -> Sums] :
           /\ r[0] = sums /\ \A i \in 1..Len(entries) : r[i] = ApplyEntry(r[i - 1], entries[i])
           /\ Applied(sums, entries) = r[Len(entries)]
<1> DEFINE N == Len(entries)
           F == [i \in 1..N |-> [t \in Sums |-> ApplyEntry(t, entries[i])]]
           Body(h, s) == IF s = {} THEN sums
                         ELSE ApplyEntry(h[s \ {Max(s)}], entries[Max(s)])
           iter == CHOOSE h : h = [s \in SUBSET (DOMAIN entries) |-> Body(h, s)]
<1>1. N \in Nat /\ DOMAIN entries = 1..N /\ \A i \in 1..N : entries[i] \in LedgerLine
  BY ElementOfSeq
<1>2. Applied(sums, entries) = iter[DOMAIN entries]
  BY DEF Applied, FoldLeft, MapThenFoldSet
<1>3. F \in [1..N -> [Sums -> Sums]]
  BY <1>1, EntryEffect
<1>4. \A s \in (SUBSET (1..N)) \ {{}} : Max(s) \in 1..N /\ s \ {Max(s)} \in SUBSET (1..N)
  <2>1. ASSUME NEW s \in (SUBSET (1..N)) \ {{}} PROVE Max(s) \in s
    <3>1. s \subseteq 0..N /\ s # {}
      OBVIOUS
    <3> QED
      BY <1>1, <3>1, Greatest
  <2> QED
    BY <2>1
<1>5. \A h, s : s \in (SUBSET (1..N)) \ {{}} /\ h[s \ {Max(s)}] \in Sums
                => F[Max(s)][h[s \ {Max(s)}]] = Body(h, s)
  BY <1>4
<1>6. \A h : Body(h, {}) = sums
  OBVIOUS
<1> HIDE DEF Body, F, N, iter
<1>7. Foldable(N, Sums, F, sums)
  <2>1. sums \in Sums /\ N \in Nat
    BY <1>1
  <2> QED
    BY <1>3, <2>1, FoldRule
<1>8. PICK g \in [SUBSET (1..N) -> Sums], r \in [0..N -> Sums] :
        /\ Unfolds(g, N, F, sums) /\ Chain(r, N, F, sums)
        /\ \A h : Follows(h, N, Sums, F, sums) => h[1..N] = r[N]
  BY <1>7 DEF Foldable
<1>9. g = [s \in SUBSET (DOMAIN entries) |-> Body(g, s)]
  <2>1. ASSUME NEW s \in SUBSET (1..N) PROVE g[s] = Body(g, s)
    BY <1>4, <1>5, <1>6, <1>8 DEF Unfolds
  <2> QED
    BY <1>1, <2>1
<1>10. iter = [s \in SUBSET (DOMAIN entries) |-> Body(iter, s)]
  BY <1>9 DEF iter
<1>11. Follows(iter, N, Sums, F, sums)
  BY <1>1, <1>5, <1>6, <1>10 DEF Follows
<1>12. iter[1..N] = r[N]
  BY <1>8, <1>11
<1>13. \A i \in 1..N : r[i] = ApplyEntry(r[i - 1], entries[i])
  <2>1. ASSUME NEW i \in 1..N PROVE r[i] = ApplyEntry(r[i - 1], entries[i])
    <3>1. i - 1 \in 0..N /\ r[i - 1] \in Sums
      BY <1>1, <1>8
    <3> QED
      BY <1>8, <3>1 DEF Chain, F
  <2> QED
    BY <2>1
<1> QED
  BY <1>1, <1>2, <1>8, <1>12, <1>13 DEF Chain, N

\* A transaction moves the sum over the accounts by its credits less its debits.
LEMMA AppliedMoves ==
  ASSUME NEW sums \in Sums, NEW entries \in Seq(LedgerLine)
  PROVE  /\ Applied(sums, entries) \in Sums
         /\ Sum(Applied(sums, entries), LedgerAccount)
              = Sum(sums, LedgerAccount) + Side(entries, "credit") - Side(entries, "debit")
<1> DEFINE n == Len(entries)
<1>1. n \in Nat /\ \A i \in 1..n : entries[i] \in LedgerLine
  BY LenProperties, ElementOfSeq
<1>2. PICK r \in [0..n -> Sums] : /\ r[0] = sums /\ \A i \in 1..n : r[i] = ApplyEntry(r[i - 1], entries[i])
                                 /\ Applied(sums, entries) = r[n]
  BY AppliedChain
<1>3. PICK c \in [0..n -> Int] :
        /\ c[0] = 0
        /\ \A i \in 1..n : c[i] = (IF entries[i].side = "credit" THEN c[i - 1] + entries[i].amount ELSE c[i - 1])
        /\ Side(entries, "credit") = c[n]
  BY SideChain
<1>4. PICK d \in [0..n -> Int] :
        /\ d[0] = 0
        /\ \A i \in 1..n : d[i] = (IF entries[i].side = "debit" THEN d[i - 1] + entries[i].amount ELSE d[i - 1])
        /\ Side(entries, "debit") = d[n]
  BY SideChain
<1> HIDE DEF n
<1> DEFINE Moved(i) == Sum(r[i], LedgerAccount) = Sum(sums, LedgerAccount) + c[i] - d[i]
           Bad == {i \in 0..n : ~Moved(i)}
<1>5. Sum(sums, LedgerAccount) \in Int
  BY LedgerApiAssumption, SumOne DEF Sums
<1>6. Bad = {}
  <2>1. SUFFICES ASSUME Bad # {} PROVE FALSE
    OBVIOUS
  <2>2. PICK m \in Bad : \A y \in Bad : m <= y
    <3>1. Bad \subseteq Nat
      BY <1>1
    <3> HIDE DEF Bad
    <3> QED
      BY <2>1, <3>1, Least
  <2>3. m # 0
    BY <1>2, <1>3, <1>4, <1>5, <2>2
  <2>4. m \in 1..n /\ m - 1 \in 0..n /\ m \in 0..n
    BY <1>1, <2>2, <2>3
  <2>5. Moved(m - 1)
    BY <1>1, <2>2, <2>4
  <2>6. entries[m] \in LedgerLine /\ r[m - 1] \in Sums /\ r[m] = ApplyEntry(r[m - 1], entries[m])
    BY <1>1, <1>2, <2>4
  <2>7. PICK p, q, e : p = r[m - 1] /\ q = r[m] /\ e = entries[m]
    OBVIOUS
  <2>8. /\ q \in Sums /\ e.account \in LedgerAccount /\ p \in Sums
        /\ \A a \in LedgerAccount \ {e.account} : q[a] = p[a]
        /\ q[e.account] - p[e.account]
             = (IF e.side = "credit" THEN e.amount ELSE 0) - (IF e.side = "debit" THEN e.amount ELSE 0)
    <3>1. p \in Sums /\ e \in LedgerLine /\ q = ApplyEntry(p, e)
      BY <2>6, <2>7
    <3>2. /\ ApplyEntry(p, e) \in Sums /\ e.account \in LedgerAccount
          /\ \A a \in LedgerAccount \ {e.account} : ApplyEntry(p, e)[a] = p[a]
          /\ ApplyEntry(p, e)[e.account] - p[e.account]
               = (IF e.side = "credit" THEN e.amount ELSE 0) - (IF e.side = "debit" THEN e.amount ELSE 0)
      BY <3>1, EntryEffect
    <3> QED
      BY <3>1, <3>2
  <2>9. Sum(q, LedgerAccount) = Sum(p, LedgerAccount) + (q[e.account] - p[e.account])
    <3>1. PICK a : a = e.account
      OBVIOUS
    <3>2. /\ IsFiniteSet(LedgerAccount) /\ q \in [LedgerAccount -> Int] /\ p \in [LedgerAccount -> Int]
          /\ LedgerAccount \in SUBSET LedgerAccount /\ a \in LedgerAccount
          /\ \A y \in LedgerAccount \ {a} : q[y] = p[y]
      BY <2>8, <3>1, LedgerApiAssumption DEF Sums
    <3>3. Sum(q, LedgerAccount) = Sum(p, LedgerAccount) + (q[a] - p[a])
      BY <3>2, SumChanged
    <3> QED
      BY <3>1, <3>3
  <2>10. /\ c[m] = (IF e.side = "credit" THEN c[m - 1] + e.amount ELSE c[m - 1])
         /\ d[m] = (IF e.side = "debit" THEN d[m - 1] + e.amount ELSE d[m - 1])
         /\ c[m - 1] \in Int /\ d[m - 1] \in Int /\ e.side \in {"debit", "credit"} /\ e.amount \in Int
    BY <1>3, <1>4, <2>4, <2>6, <2>7 DEF LedgerLine
  <2> HIDE DEF Bad
  <2>11. Sum(p, LedgerAccount) = Sum(sums, LedgerAccount) + c[m - 1] - d[m - 1]
    BY <2>5, <2>7
  <2>12. Moved(m)
    <3>1. PICK x, y, move : x = Sum(p, LedgerAccount) /\ y = Sum(q, LedgerAccount) /\ move = q[e.account] - p[e.account]
      OBVIOUS
    <3>2. /\ x = Sum(sums, LedgerAccount) + c[m - 1] - d[m - 1] /\ y = x + move
          /\ move = (IF e.side = "credit" THEN e.amount ELSE 0) - (IF e.side = "debit" THEN e.amount ELSE 0)
      BY <2>8, <2>9, <2>11, <3>1
    <3>3. y = Sum(sums, LedgerAccount) + c[m] - d[m]
      <4>3. /\ x = Sum(sums, LedgerAccount) + c[m - 1] - d[m - 1] /\ y = x + move
            /\ c[m - 1] \in Int /\ d[m - 1] \in Int /\ e.amount \in Int
        BY <2>10, <3>2
      <4>1. CASE e.side = "credit"
        <5>1. c[m] = c[m - 1] + e.amount /\ d[m] = d[m - 1] /\ move = e.amount
          BY <2>10, <3>2, <4>1
        <5> QED
          BY <1>5, <4>3, <5>1
      <4>2. CASE e.side = "debit"
        <5>1. c[m] = c[m - 1] /\ d[m] = d[m - 1] + e.amount /\ move = 0 - e.amount
          BY <2>10, <3>2, <4>2
        <5> QED
          <6>1. \A s0, c0, d0, v \in Int : (s0 + c0 - d0) + (0 - v) = s0 + c0 - (d0 + v)
            OBVIOUS
          <6>2. (Sum(sums, LedgerAccount) + c[m - 1] - d[m - 1]) + (0 - e.amount)
                  = Sum(sums, LedgerAccount) + c[m - 1] - (d[m - 1] + e.amount)
            BY <1>5, <4>3, <6>1
          <6> QED
            BY <4>3, <5>1, <6>2
      <4> QED
        BY <2>10, <4>1, <4>2
    <3> QED
      BY <2>7, <3>1, <3>3
  <2> QED
    BY <2>2, <2>12 DEF Bad
<1>7. n \in 0..n
  BY <1>1
<1>8. Moved(n)
  BY <1>6, <1>7
<1> QED
  BY <1>2, <1>3, <1>4, <1>7, <1>8

\* Replaying a log of transactions: the balances after each.
LEMMA BalancesOfLog ==
  ASSUME NEW log \in Seq(LedgerTx)
  PROVE  \E r \in [0..Len(log) -> Sums] :
           /\ r[0] = NoBalances /\ \A i \in 1..Len(log) : r[i] = Applied(r[i - 1], log[i].entries)
           /\ Balances(log) = r[Len(log)]
<1> DEFINE N == Len(log)
           F == [i \in 1..N |-> [t \in Sums |-> Applied(t, log[i].entries)]]
           Body(h, s) == IF s = {} THEN NoBalances
                         ELSE Applied(h[s \ {Max(s)}], log[Max(s)].entries)
           iter == CHOOSE h : h = [s \in SUBSET (DOMAIN log) |-> Body(h, s)]
<1>1. N \in Nat /\ DOMAIN log = 1..N /\ \A i \in 1..N : log[i] \in LedgerTx
  BY ElementOfSeq
<1>2. Balances(log) = iter[DOMAIN log]
  BY DEF Balances, Applied, FoldLeft, MapThenFoldSet
<1>3. F \in [1..N -> [Sums -> Sums]]
  BY <1>1, AppliedMoves DEF LedgerTx
<1>4. \A s \in (SUBSET (1..N)) \ {{}} : Max(s) \in 1..N /\ s \ {Max(s)} \in SUBSET (1..N)
  <2>1. ASSUME NEW s \in (SUBSET (1..N)) \ {{}} PROVE Max(s) \in s
    <3>1. s \subseteq 0..N /\ s # {}
      OBVIOUS
    <3> QED
      BY <1>1, <3>1, Greatest
  <2> QED
    BY <2>1
<1>5. \A h, s : s \in (SUBSET (1..N)) \ {{}} /\ h[s \ {Max(s)}] \in Sums
                => F[Max(s)][h[s \ {Max(s)}]] = Body(h, s)
  BY <1>4
<1>6. \A h : Body(h, {}) = NoBalances
  OBVIOUS
<1> HIDE DEF Body, F, N, iter
<1>7. Foldable(N, Sums, F, NoBalances)
  <2>1. NoBalances \in Sums /\ N \in Nat
    BY <1>1 DEF NoBalances, Sums
  <2> QED
    BY <1>3, <2>1, FoldRule
<1>8. PICK g \in [SUBSET (1..N) -> Sums], r \in [0..N -> Sums] :
        /\ Unfolds(g, N, F, NoBalances) /\ Chain(r, N, F, NoBalances)
        /\ \A h : Follows(h, N, Sums, F, NoBalances) => h[1..N] = r[N]
  BY <1>7 DEF Foldable
<1>9. g = [s \in SUBSET (DOMAIN log) |-> Body(g, s)]
  <2>1. ASSUME NEW s \in SUBSET (1..N) PROVE g[s] = Body(g, s)
    BY <1>4, <1>5, <1>6, <1>8 DEF Unfolds
  <2> QED
    BY <1>1, <2>1
<1>10. iter = [s \in SUBSET (DOMAIN log) |-> Body(iter, s)]
  BY <1>9 DEF iter
<1>11. Follows(iter, N, Sums, F, NoBalances)
  BY <1>1, <1>5, <1>6, <1>10 DEF Follows
<1>12. iter[1..N] = r[N]
  BY <1>8, <1>11
<1>13. \A i \in 1..N : r[i] = Applied(r[i - 1], log[i].entries)
  <2>1. ASSUME NEW i \in 1..N PROVE r[i] = Applied(r[i - 1], log[i].entries)
    <3>1. i - 1 \in 0..N /\ r[i - 1] \in Sums
      BY <1>1, <1>8
    <3> QED
      BY <1>8, <3>1 DEF Chain, F
  <2> QED
    BY <2>1
<1> QED
  BY <1>1, <1>2, <1>8, <1>12, <1>13 DEF Chain, N

\* A log of balanced transactions replays to balances that add up to nothing.
LEMMA ReplayIsLevel ==
  ASSUME NEW log \in Seq(LedgerTx),
         \A i \in 1..Len(log) : Side(log[i].entries, "debit") = Side(log[i].entries, "credit")
  PROVE  Balances(log) \in Sums /\ Sum(Balances(log), LedgerAccount) = 0
<1> DEFINE n == Len(log)
<1>1. n \in Nat /\ \A i \in 1..n : log[i] \in LedgerTx
  BY LenProperties, ElementOfSeq
<1>2. PICK r \in [0..n -> Sums] : /\ r[0] = NoBalances /\ \A i \in 1..n : r[i] = Applied(r[i - 1], log[i].entries)
                                 /\ Balances(log) = r[n]
  BY BalancesOfLog
<1>3. \A i \in 1..n : Side(log[i].entries, "debit") = Side(log[i].entries, "credit")
  OBVIOUS
<1> HIDE DEF n
<1> DEFINE Bad == {i \in 0..n : Sum(r[i], LedgerAccount) # 0}
<1>4. Bad = {}
  <2>1. SUFFICES ASSUME Bad # {} PROVE FALSE
    OBVIOUS
  <2>2. PICK m \in Bad : \A y \in Bad : m <= y
    <3>1. Bad \subseteq Nat
      BY <1>1
    <3> HIDE DEF Bad
    <3> QED
      BY <2>1, <3>1, Least
  <2>3. m # 0
    <3>1. NoBalances \in [LedgerAccount -> Int] /\ \A a \in LedgerAccount : NoBalances[a] = 0
      BY DEF NoBalances
    <3>2. Sum(NoBalances, LedgerAccount) = 0
      BY <3>1, LedgerApiAssumption, SumNothing
    <3> QED
      BY <1>2, <2>2, <3>2
  <2>4. m \in 1..n /\ m - 1 \in 0..n /\ m \in 0..n
    BY <1>1, <2>2, <2>3
  <2>5. Sum(r[m - 1], LedgerAccount) = 0
    BY <1>1, <2>2, <2>4
  <2>6. log[m].entries \in Seq(LedgerLine) /\ r[m - 1] \in Sums /\ r[m] = Applied(r[m - 1], log[m].entries)
    BY <1>1, <1>2, <2>4 DEF LedgerTx
  <2>7. Sum(r[m], LedgerAccount)
          = Sum(r[m - 1], LedgerAccount) + Side(log[m].entries, "credit") - Side(log[m].entries, "debit")
    BY <2>6, AppliedMoves
  <2>8. Side(log[m].entries, "credit") = Side(log[m].entries, "debit") /\ Side(log[m].entries, "credit") \in Int
    <3>1. Side(log[m].entries, "credit") \in Int
      <4>1. PICK es \in Seq(LedgerLine) : es = log[m].entries
        BY <2>6
      <4>2. PICK c \in [0..Len(es) -> Int] : Side(es, "credit") = c[Len(es)]
        BY SideChain
      <4>3. Len(es) \in 0..Len(es)
        BY LenProperties
      <4> QED
        BY <4>1, <4>2, <4>3
    <3> QED
      BY <1>3, <2>4, <3>1
  <2> QED
    BY <2>2, <2>5, <2>7, <2>8
<1>5. n \in 0..n
  BY <1>1
<1> QED
  BY <1>2, <1>4, <1>5

-----------------------------------------------------------------------------
(* What the detector measures: moments against a second pass.              *)

\* The squared distances of a log's values from their mean, scaled by n.
LEMMA SquaresAdd ==
  ASSUME NEW log, NEW n, NEW S, IsFiniteSet(S),
         NEW f \in [S -> Int], \A k \in S : f[k] = Off(log, n, k) * Off(log, n, k)
  PROVE  MapThenSumSet(LAMBDA k : Off(log, n, k) * Off(log, n, k), S) = Sum(f, S)
<1> DEFINE Some(s) == CHOOSE x \in s : TRUE
           Body(w, s) == IF s = {} THEN 0 ELSE Off(log, n, Some(s)) * Off(log, n, Some(s)) + w[s \ {Some(s)}]
           iter == CHOOSE w : w = [s \in SUBSET S |-> Body(w, s)]
<1>1. MapThenSumSet(LAMBDA k : Off(log, n, k) * Off(log, n, k), S) = iter[S]
  BY DEF MapThenSumSet, MapThenFoldSet
<1>2. \A w, s : s \in (SUBSET S) \ {{}} =>
        Some(s) \in s /\ s \ {Some(s)} \in SUBSET S /\ Body(w, s) = f[Some(s)] + w[s \ {Some(s)}]
  OBVIOUS
<1>3. \A w : Body(w, {}) = 0
  OBVIOUS
<1> HIDE DEF Body, iter, Some
<1>4. PICK g \in [SUBSET S -> Int] : SumsUp(g, S, f)
  BY SumExists
<1>5. \E w : w = [s \in SUBSET S |-> Body(w, s)]
  <2>1. PICK w : w = [s \in SUBSET S |-> g[s]]
    OBVIOUS
  <2>2. ASSUME NEW s \in SUBSET S PROVE w[s] = Body(w, s)
    <3>1. CASE s = {}
      BY <1>3, <1>4, <2>1, <3>1 DEF SumsUp
    <3>2. CASE s # {}
      <4>1. PICK x \in s : x = Some(s) /\ s \ {x} \in SUBSET S /\ Body(w, s) = f[x] + w[s \ {x}]
        BY <1>2, <3>2
      <4>2. g[s] = f[x] + g[s \ {x}]
        BY <1>4 DEF SumsUp
      <4> QED
        BY <2>1, <4>1, <4>2
    <3> QED
      BY <3>1, <3>2
  <2>3. w = [s \in SUBSET S |-> Body(w, s)]
    BY <2>1, <2>2
  <2> QED
    BY <2>3
<1>6. iter = [s \in SUBSET S |-> Body(iter, s)]
  BY <1>5 DEF iter
<1>7. Gathers(iter, S, f)
  <2>1. iter[{}] = 0
    BY <1>3, <1>6
  <2>2. ASSUME NEW s \in (SUBSET S) \ {{}} PROVE \E x \in s : iter[s] = f[x] + iter[s \ {x}]
    <3>1. PICK x \in s : x = Some(s) /\ Body(iter, s) = f[x] + iter[s \ {x}]
      BY <1>2
    <3>2. iter[s] = Body(iter, s)
      BY <1>6
    <3> QED
      BY <3>1, <3>2
  <2> QED
    BY <2>1, <2>2 DEF Gathers
<1>8. iter[S] = Sum(f, S)
  BY <1>7, GatheredSum
<1> QED
  BY <1>1, <1>8, Zenon

\* One square more, in terms of the moments.
LEMMA SquareGrows ==
  ASSUME NEW n \in Int, NEW t \in Int, NEW v \in Int, NEW q \in Int, NEW s \in Int, NEW k \in Int
  PROVE  ((n * n) * q - 2 * ((n * t) * s) + (k - 1) * (t * t)) + (n * v - t) * (n * v - t)
           = (n * n) * (q + v * v) - 2 * ((n * t) * (s + v)) + k * (t * t)
<1>1. \A x \in Int : (x - t) * (x - t) = x * x - 2 * (x * t) + t * t
  OBVIOUS
<1>2. (n * v - t) * (n * v - t) = (n * n) * (v * v) - 2 * ((n * t) * v) + t * t
  <2>1. (n * v) * (n * v) = (n * n) * (v * v) /\ (n * v) * t = (n * t) * v
    OBVIOUS
  <2>2. n * v \in Int
    OBVIOUS
  <2> QED
    BY <1>1, <2>1, <2>2
<1>3. \A a, x, y \in Int : a * (x + y) = a * x + a * y
  OBVIOUS
<1>4. /\ (n * n) * (q + v * v) = (n * n) * q + (n * n) * (v * v)
      /\ (n * t) * (s + v) = (n * t) * s + (n * t) * v
      /\ (k - 1) * (t * t) + t * t = k * (t * t)
  OBVIOUS
<1>5. \A a, b, c, d, e, f, g \in Int :
        c + f = g => (a - 2 * b + c) + (d - 2 * e + f) = (a + d) - 2 * (b + e) + g
  OBVIOUS
<1> QED
  BY <1>2, <1>4, <1>5

\* The squares from the moments' own mean.
LEMMA ScaledSpread ==
  ASSUME NEW n \in Int, NEW t \in Int, NEW q \in Int
  PROVE  (n * n) * q - 2 * ((n * t) * t) + n * (t * t) = n * (n * q - t * t)
<1>1. (n * n) * q = n * (n * q) /\ (n * t) * t = n * (t * t)
  OBVIOUS
<1>2. \A a, x, y \in Int : a * (x - y) = a * x - a * y
  OBVIOUS
<1>3. n * q \in Int /\ t * t \in Int
  OBVIOUS
<1>4. n * (n * q - t * t) = n * (n * q) - n * (t * t)
  BY <1>2, <1>3
<1>5. \A a, b \in Int : a - 2 * b + b = a - b
  OBVIOUS
<1> QED
  BY <1>1, <1>3, <1>4, <1>5

\* Scaling by a positive number keeps an order.
LEMMA ScaledOrder ==
  ASSUME NEW n \in Nat \ {0}, NEW a \in Int, NEW b \in Int
  PROVE  n * a > n * b <=> a > b
OBVIOUS
LEMMA ValueType ==
  ASSUME NEW tx, tx.entries \in Seq(LedgerLine)
  PROVE  ValueOf(tx) \in Int
<1>1. PICK es \in Seq(LedgerLine) : es = tx.entries
  OBVIOUS
<1>2. PICK r \in [0..Len(es) -> Int] : ValueOf(tx) = r[Len(es)]
  BY <1>1, ValueChain
<1>3. Len(es) \in 0..Len(es)
  BY LenProperties
<1> QED
  BY <1>2, <1>3

LEMMA ValuesOfLog ==
  ASSUME NEW log \in Seq(LedgerTx)
  PROVE  Len(log) \in Nat /\ \A i \in 1..Len(log) : log[i] \in LedgerTx /\ ValueOf(log[i]) \in Int
<1>1. ASSUME NEW i \in 1..Len(log) PROVE log[i] \in LedgerTx /\ ValueOf(log[i]) \in Int
  <2>1. PICK tx \in LedgerTx : tx = log[i]
    BY ElementOfSeq
  <2>2. ValueOf(tx) \in Int
    BY ValueType DEF LedgerTx
  <2> QED
    BY <2>1, <2>2
<1> QED
  BY <1>1, LenProperties

Totalled(past) == FoldLeft(LAMBDA v, tx : v + ValueOf(tx), 0, past)

\* Adding up the values of a log: one sum after each transaction.
LEMMA TotalledChain ==
  ASSUME NEW past \in Seq(LedgerTx)
  PROVE  \E r \in [0..Len(past) -> Int] :
           /\ r[0] = 0 /\ \A i \in 1..Len(past) : r[i] = r[i - 1] + ValueOf(past[i])
           /\ Totalled(past) = r[Len(past)]
<1> DEFINE N == Len(past)
           F == [i \in 1..N |-> [t \in Int |-> t + ValueOf(past[i])]]
           Body(h, s) == IF s = {} THEN 0
                         ELSE h[s \ {Max(s)}] + ValueOf(past[Max(s)])
           iter == CHOOSE h : h = [s \in SUBSET (DOMAIN past) |-> Body(h, s)]
<1>1. N \in Nat /\ DOMAIN past = 1..N /\ \A i \in 1..N : past[i] \in LedgerTx
  BY ElementOfSeq
<1>2. Totalled(past) = iter[DOMAIN past]
  BY DEF Totalled, FoldLeft, MapThenFoldSet
<1>3. F \in [1..N -> [Int -> Int]]
  BY <1>1, ValuesOfLog
<1>4. \A s \in (SUBSET (1..N)) \ {{}} : Max(s) \in 1..N /\ s \ {Max(s)} \in SUBSET (1..N)
  <2>1. ASSUME NEW s \in (SUBSET (1..N)) \ {{}} PROVE Max(s) \in s
    <3>1. s \subseteq 0..N /\ s # {}
      OBVIOUS
    <3> QED
      BY <1>1, <3>1, Greatest
  <2> QED
    BY <2>1
<1>5. \A h, s : s \in (SUBSET (1..N)) \ {{}} /\ h[s \ {Max(s)}] \in Int
                => F[Max(s)][h[s \ {Max(s)}]] = Body(h, s)
  BY <1>4
<1>6. \A h : Body(h, {}) = 0
  OBVIOUS
<1> HIDE DEF Body, F, N, iter
<1>7. Foldable(N, Int, F, 0)
  <2>1. 0 \in Int /\ N \in Nat
    BY <1>1
  <2> QED
    BY <1>3, <2>1, FoldRule
<1>8. PICK g \in [SUBSET (1..N) -> Int], r \in [0..N -> Int] :
        /\ Unfolds(g, N, F, 0) /\ Chain(r, N, F, 0)
        /\ \A h : Follows(h, N, Int, F, 0) => h[1..N] = r[N]
  BY <1>7 DEF Foldable
<1>9. g = [s \in SUBSET (DOMAIN past) |-> Body(g, s)]
  <2>1. ASSUME NEW s \in SUBSET (1..N) PROVE g[s] = Body(g, s)
    BY <1>4, <1>5, <1>6, <1>8 DEF Unfolds
  <2> QED
    BY <1>1, <2>1
<1>10. iter = [s \in SUBSET (DOMAIN past) |-> Body(iter, s)]
  BY <1>9 DEF iter
<1>11. Follows(iter, N, Int, F, 0)
  BY <1>1, <1>5, <1>6, <1>10 DEF Follows
<1>12. iter[1..N] = r[N]
  BY <1>8, <1>11
<1>13. \A i \in 1..N : r[i] = r[i - 1] + ValueOf(past[i])
  <2>1. ASSUME NEW i \in 1..N PROVE r[i] = r[i - 1] + ValueOf(past[i])
    <3>1. i - 1 \in 0..N /\ r[i - 1] \in Int
      BY <1>1, <1>8
    <3> QED
      BY <1>8, <3>1 DEF Chain, F
  <2> QED
    BY <2>1
<1> QED
  BY <1>1, <1>2, <1>8, <1>12, <1>13 DEF Chain, N

\* The events before an index of a log.
LEMMA UpToIs ==
  ASSUME NEW log \in Seq(LedgerTx), NEW n \in 0..Len(log)
  PROVE  /\ UpTo(log, n) \in Seq(LedgerTx) /\ Len(UpTo(log, n)) = n
         /\ \A i \in 1..n : UpTo(log, n)[i] = log[i]
         /\ UpTo(log, n) = SubSeq(log, 1, n)
<1>1. Len(log) \in Nat /\ n \in Nat /\ n <= Len(log) /\ \A i \in 1..n : log[i] \in LedgerTx
  BY LenProperties, ElementOfSeq
<1>2. Min({Len(log), n}) = n
  BY <1>1, LesserOfTwo
<1>3. UpTo(log, n) = SubSeq(log, 1, n)
  BY <1>2 DEF UpTo
<1>4. PICK past : past = SubSeq(log, 1, n)
  OBVIOUS
<1>5. past \in Seq(LedgerTx) /\ Len(past) = (IF 1 <= n THEN n - 1 + 1 ELSE 0) /\ \A i \in 1..(n - 1 + 1) : past[i] = log[1 + i - 1]
  BY <1>1, <1>4, SubSeqProperties
<1>6. Len(past) = n /\ \A i \in 1..n : past[i] = log[i]
  BY <1>1, <1>5
<1> QED
  BY <1>3, <1>4, <1>5, <1>6

\* The sums of a log's values and of their squares, after each transaction.
Moments(log, s, q) ==
  /\ s \in [0..Len(log) -> Int] /\ q \in [0..Len(log) -> Int]
  /\ s[0] = 0 /\ \A i \in 1..Len(log) : s[i] = s[i - 1] + ValueOf(log[i])
  /\ q[0] = 0 /\ \A i \in 1..Len(log) : q[i] = q[i - 1] + ValueOf(log[i]) * ValueOf(log[i])

LEMMA MomentsExist ==
  ASSUME NEW log \in Seq(LedgerTx)
  PROVE  \E s, q : Moments(log, s, q)
<1> DEFINE N == Len(log)
           F == [i \in 1..N |-> [t \in Int |-> t + ValueOf(log[i])]]
           G == [i \in 1..N |-> [t \in Int |-> t + ValueOf(log[i]) * ValueOf(log[i])]]
<1>1. N \in Nat /\ \A i \in 1..N : ValueOf(log[i]) \in Int
  BY ValuesOfLog
<1>2. F \in [1..N -> [Int -> Int]] /\ G \in [1..N -> [Int -> Int]]
  BY <1>1
<1>3. \A i \in 1..N, t \in Int : F[i][t] = t + ValueOf(log[i]) /\ G[i][t] = t + ValueOf(log[i]) * ValueOf(log[i])
  OBVIOUS
<1> HIDE DEF F, G, N
<1>4. PICK s \in [0..N -> Int] : Chain(s, N, F, 0)
  <2>1. 0 \in Int /\ N \in Nat /\ F \in [1..N -> [Int -> Int]]
    BY <1>1, <1>2
  <2> QED
    BY <2>1, ChainExists
<1>5. PICK q \in [0..N -> Int] : Chain(q, N, G, 0)
  <2>1. 0 \in Int /\ N \in Nat /\ G \in [1..N -> [Int -> Int]]
    BY <1>1, <1>2
  <2> QED
    BY <2>1, ChainExists
<1>6. \A i \in 1..N : s[i - 1] \in Int /\ q[i - 1] \in Int
  <2>1. \A i \in 1..N : i - 1 \in 0..N
    BY <1>1
  <2> QED
    BY <2>1
<1>7. Moments(log, s, q)
  BY <1>3, <1>4, <1>5, <1>6 DEF Moments, Chain, N
<1> QED
  BY <1>7

\* The total of the events before an index is the running sum there.
LEMMA TotalIsMoment ==
  ASSUME NEW log \in Seq(LedgerTx), NEW n \in 0..Len(log), NEW s, NEW q, Moments(log, s, q)
  PROVE  TotalValue(log, n) = s[n]
<1>1. PICK past \in Seq(LedgerTx) : past = UpTo(log, n) /\ Len(past) = n /\ \A i \in 1..n : past[i] = log[i]
  BY UpToIs
<1>2. TotalValue(log, n) = Totalled(past)
  BY <1>1 DEF TotalValue, Totalled
<1>3. PICK r \in [0..n -> Int] : /\ r[0] = 0 /\ \A i \in 1..n : r[i] = r[i - 1] + ValueOf(past[i])
                                /\ Totalled(past) = r[n]
  BY <1>1, TotalledChain
<1> DEFINE F == [i \in 1..n |-> [t \in Int |-> t + ValueOf(log[i])]]
<1>4. n \in Nat /\ Len(log) \in Nat /\ n \in 0..n /\ \A i \in 1..n : i - 1 \in 0..n /\ i - 1 \in 0..Len(log) /\ i \in 1..Len(log)
  BY LenProperties
<1>5. Chain(r, n, F, 0)
  BY <1>1, <1>3, <1>4 DEF Chain
<1>6. Chain(s, n, F, 0)
  BY <1>4 DEF Chain, Moments
<1> HIDE DEF F
<1>7. r[n] = s[n]
  BY <1>4, <1>5, <1>6, ChainsAgree
<1> QED
  BY <1>2, <1>3, <1>7

\* The squared distances from the mean, out of the moments alone.
LEMMA SpreadIsMoments ==
  ASSUME NEW log \in Seq(LedgerTx), NEW n \in 0..Len(log), NEW s, NEW q, Moments(log, s, q)
  PROVE  Spread(log, n) = n * (n * q[n] - s[n] * s[n])
<1>1. n \in Nat /\ Len(log) \in Nat /\ n <= Len(log)
  BY LenProperties
<1>2. PICK t \in Int : t = s[n]
  BY <1>1 DEF Moments
<1> DEFINE f == [k \in 1..n |-> Off(log, n, k) * Off(log, n, k)]
<1>3. \A k \in 1..n : ValueOf(log[k]) \in Int /\ Off(log, n, k) = n * ValueOf(log[k]) - t /\ Off(log, n, k) \in Int
  <2>1. TotalValue(log, n) = t
    BY <1>2, TotalIsMoment
  <2>2. ASSUME NEW k \in 1..n PROVE ValueOf(log[k]) \in Int
    <3>1. k \in 1..Len(log)
      BY <1>1
    <3> QED
      BY <3>1, ValuesOfLog
  <2> QED
    BY <1>1, <2>1, <2>2 DEF Off
<1>4. f \in [1..n -> Int] /\ \A k \in 1..n : f[k] = Off(log, n, k) * Off(log, n, k)
  <2>1. \A k \in 1..n : Off(log, n, k) * Off(log, n, k) \in Int
    BY <1>3
  <2> QED
    BY <2>1
<1>5. IsFiniteSet(1..n)
  BY <1>1, FS_Interval
<1> HIDE DEF f
<1>6. Spread(log, n) = Sum(f, 1..n)
  <2>1. PICK D : D = 1..n
    OBVIOUS
  <2>2. MapThenSumSet(LAMBDA k : Off(log, n, k) * Off(log, n, k), D) = Sum(f, D)
    BY <1>4, <1>5, <2>1, SquaresAdd
  <2> QED
    BY <2>1, <2>2 DEF Spread
<1> DEFINE Told(m) == Sum(f, 1..m) = (n * n) * q[m] - 2 * ((n * t) * s[m]) + m * (t * t)
           Bad == {m \in 0..n : ~Told(m)}
<1>7. Bad = {}
  <2>1. SUFFICES ASSUME Bad # {} PROVE FALSE
    OBVIOUS
  <2>2. PICK m \in Bad : \A y \in Bad : m <= y
    <3>1. Bad \subseteq Nat
      BY <1>1
    <3> HIDE DEF Bad
    <3> QED
      BY <2>1, <3>1, Least
  <2>3. m # 0
    <3>1. Sum(f, {}) = 0 /\ 1..0 = {}
      BY <1>4, <1>5, SumOne
    <3>2. s[0] = 0 /\ q[0] = 0
      BY DEF Moments
    <3>3. (n * n) * 0 - 2 * ((n * t) * 0) + 0 * (t * t) = 0
      BY <1>1
    <3>4. Told(0)
      BY <3>1, <3>2, <3>3
    <3> QED
      BY <2>2, <3>4
  <2>4. m \in 1..n /\ m - 1 \in 0..n /\ m \in 0..n /\ m \in Nat \ {0} /\ m \in 1..Len(log) /\ m - 1 \in 0..Len(log) /\ ~Told(m)
    BY <1>1, <2>2, <2>3
  <2>5. Told(m - 1)
    BY <1>1, <2>2, <2>4
  <2> HIDE DEF Bad, Told
  <2>6. Sum(f, 1..m) = f[m] + Sum(f, 1..(m - 1))
    <3>1. m \in 1..m /\ 1..m \in SUBSET (1..n) /\ (1..m) \ {m} = 1..(m - 1)
      <4>1. m \in 1..m /\ 1..m \in SUBSET (1..n)
        BY <1>1, <2>4
      <4>2. (1..m) \ {m} = 1..(m - 1)
        <5>1. m \in Nat \ {0}
          BY <2>4
        <5> QED
          BY <5>1, LastOfPrefix
      <4> QED
        BY <4>1, <4>2
    <3> QED
      <4>1. PICK D, t1 : D = 1..n /\ t1 = 1..m
        OBVIOUS
      <4>2. f \in [D -> Int] /\ IsFiniteSet(D) /\ t1 \in SUBSET D /\ m \in t1 /\ t1 \ {m} = 1..(m - 1)
        BY <1>4, <1>5, <3>1, <4>1
      <4>3. Sum(f, t1) = f[m] + Sum(f, t1 \ {m})
        BY <4>2, SumOne
      <4> QED
        BY <4>1, <4>2, <4>3
  <2>7. PICK v \in Int : v = ValueOf(log[m])
    BY <1>3, <2>4
  <2>8. PICK a, b \in Int : a = q[m - 1] /\ b = s[m - 1]
    BY <2>4 DEF Moments
  <2>9. q[m] = a + v * v /\ s[m] = b + v /\ f[m] = (n * v - t) * (n * v - t)
    BY <1>3, <1>4, <2>4, <2>7, <2>8 DEF Moments
  <2>10. Sum(f, 1..(m - 1)) = (n * n) * a - 2 * ((n * t) * b) + (m - 1) * (t * t)
    BY <2>5, <2>8 DEF Told
  <2>11. ((n * n) * a - 2 * ((n * t) * b) + (m - 1) * (t * t)) + (n * v - t) * (n * v - t)
           = (n * n) * (a + v * v) - 2 * ((n * t) * (b + v)) + m * (t * t)
    BY <1>1, <2>4, SquareGrows
  <2>12. f[m] \in Int /\ Sum(f, 1..(m - 1)) \in Int
    <3>1. 1..(m - 1) \in SUBSET (1..n)
      BY <1>1, <2>4
    <3> QED
      BY <1>4, <1>5, <2>4, <3>1, SumOne
  <2>13. Sum(f, 1..m) = Sum(f, 1..(m - 1)) + f[m]
    BY <2>6, <2>12
  <2>14. Told(m)
    BY <2>9, <2>10, <2>11, <2>13 DEF Told
  <2> QED
    BY <2>4, <2>14
<1>8. Told(n)
  <2>1. n \in 0..n
    BY <1>1
  <2> QED
    BY <1>7, <2>1
<1>9. (n * n) * q[n] - 2 * ((n * t) * t) + n * (t * t) = n * (n * q[n] - t * t)
  <2>1. q[n] \in Int /\ n \in Int
    BY <1>1 DEF Moments
  <2> QED
    BY <2>1, ScaledSpread
<1> QED
  BY <1>2, <1>6, <1>8, <1>9

-----------------------------------------------------------------------------
(* The detector: what one transaction adds to its findings.                *)

\* Two transactions with the signature of a third have the same.
LEMMA SameAsBoth ==
  ASSUME NEW x \in LedgerTx, NEW y \in LedgerTx, NEW z \in LedgerTx,
         SameEntries(x, z), SameEntries(y, z)
  PROVE  SameEntries(x, y)
<1> DEFINE n == Len(z.entries)
<1>1. n \in Nat /\ DOMAIN x.entries = 1..n /\ DOMAIN y.entries = 1..n /\ DOMAIN z.entries = 1..n
      /\ Len(x.entries) = n /\ Len(y.entries) = n
  BY LenProperties DEF LedgerTx, SameEntries
<1> HIDE DEF n
<1>2. PICK p \in [1..n -> 1..n] : IsInjective(p) /\ \A i \in 1..n : x.entries[i] = z.entries[p[i]]
  BY <1>1 DEF SameEntries
<1>3. PICK q \in [1..n -> 1..n] : IsInjective(q) /\ \A i \in 1..n : y.entries[i] = z.entries[q[i]]
  BY <1>1 DEF SameEntries
<1>4. q \in Surjection(1..n, 1..n)
  <2>1. IsFiniteSet(1..n)
    <3>1. 1 \in Int /\ n \in Int
      BY <1>1
    <3> QED
      BY <3>1, FS_Interval, SMTT(30)
  <2>2. q \in Injection(1..n, 1..n)
    <3>1. q \in [1..n -> 1..n] /\ IsInjective(q)
      BY <1>3, Zenon
    <3> QED
      BY <3>1, Zenon DEF Injection
  <2> QED
    BY <2>1, <2>2, FS_Injection
<1>5. \A i \in 1..n : \E j \in 1..n : q[j] = p[i]
  BY <1>2, <1>4 DEF Surjection
<1>6. PICK h : h = [i \in 1..n |-> CHOOSE j \in 1..n : q[j] = p[i]]
  OBVIOUS
<1>7. h \in [1..n -> 1..n] /\ \A i \in 1..n : q[h[i]] = p[i]
  BY <1>5, <1>6
<1>8. IsInjective(h)
  BY <1>2, <1>7 DEF IsInjective
<1>9. \A i \in 1..n : x.entries[i] = y.entries[h[i]]
  BY <1>2, <1>3, <1>7
<1> QED
  BY <1>1, <1>7, <1>8, <1>9 DEF SameEntries

LEMMA SameAsItself ==
  ASSUME NEW x \in LedgerTx
  PROVE  SameEntries(x, x)
<1>1. PICK p : p = [i \in DOMAIN x.entries |-> i]
  OBVIOUS
<1>2. p \in [DOMAIN x.entries -> DOMAIN x.entries] /\ DOMAIN p = DOMAIN x.entries
      /\ \A i \in DOMAIN x.entries : p[i] = i
  BY <1>1
<1>3. IsInjective(p)
  BY <1>2 DEF IsInjective
<1> QED
  BY <1>2, <1>3 DEF SameEntries

Finding ==
  [kind : {"outlier", "unbalanced"}, tx : Nat] \cup [kind : {"duplicate"}, tx : Nat, first : Nat]
Detector == [found : Seq(Finding), n : Nat, sum : Int, squares : Int, seen : Seq(LedgerTx)]

FirstOf(seen, tx) == SelectInSeq(seen, LAMBDA y : SameEntries(y, tx))

\* The first transaction kept of a signature.
LEMMA FirstSeen ==
  ASSUME NEW seen \in Seq(LedgerTx), NEW tx
  PROVE  \/ FirstOf(seen, tx) = 0 /\ \A i \in 1..Len(seen) : ~SameEntries(seen[i], tx)
         \/ FirstOf(seen, tx) \in 1..Len(seen) /\ SameEntries(seen[FirstOf(seen, tx)], tx)
<1> DEFINE T == {i \in 1..Len(seen) : SameEntries(seen[i], tx)}
<1>1. FirstOf(seen, tx) = IF T # {} THEN Min(T) ELSE 0
  BY DEF FirstOf, SelectInSeq
<1>2. CASE T = {}
  BY <1>1, <1>2
<1>3. CASE T # {}
  <2>1. T \subseteq Nat
    BY LenProperties
  <2>2. \E m \in T : \A y \in T : m <= y
    <3> HIDE DEF T
    <3> QED
      BY <1>3, <2>1, Least
  <2>3. Min(T) \in T
    BY <2>2 DEF Min
  <2> QED
    BY <1>1, <1>3, <2>3
<1> QED
  BY <1>2, <1>3

\* A finding more.
LEMMA FoundGrows ==
  ASSUME NEW found \in Seq(Finding), NEW x \in Finding
  PROVE  Append(found, x) \in Seq(Finding) /\ ToSet(Append(found, x)) = ToSet(found) \cup {x}
<1>1. PICK more : more = Append(found, x)
  OBVIOUS
<1>2. /\ more \in Seq(Finding) /\ Len(more) = Len(found) + 1 /\ Len(found) \in Nat /\ more[Len(found) + 1] = x
      /\ \A i \in 1..Len(found) : more[i] = found[i]
  BY <1>1, AppendProperties, LenProperties
<1>3. DOMAIN more = 1..(Len(found) + 1) /\ DOMAIN found = 1..Len(found)
  BY <1>2, LenProperties
<1>4. \A i \in 1..(Len(found) + 1) : i \in 1..Len(found) \/ i = Len(found) + 1
  BY <1>2
<1>5. \A i \in 1..Len(found) : i \in 1..(Len(found) + 1)
  BY <1>2
<1>6. Len(found) + 1 \in 1..(Len(found) + 1)
  BY <1>2
<1>7. ToSet(more) = ToSet(found) \cup {x}
  BY <1>2, <1>3, <1>4, <1>5, <1>6 DEF ToSet
<1> QED
  BY <1>1, <1>2, <1>7

\* Keeping a transaction, or telling of its copy.
LEMMA ComparedIs ==
  ASSUME NEW d \in Detector, NEW tx \in LedgerTx
  PROVE  /\ Compared(d, tx) \in Detector
         /\ Compared(d, tx).n = d.n /\ Compared(d, tx).sum = d.sum /\ Compared(d, tx).squares = d.squares
         /\ \/ /\ \A i \in 1..Len(d.seen) : ~SameEntries(d.seen[i], tx)
               /\ Compared(d, tx).seen = Append(d.seen, tx) /\ Compared(d, tx).found = d.found
            \/ \E i \in 1..Len(d.seen) :
                 /\ SameEntries(d.seen[i], tx) /\ Compared(d, tx).seen = d.seen
                 /\ \/ d.seen[i].id = tx.id
                    \/ Compared(d, tx).found
                         = Append(d.found, [kind |-> "duplicate", tx |-> tx.id, first |-> d.seen[i].id])
<1>1. d.seen \in Seq(LedgerTx) /\ d.found \in Seq(Finding)
  BY DEF Detector
<1>2. PICK first : first = FirstOf(d.seen, tx)
  OBVIOUS
<1>3. \/ first = 0 /\ \A i \in 1..Len(d.seen) : ~SameEntries(d.seen[i], tx)
      \/ first \in 1..Len(d.seen) /\ SameEntries(d.seen[first], tx)
  BY <1>1, <1>2, FirstSeen
<1>4. Compared(d, tx) =
        IF first = 0 THEN [d EXCEPT !.seen = Append(@, tx)]
        ELSE IF d.seen[first].id = tx.id THEN d
        ELSE [d EXCEPT !.found = Append(@, [kind |-> "duplicate", tx |-> tx.id, first |-> d.seen[first].id])]
  BY <1>2 DEF Compared, FirstOf
<1>5. CASE first = 0
  <2>1. \A i \in 1..Len(d.seen) : ~SameEntries(d.seen[i], tx)
    <3>1. Len(d.seen) \in Nat
      BY <1>1, LenProperties
    <3> QED
      BY <1>3, <1>5, <3>1
  <2>2. PICK more \in Seq(LedgerTx) : more = Append(d.seen, tx)
    BY <1>1, AppendProperties
  <2>3. Compared(d, tx) = [d EXCEPT !.seen = more]
    BY <1>4, <1>5, <2>2
  <2>4. /\ Compared(d, tx) \in Detector
        /\ Compared(d, tx).n = d.n /\ Compared(d, tx).sum = d.sum /\ Compared(d, tx).squares = d.squares
        /\ Compared(d, tx).seen = more /\ Compared(d, tx).found = d.found
    BY <2>3 DEF Detector
  <2> QED
    BY <2>1, <2>2, <2>4
<1>6. CASE first # 0
  <2>1. first \in 1..Len(d.seen) /\ SameEntries(d.seen[first], tx) /\ d.seen[first] \in LedgerTx
    BY <1>1, <1>3, <1>6, ElementOfSeq
  <2>2. CASE d.seen[first].id = tx.id
    <3>1. Compared(d, tx) = d
      BY <1>4, <1>6, <2>2
    <3> QED
      BY <2>1, <2>2, <3>1
  <2>3. CASE d.seen[first].id # tx.id
    <3>1. PICK x : x = [kind |-> "duplicate", tx |-> tx.id, first |-> d.seen[first].id]
      OBVIOUS
    <3>2. x \in Finding
      BY <2>1, <3>1 DEF Finding, LedgerTx
    <3>3. PICK more \in Seq(Finding) : more = Append(d.found, x)
      BY <1>1, <3>2, AppendProperties
    <3>4. Compared(d, tx) = [d EXCEPT !.found = more]
      BY <1>4, <1>6, <2>3, <3>1, <3>3
    <3>5. /\ Compared(d, tx) \in Detector
          /\ Compared(d, tx).n = d.n /\ Compared(d, tx).sum = d.sum /\ Compared(d, tx).squares = d.squares
          /\ Compared(d, tx).seen = d.seen /\ Compared(d, tx).found = more
      BY <3>4 DEF Detector
    <3> QED
      BY <2>1, <3>1, <3>3, <3>5
  <2> QED
    BY <2>2, <2>3
<1> QED
  BY <1>5, <1>6

\* Measuring a transaction: the moments take its value, an outlier is told of.
LEMMA MeasuredIs ==
  ASSUME NEW d \in Detector, NEW tx \in LedgerTx
  PROVE  /\ Measured(d, tx) \in Detector /\ Measured(d, tx).seen = d.seen
         /\ Measured(d, tx).n = d.n + 1 /\ Measured(d, tx).sum = d.sum + ValueOf(tx)
         /\ Measured(d, tx).squares = d.squares + ValueOf(tx) * ValueOf(tx)
         /\ Measured(d, tx).found =
              IF IsOutlier(d, ValueOf(tx)) THEN Append(d.found, [kind |-> "outlier", tx |-> tx.id]) ELSE d.found
<1>1. PICK v \in Int : v = ValueOf(tx)
  BY ValueType DEF LedgerTx
<1>2. PICK x : x = [kind |-> "outlier", tx |-> tx.id]
  OBVIOUS
<1>3. x \in Finding
  BY <1>2 DEF Finding, LedgerTx
<1>4. d.found \in Seq(Finding) /\ Append(d.found, x) \in Seq(Finding)
  BY <1>3, AppendProperties DEF Detector
<1>5. PICK more \in Seq(Finding) : more = IF IsOutlier(d, v) THEN Append(d.found, x) ELSE d.found
  BY <1>4
<1>6. PICK e : e = IF IsOutlier(d, v) THEN [d EXCEPT !.found = Append(@, x)] ELSE d
  OBVIOUS
<1>7. e \in Detector /\ e.found = more /\ e.n = d.n /\ e.sum = d.sum /\ e.squares = d.squares /\ e.seen = d.seen
  BY <1>4, <1>5, <1>6 DEF Detector
<1>8. Measured(d, tx) = [e EXCEPT !.n = e.n + 1, !.sum = e.sum + v, !.squares = e.squares + v * v]
  BY <1>1, <1>2, <1>6 DEF Measured, WithSample
<1>9. PICK a, b, c : a = e.n + 1 /\ b = e.sum + v /\ c = e.squares + v * v
  OBVIOUS
<1>10. a \in Nat /\ b \in Int /\ c \in Int
  <2>1. v * v \in Int
    OBVIOUS
  <2>2. e.n \in Nat /\ e.sum \in Int /\ e.squares \in Int
    BY <1>7 DEF Detector
  <2> QED
    BY <1>9, <2>1, <2>2
<1>11. PICK m : m = [e EXCEPT !.n = a, !.sum = b, !.squares = c]
  OBVIOUS
<1>12. m \in Detector /\ m.n = a /\ m.sum = b /\ m.squares = c /\ m.found = e.found /\ m.seen = e.seen
  BY <1>7, <1>10, <1>11 DEF Detector
<1>13. Measured(d, tx) = m
  BY <1>8, <1>9, <1>11
<1> QED
  BY <1>1, <1>2, <1>5, <1>7, <1>9, <1>12, <1>13

LEMMA DetectType ==
  ASSUME NEW d \in Detector, NEW tx \in LedgerTx
  PROVE  Detect(d, tx) \in Detector
<1>1. CASE Validated(tx.entries)
  BY <1>1, ComparedIs, MeasuredIs DEF Detect
<1>2. CASE ~Validated(tx.entries)
  <2>1. PICK x : x = [kind |-> "unbalanced", tx |-> tx.id]
    OBVIOUS
  <2>2. x \in Finding
    BY <2>1 DEF Finding, LedgerTx
  <2>3. PICK more \in Seq(Finding) : more = Append(d.found, x)
    BY <2>2, AppendProperties DEF Detector
  <2>4. Detect(d, tx) = [d EXCEPT !.found = more]
    BY <1>2, <2>1, <2>3 DEF Detect
  <2> QED
    BY <2>4 DEF Detector
<1> QED
  BY <1>1, <1>2

-----------------------------------------------------------------------------
(* The detector over a log against a second pass.                          *)

\* Detecting over a log: one state of the detector after each transaction.
LEMMA DetectChain ==
  ASSUME NEW log \in Seq(LedgerTx)
  PROVE  \E r \in [0..Len(log) -> Detector] :
           /\ r[0] = FreshDetector /\ \A i \in 1..Len(log) : r[i] = Detect(r[i - 1], log[i])
           /\ FoldLeft(Detect, FreshDetector, log) = r[Len(log)]
<1> DEFINE N == Len(log)
           F == [i \in 1..N |-> [t \in Detector |-> Detect(t, log[i])]]
           Body(h, s) == IF s = {} THEN FreshDetector
                         ELSE Detect(h[s \ {Max(s)}], log[Max(s)])
           iter == CHOOSE h : h = [s \in SUBSET (DOMAIN log) |-> Body(h, s)]
<1>1. N \in Nat /\ DOMAIN log = 1..N /\ \A i \in 1..N : log[i] \in LedgerTx
  BY ElementOfSeq
<1>2. FoldLeft(Detect, FreshDetector, log) = iter[DOMAIN log]
  BY DEF FoldLeft, MapThenFoldSet
<1>3. F \in [1..N -> [Detector -> Detector]]
  BY <1>1, DetectType
<1>4. \A s \in (SUBSET (1..N)) \ {{}} : Max(s) \in 1..N /\ s \ {Max(s)} \in SUBSET (1..N)
  <2>1. ASSUME NEW s \in (SUBSET (1..N)) \ {{}} PROVE Max(s) \in s
    <3>1. s \subseteq 0..N /\ s # {}
      OBVIOUS
    <3> QED
      BY <1>1, <3>1, Greatest
  <2> QED
    BY <2>1
<1>5. \A h, s : s \in (SUBSET (1..N)) \ {{}} /\ h[s \ {Max(s)}] \in Detector
                => F[Max(s)][h[s \ {Max(s)}]] = Body(h, s)
  BY <1>4
<1>6. \A h : Body(h, {}) = FreshDetector
  OBVIOUS
<1> HIDE DEF Body, F, N, iter
<1>7. Foldable(N, Detector, F, FreshDetector)
  <2>1. FreshDetector \in Detector /\ N \in Nat
    BY <1>1 DEF FreshDetector, Detector
  <2> QED
    BY <1>3, <2>1, FoldRule
<1>8. PICK g \in [SUBSET (1..N) -> Detector], r \in [0..N -> Detector] :
        /\ Unfolds(g, N, F, FreshDetector) /\ Chain(r, N, F, FreshDetector)
        /\ \A h : Follows(h, N, Detector, F, FreshDetector) => h[1..N] = r[N]
  BY <1>7 DEF Foldable
<1>9. g = [s \in SUBSET (DOMAIN log) |-> Body(g, s)]
  <2>1. ASSUME NEW s \in SUBSET (1..N) PROVE g[s] = Body(g, s)
    BY <1>4, <1>5, <1>6, <1>8 DEF Unfolds
  <2> QED
    BY <1>1, <2>1
<1>10. iter = [s \in SUBSET (DOMAIN log) |-> Body(iter, s)]
  BY <1>9 DEF iter
<1>11. Follows(iter, N, Detector, F, FreshDetector)
  BY <1>1, <1>5, <1>6, <1>10 DEF Follows
<1>12. iter[1..N] = r[N]
  BY <1>8, <1>11
<1>13. \A i \in 1..N : r[i] = Detect(r[i - 1], log[i])
  <2>1. ASSUME NEW i \in 1..N PROVE r[i] = Detect(r[i - 1], log[i])
    <3>1. i - 1 \in 0..N /\ r[i - 1] \in Detector
      BY <1>1, <1>8
    <3> QED
      BY <1>8, <3>1 DEF Chain, F
  <2> QED
    BY <2>1
<1> QED
  BY <1>1, <1>2, <1>8, <1>12, <1>13 DEF Chain, N


\* No transaction before the k-th has its signature.
Original(log, k) == \A h \in 1..(k - 1) : ~SameEntries(log[h], log[k])

\* What a second pass over the first m transactions finds.
IsCopy(log, m, x) ==
  \E k \in 1..m : \E h \in 1..(k - 1) :
    SameEntries(log[h], log[k]) /\ Original(log, h)
    /\ x = [kind |-> "duplicate", tx |-> log[k].id, first |-> log[h].id]
IsFar(log, m, x) == \E k \in 1..m : Far(log, k) /\ x = [kind |-> "outlier", tx |-> log[k].id]

LEMMA TwoPassIs ==
  ASSUME NEW log \in Seq(LedgerTx), NEW x
  PROVE  x \in TwoPass(log) <=> IsCopy(log, Len(log), x) \/ IsFar(log, Len(log), x)
<1>1. Len(log) \in Nat /\ DOMAIN log = 1..Len(log)
  BY LenProperties
<1>2. x \in {[kind |-> "outlier", tx |-> log[j].id] : j \in {i \in DOMAIN log : Far(log, i)}}
        <=> IsFar(log, Len(log), x)
  BY <1>1 DEF IsFar
<1>3. ASSUME NEW p \in Copies(log), x = [kind |-> "duplicate", tx |-> log[p[2]].id, first |-> log[p[1]].id]
      PROVE  IsCopy(log, Len(log), x)
  <2>1. p[1] \in 1..Len(log) /\ p[2] \in 1..Len(log) /\ p[1] < p[2] /\ SameEntries(log[p[1]], log[p[2]])
        /\ Original(log, p[1])
    BY <1>1, <1>3 DEF Copies, Original
  <2>2. p[1] \in 1..(p[2] - 1)
    BY <1>1, <2>1
  <2> QED
    BY <1>3, <2>1, <2>2 DEF IsCopy
<1>4. ASSUME IsCopy(log, Len(log), x)
      PROVE  \E p \in Copies(log) : x = [kind |-> "duplicate", tx |-> log[p[2]].id, first |-> log[p[1]].id]
  <2>1. PICK k \in 1..Len(log) : \E h \in 1..(k - 1) :
          SameEntries(log[h], log[k]) /\ Original(log, h)
          /\ x = [kind |-> "duplicate", tx |-> log[k].id, first |-> log[h].id]
    BY <1>4 DEF IsCopy
  <2>2. PICK h \in 1..(k - 1) :
          SameEntries(log[h], log[k]) /\ Original(log, h)
          /\ x = [kind |-> "duplicate", tx |-> log[k].id, first |-> log[h].id]
    BY <2>1
  <2>3. PICK p : p = <<h, k>>
    OBVIOUS
  <2>4. h \in 1..Len(log) /\ h < k /\ p \in (DOMAIN log) \X (DOMAIN log) /\ p[1] = h /\ p[2] = k
    BY <1>1, <2>3
  <2>5. p \in Copies(log)
    BY <2>2, <2>4 DEF Copies, Original
  <2> QED
    BY <2>2, <2>4, <2>5
<1>5. x \in {[kind |-> "duplicate", tx |-> log[p[2]].id, first |-> log[p[1]].id] : p \in Copies(log)}
        <=> IsCopy(log, Len(log), x)
  BY <1>3, <1>4
<1> QED
  BY <1>2, <1>5 DEF TwoPass

\* Somewhere before a copy is the original of its signature.
LEMMA OriginalBefore ==
  ASSUME NEW log \in Seq(LedgerTx), NEW m \in 1..Len(log), ~Original(log, m)
  PROVE  \E p \in 1..(m - 1) : SameEntries(log[p], log[m]) /\ Original(log, p)
<1> DEFINE T == {h \in 1..(m - 1) : SameEntries(log[h], log[m])}
<1>1. Len(log) \in Nat /\ m \in Nat /\ \A i \in 1..Len(log) : log[i] \in LedgerTx
  BY ValuesOfLog
<1>2. T \subseteq Nat /\ T # {}
  BY <1>1 DEF Original
<1>3. PICK p \in T : \A y \in T : p <= y
  <2> HIDE DEF T
  <2> QED
    BY <1>2, Least
<1>4. ASSUME NEW h \in 1..(p - 1), SameEntries(log[h], log[p]) PROVE FALSE
  <2>1. h \in 1..(m - 1) /\ h < p /\ h \in 1..Len(log) /\ p \in 1..Len(log) /\ m \in 1..Len(log)
    BY <1>1, <1>3
  <2>2. log[h] \in LedgerTx /\ log[p] \in LedgerTx /\ log[m] \in LedgerTx
    BY <1>1, <2>1
  <2>3. SameEntries(log[p], log[m])
    BY <1>3
  <2>4. SameEntries(log[m], log[m])
    BY <2>2, SameAsItself
  <2>5. SameEntries(log[m], log[p])
    BY <2>2, <2>3, <2>4, SameAsBoth
  <2>6. SameEntries(log[h], log[m])
    BY <1>4, <2>2, <2>5, SameAsBoth
  <2> QED
    BY <1>1, <1>3, <2>1, <2>6
<1> QED
  BY <1>3, <1>4 DEF Original

\* Of two originals with the signature of a third transaction there is only one.
LEMMA OneOriginal ==
  ASSUME NEW log \in Seq(LedgerTx), NEW m \in 1..Len(log), NEW h \in 1..Len(log), NEW p \in 1..Len(log),
         SameEntries(log[h], log[m]), SameEntries(log[p], log[m]), Original(log, h), Original(log, p)
  PROVE  h = p
<1>1. Len(log) \in Nat /\ log[m] \in LedgerTx /\ log[h] \in LedgerTx /\ log[p] \in LedgerTx
  BY ValuesOfLog
<1>2. SameEntries(log[h], log[p]) /\ SameEntries(log[p], log[h])
  BY <1>1, SameAsBoth
<1>3. ~(h \in 1..(p - 1)) /\ ~(p \in 1..(h - 1))
  BY <1>2 DEF Original
<1> QED
  BY <1>1, <1>3

\* What the moments say of a value is what a second pass says.
LEMMA OutlierIsFar ==
  ASSUME NEW log \in Seq(LedgerTx), NEW m \in 1..Len(log), NEW s, NEW q, Moments(log, s, q),
         NEW d \in Detector, d.n = m - 1, d.sum = s[m - 1], d.squares = q[m - 1]
  PROVE  IsOutlier(d, ValueOf(log[m])) <=> Far(log, m)
<1>1. Len(log) \in Nat /\ m \in Nat \ {0} /\ m - 1 \in Nat /\ m - 1 \in 0..Len(log)
  BY ValuesOfLog
<1>2. PICK n \in Nat : n = m - 1 /\ n \in 0..Len(log)
  BY <1>1
<1>3. PICK v \in Int : v = ValueOf(log[m])
  BY ValuesOfLog
<1>4. PICK t, w \in Int : t = s[n] /\ w = q[n]
  BY <1>2 DEF Moments
<1>5. TotalValue(log, n) = t /\ Spread(log, n) = n * (n * w - t * t)
  BY <1>2, <1>4, TotalIsMoment, SpreadIsMoments
<1>6. PICK c \in Int : c = n * w - t * t
  OBVIOUS
<1>7. PICK o \in Int : o = n * v - t
  OBVIOUS
<1>8. Off(log, n, m) = o
  BY <1>3, <1>5, <1>7 DEF Off
<1>9. IsOutlier(d, v) <=> n >= MinSamples /\ c > 0 /\ o * o > ZSquared * c
  BY <1>2, <1>4, <1>6, <1>7 DEF IsOutlier
<1>10. Far(log, m) <=> n >= MinSamples /\ n * c > 0 /\ n * o * o > ZSquared * (n * c)
  BY <1>2, <1>5, <1>6, <1>8 DEF Far
<1>11. CASE n = 0
  <2>1. c = 0 - t * t /\ t = 0
    <3>1. s[0] = 0
      BY DEF Moments
    <3> QED
      BY <1>4, <1>6, <1>11, <3>1
  <2>2. c = 0 /\ n * c = 0
    BY <1>11, <2>1
  <2> QED
    BY <1>3, <1>9, <1>10, <2>2
<1>12. CASE n # 0
  <2>1. n \in Nat \ {0}
    BY <1>12
  <2>2. n * c > n * 0 <=> c > 0
    BY <2>1, ScaledOrder
  <2>3. n * 0 = 0
    OBVIOUS
  <2>4. PICK a, b \in Int : a = o * o /\ b = ZSquared * c
    BY LedgerApiAssumption
  <2>5. n * o * o = n * a /\ ZSquared * (n * c) = n * b
    BY <2>4, LedgerApiAssumption
  <2>6. n * a > n * b <=> a > b
    BY <2>1, ScaledOrder
  <2> QED
    BY <1>3, <1>9, <1>10, <2>2, <2>3, <2>4, <2>5, <2>6
<1> QED
  BY <1>11, <1>12

\* A log the server can have: its transactions are valid, and no two have one id.
Sound(log) ==
  /\ \A i \in 1..Len(log) : Validated(log[i].entries)
  /\ \A i, j \in 1..Len(log) : i # j => log[i].id # log[j].id

\* The transactions kept are the originals among the first m.
Keeps(log, m, seen) ==
  /\ \A j \in 1..Len(seen) : \E k \in 1..m : seen[j] = log[k] /\ Original(log, k)
  /\ \A k \in 1..m : Original(log, k) => \E j \in 1..Len(seen) : seen[j] = log[k]

\* y is told of the m-th transaction as a copy.
CopyOf(log, m, y) ==
  \E h \in 1..(m - 1) : SameEntries(log[h], log[m]) /\ Original(log, h)
    /\ y = [kind |-> "duplicate", tx |-> log[m].id, first |-> log[h].id]

TellsCopies(log, m, before, after) == \A x : x \in ToSet(after) <=> x \in ToSet(before) \/ CopyOf(log, m, x)

\* What the detector knows after m transactions.
Knows(log, m, d, s, q) ==
  /\ d.n = m /\ d.sum = s[m] /\ d.squares = q[m]
  /\ Keeps(log, m, d.seen)
  /\ \A x : x \in ToSet(d.found) <=> IsCopy(log, m, x) \/ IsFar(log, m, x)

\* The copies among one transaction more.
LEMMA CopiesNext ==
  ASSUME NEW log, NEW m \in Nat \ {0}, NEW x
  PROVE  IsCopy(log, m, x) <=>
           IsCopy(log, m - 1, x) \/ CopyOf(log, m, x)
<1>1. \A k \in 1..m : k \in 1..(m - 1) \/ k = m
  OBVIOUS
<1>2. \A k \in 1..(m - 1) : k \in 1..m
  OBVIOUS
<1>3. m \in 1..m
  OBVIOUS
<1> QED
  BY <1>1, <1>2, <1>3 DEF IsCopy, CopyOf

LEMMA FarNext ==
  ASSUME NEW log, NEW m \in Nat \ {0}, NEW x
  PROVE  IsFar(log, m, x) <=>
           \/ IsFar(log, m - 1, x)
           \/ Far(log, m) /\ x = [kind |-> "outlier", tx |-> log[m].id]
<1>1. \A k \in 1..m : k \in 1..(m - 1) \/ k = m
  OBVIOUS
<1>2. \A k \in 1..(m - 1) : k \in 1..m
  OBVIOUS
<1>3. m \in 1..m
  OBVIOUS
<1> QED
  BY <1>1, <1>2, <1>3 DEF IsFar

\* Comparing the m-th transaction: the originals up to it are kept, and its copy told.
LEMMA ComparedKnows ==
  ASSUME NEW log \in Seq(LedgerTx), Sound(log), NEW m \in 1..Len(log),
         NEW d \in Detector, NEW e, e = Compared(d, log[m]), Keeps(log, m - 1, d.seen)
  PROVE  Keeps(log, m, e.seen) /\ TellsCopies(log, m, d.found, e.found)
<1>9. /\ \A j \in 1..Len(d.seen) : \E k \in 1..(m - 1) : d.seen[j] = log[k] /\ Original(log, k)
      /\ \A k \in 1..(m - 1) : Original(log, k) => \E j \in 1..Len(d.seen) : d.seen[j] = log[k]
  BY DEF Keeps
<1>1. e \in Detector
  BY ValuesOfLog, ComparedIs
<1>2. Len(log) \in Nat /\ m \in Nat \ {0} /\ log[m] \in LedgerTx /\ \A k \in 1..(m - 1) : k \in 1..m /\ k \in 1..Len(log)
  BY ValuesOfLog
<1>3. \A k \in 1..m : k \in 1..(m - 1) \/ k = m
  BY <1>2
<1>4. d.seen \in Seq(LedgerTx) /\ d.found \in Seq(Finding) /\ Len(d.seen) \in Nat
  BY LenProperties DEF Detector
<1>5. \/ /\ \A i \in 1..Len(d.seen) : ~SameEntries(d.seen[i], log[m])
         /\ e.seen = Append(d.seen, log[m]) /\ e.found = d.found
      \/ \E i \in 1..Len(d.seen) :
           /\ SameEntries(d.seen[i], log[m]) /\ e.seen = d.seen
           /\ \/ d.seen[i].id = log[m].id
              \/ e.found = Append(d.found, [kind |-> "duplicate", tx |-> log[m].id, first |-> d.seen[i].id])
  BY <1>1, <1>2, ComparedIs
<1>6. CASE /\ \A i \in 1..Len(d.seen) : ~SameEntries(d.seen[i], log[m])
           /\ e.seen = Append(d.seen, log[m]) /\ e.found = d.found
  <2>1. \A h \in 1..(m - 1) : ~(SameEntries(log[h], log[m]) /\ Original(log, h))
    BY <1>6, <1>9
  <2>2. Original(log, m)
    BY <2>1, OriginalBefore
  <2>3. /\ Len(e.seen) = Len(d.seen) + 1 /\ e.seen[Len(d.seen) + 1] = log[m]
        /\ \A i \in 1..Len(d.seen) : e.seen[i] = d.seen[i]
    BY <1>2, <1>4, <1>6, AppendProperties
  <2>4. ASSUME NEW j \in 1..Len(e.seen) PROVE \E k \in 1..m : e.seen[j] = log[k] /\ Original(log, k)
    <3>1. CASE j = Len(d.seen) + 1
      <4>1. m \in 1..m
        BY <1>2
      <4> QED
        BY <2>2, <2>3, <3>1, <4>1
    <3>2. CASE j # Len(d.seen) + 1
      <4>1. j \in 1..Len(d.seen)
        BY <1>4, <2>3, <3>2
      <4>2. PICK k \in 1..(m - 1) : d.seen[j] = log[k] /\ Original(log, k)
        BY <1>9, <4>1
      <4> QED
        BY <1>2, <2>3, <4>1, <4>2
    <3> QED
      BY <3>1, <3>2
  <2>5. ASSUME NEW k \in 1..m, Original(log, k) PROVE \E j \in 1..Len(e.seen) : e.seen[j] = log[k]
    <3>1. CASE k = m
      <4>1. Len(d.seen) + 1 \in 1..Len(e.seen)
        BY <1>4, <2>3
      <4> QED
        BY <2>3, <3>1, <4>1
    <3>2. CASE k # m
      <4>1. PICK j \in 1..Len(d.seen) : d.seen[j] = log[k]
        BY <1>3, <1>9, <2>5, <3>2
      <4>2. j \in 1..Len(e.seen)
        BY <1>4, <2>3
      <4> QED
        BY <2>3, <4>1, <4>2
    <3> QED
      BY <3>1, <3>2
  <2> QED
    BY <1>6, <2>1, <2>4, <2>5 DEF Keeps, TellsCopies, CopyOf
<1>7. ASSUME NEW i \in 1..Len(d.seen), SameEntries(d.seen[i], log[m]), e.seen = d.seen,
             \/ d.seen[i].id = log[m].id
             \/ e.found = Append(d.found, [kind |-> "duplicate", tx |-> log[m].id, first |-> d.seen[i].id])
      PROVE  Keeps(log, m, e.seen) /\ TellsCopies(log, m, d.found, e.found)
  <2>1. PICK p \in 1..(m - 1) : d.seen[i] = log[p] /\ Original(log, p)
    BY <1>9
  <2>2. p \in 1..Len(log) /\ p # m /\ log[p].id # log[m].id /\ SameEntries(log[p], log[m]) /\ log[p] \in LedgerTx
    BY <1>2, <1>7, <2>1, ValuesOfLog DEF Sound
  <2>3. PICK y : y = [kind |-> "duplicate", tx |-> log[m].id, first |-> log[p].id]
    OBVIOUS
  <2>4. y \in Finding
    BY <1>2, <2>2, <2>3 DEF Finding, LedgerTx
  <2>5. e.found = Append(d.found, y)
    BY <1>7, <2>1, <2>2, <2>3
  <2>6. ToSet(e.found) = ToSet(d.found) \cup {y}
    BY <1>4, <2>4, <2>5, FoundGrows
  <2>7. ASSUME NEW h \in 1..(m - 1), SameEntries(log[h], log[m]), Original(log, h) PROVE h = p
    BY <1>2, <2>1, <2>2, <2>7, OneOriginal
  <2>8. ~Original(log, m)
    BY <2>1, <2>2 DEF Original
  <2>9. \A j \in 1..Len(e.seen) : \E k \in 1..m : e.seen[j] = log[k] /\ Original(log, k)
    BY <1>2, <1>7, <1>9
  <2>10. \A k \in 1..m : Original(log, k) => \E j \in 1..Len(e.seen) : e.seen[j] = log[k]
    BY <1>3, <1>7, <1>9, <2>8
  <2>11. TellsCopies(log, m, d.found, e.found)
    <3>1. ASSUME NEW x PROVE x = y <=> CopyOf(log, m, x)
      BY <2>1, <2>2, <2>3, <2>7 DEF CopyOf
    <3>2. ASSUME NEW x PROVE x \in ToSet(e.found) <=> x \in ToSet(d.found) \/ x = y
      BY <2>6
    <3> QED
      BY <3>1, <3>2 DEF TellsCopies
  <2> QED
    BY <2>9, <2>10, <2>11 DEF Keeps
<1> QED
  BY <1>1, <1>5, <1>6, <1>7

LEMMA KnowsNext ==
  ASSUME NEW log \in Seq(LedgerTx), Sound(log), NEW m \in 1..Len(log), NEW s, NEW q, Moments(log, s, q),
         NEW d \in Detector, Knows(log, m - 1, d, s, q)
  PROVE  Knows(log, m, Detect(d, log[m]), s, q)
<1>1. Len(log) \in Nat /\ m \in Nat \ {0} /\ log[m] \in LedgerTx /\ ValueOf(log[m]) \in Int /\ Validated(log[m].entries)
  BY ValuesOfLog DEF Sound
<1>2. PICK e \in Detector : e = Compared(d, log[m]) /\ e.n = d.n /\ e.sum = d.sum /\ e.squares = d.squares
  BY <1>1, ComparedIs
<1>3. PICK f \in Detector : f = Measured(e, log[m])
  BY <1>1, MeasuredIs
<1>4. Detect(d, log[m]) = f
  BY <1>1, <1>2, <1>3 DEF Detect
<1>5. /\ f.seen = e.seen /\ f.n = e.n + 1 /\ f.sum = e.sum + ValueOf(log[m])
      /\ f.squares = e.squares + ValueOf(log[m]) * ValueOf(log[m])
      /\ f.found = IF IsOutlier(e, ValueOf(log[m]))
                   THEN Append(e.found, [kind |-> "outlier", tx |-> log[m].id]) ELSE e.found
  BY <1>1, <1>3, MeasuredIs
<1>6. Keeps(log, m, e.seen) /\ TellsCopies(log, m, d.found, e.found)
  <2>1. Keeps(log, m - 1, d.seen)
    BY DEF Knows
  <2> QED
    BY <1>2, <2>1, ComparedKnows
<1>7. e.n = m - 1 /\ e.sum = s[m - 1] /\ e.squares = q[m - 1]
  BY <1>2 DEF Knows
<1>8. IsOutlier(e, ValueOf(log[m])) <=> Far(log, m)
  BY <1>7, OutlierIsFar
<1>9. PICK y : y = [kind |-> "outlier", tx |-> log[m].id]
  OBVIOUS
<1>10. y \in Finding /\ e.found \in Seq(Finding)
  BY <1>1, <1>9 DEF Finding, LedgerTx, Detector
<1>11. \A x : x \in ToSet(f.found) <=> x \in ToSet(e.found) \/ (Far(log, m) /\ x = y)
  <2>1. CASE Far(log, m)
    <3>1. f.found = Append(e.found, y)
      BY <1>5, <1>8, <1>9, <2>1
    <3>2. ToSet(f.found) = ToSet(e.found) \cup {y}
      BY <1>10, <3>1, FoundGrows
    <3> QED
      BY <2>1, <3>2
  <2>2. CASE ~Far(log, m)
    BY <1>5, <1>8, <2>2
  <2> QED
    BY <2>1, <2>2
<1>12. f.n = m /\ f.sum = s[m] /\ f.squares = q[m]
  BY <1>1, <1>5, <1>7 DEF Moments
<1>13. ASSUME NEW x PROVE x \in ToSet(f.found) <=> IsCopy(log, m, x) \/ IsFar(log, m, x)
  <2>1. x \in ToSet(d.found) <=> IsCopy(log, m - 1, x) \/ IsFar(log, m - 1, x)
    BY DEF Knows
  <2>2. x \in ToSet(f.found) <=> x \in ToSet(e.found) \/ (Far(log, m) /\ x = y)
    BY <1>11
  <2>3. x \in ToSet(e.found) <=> x \in ToSet(d.found) \/ CopyOf(log, m, x)
    BY <1>6 DEF TellsCopies
  <2>4. IsFar(log, m, x) <=> IsFar(log, m - 1, x) \/ (Far(log, m) /\ x = y)
    BY <1>1, <1>9, FarNext
  <2>5. IsCopy(log, m, x) <=> IsCopy(log, m - 1, x) \/ CopyOf(log, m, x)
    BY <1>1, CopiesNext
  <2> QED
    BY <2>1, <2>2, <2>3, <2>4, <2>5
<1> QED
  BY <1>4, <1>5, <1>6, <1>12, <1>13 DEF Knows

\* Streaming finds what the second pass finds.
LEMMA DetectorFinds ==
  ASSUME NEW log \in Seq(LedgerTx), Sound(log)
  PROVE  Findings(log) = TwoPass(log)
<1> DEFINE N == Len(log)
<1>1. N \in Nat
  BY LenProperties
<1>2. PICK s, q : Moments(log, s, q)
  BY MomentsExist
<1>3. PICK r \in [0..N -> Detector] :
        /\ r[0] = FreshDetector /\ \A i \in 1..N : r[i] = Detect(r[i - 1], log[i])
        /\ FoldLeft(Detect, FreshDetector, log) = r[N]
  BY DetectChain
<1> DEFINE Bad == {m \in 0..N : ~Knows(log, m, r[m], s, q)}
<1>4. Knows(log, 0, FreshDetector, s, q)
  <2>1. ToSet(<<>>) = {} /\ Len(<<>>) = 0 /\ 1..0 = {}
    BY DEF ToSet
  <2>2. FreshDetector.found = <<>> /\ FreshDetector.seen = <<>>
        /\ FreshDetector.n = 0 /\ FreshDetector.sum = 0 /\ FreshDetector.squares = 0
    BY DEF FreshDetector
  <2>3. s[0] = 0 /\ q[0] = 0
    BY <1>2 DEF Moments
  <2> QED
    BY <2>1, <2>2, <2>3 DEF Knows, Keeps, IsCopy, IsFar
<1>5. Bad = {}
  <2>1. SUFFICES ASSUME Bad # {} PROVE FALSE
    OBVIOUS
  <2>2. PICK m \in Bad : \A y \in Bad : m <= y
    <3>1. Bad \subseteq Nat
      BY <1>1
    <3> HIDE DEF Bad
    <3> QED
      BY <2>1, <3>1, Least
  <2>3. m # 0
    BY <1>3, <1>4, <2>2
  <2>4. m \in 1..N /\ m - 1 \in 0..N /\ ~Knows(log, m, r[m], s, q)
    BY <1>1, <2>2, <2>3
  <2>5. Knows(log, m - 1, r[m - 1], s, q)
    BY <1>1, <2>2, <2>4
  <2>6. r[m - 1] \in Detector /\ r[m] = Detect(r[m - 1], log[m])
    BY <1>3, <2>4
  <2> HIDE DEF Bad
  <2>7. Knows(log, m, r[m], s, q)
    BY <1>2, <2>4, <2>5, <2>6, KnowsNext
  <2> QED
    BY <2>4, <2>7
<1>6. Knows(log, N, r[N], s, q)
  <2>1. N \in 0..N
    BY <1>1
  <2> QED
    BY <1>5, <2>1
<1>7. ASSUME NEW x PROVE x \in Findings(log) <=> x \in TwoPass(log)
  <2>1. Findings(log) = ToSet(r[N].found)
    BY <1>3 DEF Findings
  <2> QED
    BY <1>6, <2>1, TwoPassIs DEF Knows
<1>8. \A x : x \in Findings(log) <=> x \in TwoPass(log)
  BY <1>7
<1> QED
  BY <1>8

-----------------------------------------------------------------------------
(* The ledger server: journals only grow, so a copied prefix stays one.    *)

\* A past of a log is no different for a transaction more.
LEMMA UpToStays ==
  ASSUME NEW log \in Seq(LedgerTx), NEW tx \in LedgerTx
  PROVE  /\ \A n \in 0..Len(log) : n \in 0..Len(Append(log, tx)) /\ UpTo(Append(log, tx), n) = UpTo(log, n)
         /\ UpTo(Append(log, tx), Len(log) + 1) = Append(log, tx)
<1>1. PICK more : more = Append(log, tx)
  OBVIOUS
<1>2. /\ more \in Seq(LedgerTx) /\ Len(more) = Len(log) + 1 /\ Len(log) \in Nat
      /\ \A i \in 1..Len(log) : more[i] = log[i]
  BY <1>1, AppendProperties, LenProperties
<1>3. ASSUME NEW n \in 0..Len(log)
      PROVE  n \in 0..Len(more) /\ UpTo(more, n) = UpTo(log, n)
  <2>1. n \in 0..Len(more) /\ \A i \in 1..n : i \in 1..Len(log)
    BY <1>2
  <2>2. PICK a \in Seq(LedgerTx) : a = UpTo(more, n) /\ Len(a) = n /\ \A i \in 1..n : a[i] = more[i]
    BY <1>2, <2>1, UpToIs
  <2>3. PICK b \in Seq(LedgerTx) : b = UpTo(log, n) /\ Len(b) = n /\ \A i \in 1..n : b[i] = log[i]
    BY UpToIs
  <2>4. a = b
    BY <1>2, <2>1, <2>2, <2>3, SeqEqual
  <2> QED
    BY <2>1, <2>2, <2>3, <2>4
<1>4. UpTo(more, Len(log) + 1) = more
  <2>1. Len(more) \in 0..Len(more)
    BY <1>2
  <2>2. UpTo(more, Len(more)) = SubSeq(more, 1, Len(more))
    BY <1>2, <2>1, UpToIs
  <2> QED
    BY <1>2, <2>2, SubSeqFull
<1> QED
  BY <1>1, <1>3, <1>4

LaTypeOK ==
  /\ journal \in [Tenant -> Seq(LedgerTx)] /\ was \in [Tenant -> Seq(Sums)] /\ posts \in Nat
  /\ DOMAIN reading = Reader

\* A tenant's log is its own, and numbered by the posts so far.
OwnLog(t, log, count) ==
  Sound(log) /\ \A i \in 1..Len(log) : log[i].by = t /\ log[i].id < count

\* The balances noted at each append are the replays of the log's beginnings.
Noted(log, notes) ==
  Len(notes) = Len(log) /\ \A n \in 1..Len(log) : notes[n] = Balances(UpTo(log, n))

\* A request holds the very events it was asked about.
Holds(req, logs) ==
  req.on => /\ req.tenant \in Tenant /\ req.upto \in 0..Len(logs[req.tenant])
            /\ req.events = UpTo(logs[req.tenant], req.upto)

\* An answer is a replay of a beginning of its tenant's log.
Stands(a, logs) ==
  /\ a.tenant \in Tenant /\ a.upto \in 0..Len(logs[a.tenant])
  /\ a.sums = Balances(UpTo(logs[a.tenant], a.upto)) /\ a.by \subseteq {a.tenant}

LaIInv ==
  /\ LaTypeOK
  /\ \A t \in Tenant : OwnLog(t, journal[t], posts) /\ Noted(journal[t], was[t])
  /\ \A r \in Reader : Holds(reading[r], journal)
  /\ \A a \in answered : Stands(a, journal)

LEMMA LaInitHolds == LaInit => LaIInv
<1> SUFFICES ASSUME LaInit PROVE LaIInv
  OBVIOUS
<1>1. PICK none : none = <<>>
  OBVIOUS
<1>2. none \in Seq(LedgerTx) /\ none \in Seq(Sums) /\ Len(none) = 0
  BY <1>1
<1>3. LaTypeOK
  BY <1>1, <1>2 DEF LaInit, LaTypeOK
<1>4. \A t \in Tenant : journal[t] = none /\ was[t] = none
  BY <1>1 DEF LaInit
<1>5. \A t \in Tenant : OwnLog(t, none, posts) /\ Noted(none, none)
  BY <1>2 DEF OwnLog, Noted, Sound
<1>6. \A r \in Reader : Holds(reading[r], journal)
  BY DEF LaInit, Holds, NoRequest
<1>7. answered = {}
  BY DEF LaInit
<1> QED
  BY <1>3, <1>4, <1>5, <1>6, <1>7 DEF LaIInv

\* A post appends a valid transaction of its own id to its tenant's log.
LEMMA PostKeeps ==
  ASSUME LaIInv, NEW t \in Tenant, NEW entries \in Bodies, Post(t, entries)
  PROVE  LaIInv'
<1>1. PICK x : x = [id |-> posts, by |-> t, entries |-> entries]
  OBVIOUS
<1>2. /\ journal \in [Tenant -> Seq(LedgerTx)] /\ was \in [Tenant -> Seq(Sums)] /\ posts \in Nat
      /\ DOMAIN reading = Reader
  BY DEF LaIInv, LaTypeOK
<1>3. x \in LedgerTx /\ x.id = posts /\ x.by = t /\ Validated(x.entries)
  BY <1>1, <1>2, LedgerApiAssumption DEF LedgerTx, Post
<1>4. PICK log \in Seq(LedgerTx) : log = journal[t]
  BY <1>2
<1>5. PICK more \in Seq(LedgerTx) : more = Append(log, x)
  BY <1>3, AppendProperties
<1>6. /\ Len(more) = Len(log) + 1 /\ Len(log) \in Nat /\ more[Len(log) + 1] = x
      /\ \A i \in 1..Len(log) : more[i] = log[i]
  BY <1>3, <1>5, AppendProperties, LenProperties
<1>7. journal' = [journal EXCEPT ![t] = more]
  BY <1>1, <1>4, <1>5 DEF Post, LedgerOf
<1>8. journal' \in [Tenant -> Seq(LedgerTx)] /\ journal'[t] = more
      /\ \A u \in Tenant \ {t} : journal'[u] = journal[u]
  BY <1>2, <1>7
<1>9. PICK notes \in Seq(Sums) : notes = was[t]
  BY <1>2
<1>10. PICK b : b = Balances(more)
  OBVIOUS
<1>11. OwnLog(t, log, posts) /\ Noted(log, notes)
  BY <1>4, <1>9 DEF LaIInv
<1>12. OwnLog(t, more, posts + 1)
  <2>1. \A i \in 1..Len(more) : i \in 1..Len(log) \/ i = Len(log) + 1
    BY <1>6
  <2>2. \A i \in 1..Len(more) : Validated(more[i].entries)
    BY <1>3, <1>6, <1>11, <2>1 DEF OwnLog, Sound
  <2>3. \A i \in 1..Len(log) : log[i].id \in Nat /\ log[i].id < posts /\ log[i].by = t
    <3>1. ASSUME NEW i \in 1..Len(log) PROVE log[i].id \in Nat /\ log[i].id < posts /\ log[i].by = t
      <4>1. log[i] \in LedgerTx
        BY ElementOfSeq
      <4> QED
        BY <1>11, <4>1 DEF OwnLog, LedgerTx
    <3> QED
      BY <3>1
  <2>4. \A i \in 1..Len(more) : more[i].by = t /\ more[i].id < posts + 1
    <3>1. ASSUME NEW i \in 1..Len(more) PROVE more[i].by = t /\ more[i].id < posts + 1
      <4>1. CASE i = Len(log) + 1
        BY <1>2, <1>3, <1>6, <4>1
      <4>2. CASE i # Len(log) + 1
        <5>1. i \in 1..Len(log)
          BY <2>1, <4>2
        <5>2. PICK k \in Nat : k = log[i].id /\ k < posts
          BY <2>3, <5>1
        <5>3. k < posts + 1
          BY <1>2, <5>2
        <5> QED
          BY <1>6, <2>3, <5>1, <5>2, <5>3
      <4> QED
        BY <4>1, <4>2
    <3> QED
      BY <3>1
  <2>5. ASSUME NEW i \in 1..Len(more), NEW j \in 1..Len(more), i # j PROVE more[i].id # more[j].id
    <3>1. CASE i \in 1..Len(log) /\ j \in 1..Len(log)
      BY <1>6, <1>11, <2>5, <3>1 DEF OwnLog, Sound
    <3>2. CASE i = Len(log) + 1
      <4>1. j \in 1..Len(log)
        BY <2>1, <2>5, <3>2
      <4>2. PICK k \in Nat : k = log[j].id /\ k < posts
        BY <2>3, <4>1
      <4> QED
        BY <1>2, <1>3, <1>6, <3>2, <4>1, <4>2
    <3>3. CASE j = Len(log) + 1
      <4>1. i \in 1..Len(log)
        BY <2>1, <2>5, <3>3
      <4>2. PICK k \in Nat : k = log[i].id /\ k < posts
        BY <2>3, <4>1
      <4> QED
        BY <1>2, <1>3, <1>6, <3>3, <4>1, <4>2
    <3> QED
      BY <2>1, <3>1, <3>2, <3>3
  <2> QED
    BY <2>2, <2>4, <2>5 DEF OwnLog, Sound
<1>13. /\ \A n \in 0..Len(log) : n \in 0..Len(more) /\ UpTo(more, n) = UpTo(log, n)
       /\ UpTo(more, Len(log) + 1) = more
  BY <1>3, <1>5, UpToStays
<1>14. b \in Sums
  <2>1. \A i \in 1..Len(more) : Side(more[i].entries, "debit") = Side(more[i].entries, "credit")
    BY <1>12 DEF OwnLog, Sound, Validated
  <2> QED
    BY <1>10, <2>1, ReplayIsLevel
<1>15. PICK told \in Seq(Sums) : told = Append(notes, b)
  BY <1>14, AppendProperties
<1>16. was' = [was EXCEPT ![t] = told]
  BY <1>8, <1>9, <1>10, <1>15 DEF Post, LedgerOf
<1>17. was' \in [Tenant -> Seq(Sums)] /\ was'[t] = told /\ \A u \in Tenant \ {t} : was'[u] = was[u]
  BY <1>2, <1>16
<1>18. Noted(more, told)
  <2>1. /\ Len(told) = Len(notes) + 1 /\ told[Len(notes) + 1] = b /\ Len(notes) = Len(log)
        /\ \A n \in 1..Len(notes) : told[n] = notes[n]
    BY <1>11, <1>14, <1>15, AppendProperties DEF Noted
  <2>2. ASSUME NEW n \in 1..Len(more) PROVE told[n] = Balances(UpTo(more, n))
    <3>1. CASE n = Len(log) + 1
      BY <1>10, <1>13, <2>1, <3>1
    <3>2. CASE n # Len(log) + 1
      <4>1. n \in 1..Len(log) /\ n \in 0..Len(log)
        BY <1>6, <3>2
      <4>2. notes[n] = Balances(UpTo(log, n))
        BY <1>11, <4>1 DEF Noted
      <4> QED
        BY <1>13, <2>1, <4>1, <4>2
    <3> QED
      BY <3>1, <3>2
  <2> QED
    BY <1>6, <2>1, <2>2 DEF Noted
<1>19. posts' = posts + 1 /\ posts' \in Nat /\ reading' = reading /\ answered' = answered
  BY <1>2 DEF Post
<1>20. \A u \in Tenant : OwnLog(u, journal'[u], posts') /\ Noted(journal'[u], was'[u])
  <2>1. ASSUME NEW u \in Tenant \ {t} PROVE OwnLog(u, journal'[u], posts') /\ Noted(journal'[u], was'[u])
    <3>1. PICK l \in Seq(LedgerTx) : l = journal[u] /\ l = journal'[u]
      BY <1>2, <1>8
    <3>2. OwnLog(u, l, posts) /\ Noted(l, was[u])
      BY <3>1 DEF LaIInv
    <3>3. \A i \in 1..Len(l) : l[i].id \in Nat /\ l[i].id < posts
      <4>1. ASSUME NEW i \in 1..Len(l) PROVE l[i].id \in Nat /\ l[i].id < posts
        <5>1. l[i] \in LedgerTx
          BY <3>1, ElementOfSeq
        <5> QED
          BY <3>2, <4>1, <5>1 DEF OwnLog, LedgerTx
      <4> QED
        BY <4>1
    <3>4. \A i \in 1..Len(l) : l[i].id < posts + 1
      <4>1. ASSUME NEW i \in 1..Len(l) PROVE l[i].id < posts + 1
        <5>1. PICK k \in Nat : k = l[i].id /\ k < posts
          BY <3>3
        <5> QED
          BY <1>2, <5>1
      <4> QED
        BY <4>1
    <3> QED
      BY <1>17, <1>19, <3>1, <3>2, <3>4 DEF OwnLog
  <2>2. OwnLog(t, journal'[t], posts') /\ Noted(journal'[t], was'[t])
    BY <1>8, <1>12, <1>17, <1>18, <1>19
  <2> QED
    BY <2>1, <2>2
<1>21. \A u \in Tenant : \A n \in 0..Len(journal[u]) :
          n \in 0..Len(journal'[u]) /\ UpTo(journal'[u], n) = UpTo(journal[u], n)
  BY <1>4, <1>8, <1>13
<1>22. \A r \in Reader : Holds(reading'[r], journal')
  BY <1>19, <1>21 DEF LaIInv, Holds
<1>23. \A a \in answered' : Stands(a, journal')
  BY <1>19, <1>21 DEF LaIInv, Stands
<1>24. LaTypeOK'
  BY <1>2, <1>8, <1>17, <1>19 DEF LaTypeOK
<1> QED
  BY <1>20, <1>22, <1>23, <1>24 DEF LaIInv

\* A request takes its copy of a beginning of the log.
LEMMA CopyLogKeeps ==
  ASSUME LaIInv, NEW r \in Reader, NEW t \in Tenant, NEW n \in 0..MaxPosts, CopyLog(r, t, n)
  PROVE  LaIInv'
<1>1. PICK req : req = [on |-> TRUE, tenant |-> t, upto |-> n, events |-> UpTo(journal[t], n)]
  OBVIOUS
<1>2. reading' = [reading EXCEPT ![r] = req] /\ n <= Len(journal[t])
      /\ journal' = journal /\ was' = was /\ posts' = posts /\ answered' = answered
  BY <1>1 DEF CopyLog, LedgerOf
<1>3. DOMAIN reading = Reader /\ journal \in [Tenant -> Seq(LedgerTx)]
  BY DEF LaIInv, LaTypeOK
<1>4. DOMAIN reading' = Reader /\ reading'[r] = req /\ \A s \in Reader \ {r} : reading'[s] = reading[s]
  BY <1>2, <1>3
<1>5. n \in 0..Len(journal[t])
  <2>1. Len(journal[t]) \in Nat
    BY <1>3, LenProperties
  <2> QED
    BY <1>2, <2>1
<1>6. Holds(req, journal)
  BY <1>1, <1>5 DEF Holds
<1>7. \A s \in Reader : Holds(reading'[s], journal)
  BY <1>4, <1>6 DEF LaIInv
<1>8. LaTypeOK'
  BY <1>2, <1>4 DEF LaIInv, LaTypeOK
<1> QED
  BY <1>2, <1>7, <1>8 DEF LaIInv

\* The answer is the replay of the copy.
LEMMA AnswerKeeps ==
  ASSUME LaIInv, NEW r \in Reader, Answer(r)
  PROVE  LaIInv'
<1>1. PICK req : req = reading[r]
  OBVIOUS
<1>2. PICK a : a = [tenant |-> req.tenant, upto |-> req.upto, sums |-> Balances(req.events),
                    by |-> {req.events[i].by : i \in DOMAIN req.events}]
  OBVIOUS
<1>3. /\ req.on /\ answered' = answered \cup {a} /\ reading' = [reading EXCEPT ![r] = NoRequest]
      /\ journal' = journal /\ was' = was /\ posts' = posts
  BY <1>1, <1>2 DEF Answer
<1>4. DOMAIN reading = Reader /\ journal \in [Tenant -> Seq(LedgerTx)]
  BY DEF LaIInv, LaTypeOK
<1>5. DOMAIN reading' = Reader /\ reading'[r] = NoRequest /\ \A s \in Reader \ {r} : reading'[s] = reading[s]
  BY <1>3, <1>4
<1>6. \A s \in Reader : Holds(reading'[s], journal)
  <2>1. ~NoRequest.on
    BY DEF NoRequest
  <2> QED
    BY <1>5, <2>1 DEF LaIInv, Holds
<1>7. Stands(a, journal)
  <2>1. PICK t \in Tenant : t = req.tenant
    BY <1>1, <1>3 DEF LaIInv, Holds
  <2>2. PICK log \in Seq(LedgerTx) : log = journal[t]
    BY <1>4
  <2>3. PICK n \in 0..Len(log) : n = req.upto /\ req.events = UpTo(log, n)
    BY <1>1, <1>3, <2>1, <2>2 DEF LaIInv, Holds
  <2>4. PICK past \in Seq(LedgerTx) : past = UpTo(log, n) /\ Len(past) = n /\ \A i \in 1..n : past[i] = log[i]
    BY UpToIs
  <2>5. OwnLog(t, log, posts)
    BY <2>2 DEF LaIInv
  <2>6. \A i \in DOMAIN past : past[i].by = t
    <3>1. DOMAIN past = 1..n /\ n \in Nat /\ \A i \in 1..n : i \in 1..Len(log)
      BY <2>4, LenProperties
    <3> QED
      BY <2>4, <2>5, <3>1 DEF OwnLog
  <2>7. a.by \subseteq {t}
    BY <1>2, <2>3, <2>4, <2>6
  <2>8. a.tenant = t /\ a.upto = n /\ a.sums = Balances(past)
    BY <1>2, <2>1, <2>3, <2>4
  <2> QED
    BY <2>2, <2>4, <2>7, <2>8 DEF Stands
<1>8. LaTypeOK'
  BY <1>3, <1>5 DEF LaIInv, LaTypeOK
<1> QED
  BY <1>3, <1>6, <1>7, <1>8 DEF LaIInv

LEMMA LaStepKeeps == LaIInv /\ [LaNext]_lavars => LaIInv'
<1> SUFFICES ASSUME LaIInv, [LaNext]_lavars PROVE LaIInv'
  OBVIOUS
<1>1. CASE UNCHANGED lavars
  BY <1>1 DEF lavars, LaIInv, LaTypeOK
<1>2. CASE LaNext
  BY <1>2, PostKeeps, CopyLogKeeps, AnswerKeeps DEF LaNext
<1> QED
  BY <1>1, <1>2

LEMMA LaIInvTells == LaIInv => ServerTellsTruth
<1> SUFFICES ASSUME LaIInv PROVE ServerTellsTruth
  OBVIOUS
<1>1. /\ journal \in [Tenant -> Seq(LedgerTx)]
      /\ \A t \in Tenant : OwnLog(t, journal[t], posts) /\ Noted(journal[t], was[t])
      /\ \A a \in answered : Stands(a, journal)
  BY DEF LaIInv, LaTypeOK
<1>2. \A t \in Tenant : Sound(journal[t]) /\ DOMAIN journal[t] = 1..Len(journal[t])
  BY <1>1, LenProperties DEF OwnLog
<1>3. \A t \in Tenant : \A i \in 1..Len(journal[t]) :
        Side(journal[t][i].entries, "debit") = Side(journal[t][i].entries, "credit")
  BY <1>2 DEF Sound, Validated
<1>4. ASSUME NEW a \in answered
      PROVE  /\ MapThenSumSet(LAMBDA k : a.sums[k], LedgerAccount) = 0
             /\ a.by \subseteq {a.tenant}
             /\ a.sums = IF a.upto = 0 THEN NoBalances ELSE was[LedgerOf(a.tenant)][a.upto]
  <2>0. Stands(a, journal)
    BY <1>1
  <2>1. PICK t \in Tenant : t = a.tenant
    BY <2>0 DEF Stands
  <2>2. PICK log \in Seq(LedgerTx) : log = journal[t]
    BY <1>1
  <2>3. PICK n \in 0..Len(log) : n = a.upto
    BY <2>0, <2>1, <2>2 DEF Stands
  <2>4. PICK past \in Seq(LedgerTx) : past = UpTo(log, n) /\ Len(past) = n /\ \A i \in 1..n : past[i] = log[i]
    BY UpToIs
  <2>5. n \in Nat /\ Len(log) \in Nat /\ \A i \in 1..n : i \in 1..Len(log)
    BY LenProperties
  <2>6. a.sums = Balances(past) /\ a.by \subseteq {a.tenant}
    BY <2>0, <2>1, <2>2, <2>3, <2>4 DEF Stands
  <2>7. \A i \in 1..Len(past) : Side(past[i].entries, "debit") = Side(past[i].entries, "credit")
    BY <1>3, <2>2, <2>4, <2>5
  <2>8. PICK b : b = a.sums
    OBVIOUS
  <2>9. b \in [LedgerAccount -> Int] /\ Sum(b, LedgerAccount) = 0
    BY <2>6, <2>7, <2>8, ReplayIsLevel DEF Sums
  <2>10. MapThenSumSet(LAMBDA k : a.sums[k], LedgerAccount) = 0
    <3>1. MapThenSumSet(LAMBDA k : a.sums[k], LedgerAccount) = Sum(b, LedgerAccount)
      <4>1. IsFiniteSet(LedgerAccount) /\ b \in [LedgerAccount -> Int] /\ \A k \in LedgerAccount : b[k] = a.sums[k]
        BY <2>8, <2>9, LedgerApiAssumption
      <4> QED
        BY <4>1, FunctionAdds
    <3> QED
      BY <2>9, <3>1
  <2>11. a.sums = IF a.upto = 0 THEN NoBalances ELSE was[LedgerOf(a.tenant)][a.upto]
    <3>1. CASE n = 0
      <4>1. Balances(past) = NoBalances
        BY <2>4, <3>1, BalancesOfLog
      <4> QED
        BY <2>3, <2>6, <3>1, <4>1
    <3>2. CASE n # 0
      <4>1. n \in 1..Len(log)
        BY <2>5, <3>2
      <4>2. was[t][n] = Balances(past)
        BY <1>1, <2>2, <2>4, <4>1 DEF Noted
      <4> QED
        BY <2>1, <2>3, <2>6, <3>2, <4>2 DEF LedgerOf
    <3> QED
      BY <3>1, <3>2
  <2> QED
    BY <2>6, <2>10, <2>11
<1>5. ReplayNeverFails
  BY <1>2, <1>3, <1>4 DEF ReplayNeverFails
<1>6. TenantsApart /\ PastStands
  BY <1>4 DEF TenantsApart, PastStands
<1>7. FindingsMatchTwoPass
  BY <1>1, <1>2, DetectorFinds DEF FindingsMatchTwoPass
<1> QED
  BY <1>5, <1>6, <1>7 DEF ServerTellsTruth

\* Whatever the tenants post and the readers ask, every journal replays to balances
\* that add up to nothing, an answer is of its own tenant and of the very prefix it
\* was asked for, and the streaming detector finds what a second pass over the log
\* finds (server lib.rs 59-211, replay.rs 17-46, anomaly.rs 103-166).
THEOREM ServerTruthful == LaSpec => []ServerTellsTruth
<1>1. LaSpec => []LaIInv
  BY LaInitHolds, LaStepKeeps, PTL DEF LaSpec
<1> QED
  BY <1>1, LaIInvTells, PTL

-----------------------------------------------------------------------------
(* Rates in force: what a table answers for a date.                        *)

Observation == [at : Date, rate : Rate]

\* A row of the tax table: an effective date and its rate.
TaxTable(table) == DOMAIN table \subseteq Date /\ \A d \in DOMAIN table : table[d] \in TaxRate

LEMMA DatesAreNumbers == Date \subseteq Nat /\ TaxRate \subseteq Nat /\ Rate \subseteq Nat
  BY RevaluationAssumption

\* The answer is the latest known observation's, and one is known last.
LEMMA FxLookupIs ==
  ASSUME NEW table \in Seq(Observation), NEW asOf \in Date
  PROVE  LET known == {i \in DOMAIN table : table[i].at <= asOf}
             latest == {i \in known : \A j \in known : table[j].at <= table[i].at}
         IN /\ known = {} => FxLookup(table, asOf) = {}
            /\ known # {} => /\ Max(latest) \in latest
                             /\ FxLookup(table, asOf) = {table[Max(latest)].rate}
<1> DEFINE known == {i \in DOMAIN table : table[i].at <= asOf}
           latest == {i \in known : \A j \in known : table[j].at <= table[i].at}
           D == {table[i].at : i \in known}
<1>1. PICK n \in Nat : n = Len(table) /\ DOMAIN table = 1..n
  BY LenProperties
<1>2. \A i \in 1..n : table[i] \in Observation /\ table[i].at \in Nat
  <2>1. \A o \in Observation : o.at \in Nat
    BY DatesAreNumbers DEF Observation
  <2>2. \A i \in 1..n : table[i] \in Observation
    BY <1>1, ElementOfSeq
  <2> QED
    BY <2>1, <2>2
<1>3. asOf \in Nat
  BY DatesAreNumbers
<1>4. known = {} => FxLookup(table, asOf) = {}
  BY DEF FxLookup
<1>5. known # {} => FxLookup(table, asOf) = {table[Max(latest)].rate}
  BY DEF FxLookup
<1>6. ASSUME known # {} PROVE Max(latest) \in latest
  <2>1. D \subseteq 0..asOf /\ D # {}
    <3>1. \A i \in known : table[i].at \in Nat /\ table[i].at <= asOf
      BY <1>1, <1>2
    <3>2. \A i \in known : table[i].at \in 0..asOf
      BY <1>3, <3>1
    <3> HIDE DEF known
    <3> QED
      BY <1>6, <3>2
  <2>2. PICK m \in D : \A d \in D : d <= m
    <3> HIDE DEF D
    <3> QED
      BY <1>3, <2>1, Greatest
  <2>3. PICK i \in known : table[i].at = m
    OBVIOUS
  <2>4. i \in latest
    BY <2>2, <2>3
  <2>5. latest \subseteq 0..n
    BY <1>1
  <2> HIDE DEF latest
  <2> QED
    BY <1>1, <2>4, <2>5, Greatest
<1> QED
  BY <1>4, <1>5, <1>6

\* An observation of a later date is not asked.
LEMMA LaterObservation ==
  ASSUME NEW table \in Seq(Observation), NEW asOf \in Date, NEW o \in Observation, asOf < o.at
  PROVE  FxLookup(Append(table, o), asOf) = FxLookup(table, asOf)
<1>1. PICK more \in Seq(Observation) : more = Append(table, o)
  BY AppendProperties
<1> DEFINE known == {i \in DOMAIN table : table[i].at <= asOf}
           latest == {i \in known : \A j \in known : table[j].at <= table[i].at}
           known2 == {i \in DOMAIN more : more[i].at <= asOf}
           latest2 == {i \in known2 : \A j \in known2 : more[j].at <= more[i].at}
<1>2. PICK n \in Nat : n = Len(table) /\ DOMAIN table = 1..n
  BY LenProperties
<1>3. /\ DOMAIN more = 1..(n + 1) /\ more[n + 1] = o
      /\ \A i \in 1..n : more[i] = table[i]
  BY <1>1, <1>2, AppendProperties
<1>4. asOf \in Nat /\ o.at \in Nat
  BY DatesAreNumbers DEF Observation
<1>5. known2 = known
  <2>1. n + 1 \notin known2
    BY <1>3, <1>4
  <2>2. \A i \in DOMAIN more : i # n + 1 => i \in 1..n
    BY <1>2, <1>3
  <2>3. \A i \in known2 : i \in known
    BY <1>2, <1>3, <2>1, <2>2
  <2>4. \A i \in known : i \in known2
    BY <1>2, <1>3
  <2> QED
    BY <2>3, <2>4
<1>6. \A i \in known : more[i] = table[i]
  BY <1>2, <1>3
<1>7. latest2 = latest
  BY <1>5, <1>6
<1>8. /\ known = {} => FxLookup(table, asOf) = {}
      /\ known # {} => Max(latest) \in latest /\ FxLookup(table, asOf) = {table[Max(latest)].rate}
  BY FxLookupIs
<1>9. /\ known2 = {} => FxLookup(more, asOf) = {}
      /\ known2 # {} => FxLookup(more, asOf) = {more[Max(latest2)].rate}
  BY FxLookupIs
<1>10. \A i \in latest : i \in known
  OBVIOUS
<1> HIDE DEF known, latest, known2, latest2
<1> QED
  BY <1>1, <1>5, <1>6, <1>7, <1>8, <1>9, <1>10

\* A tax table answers with its row of the latest date that is known.
LEMMA TaxLookupIs ==
  ASSUME NEW table, TaxTable(table), NEW asOf \in Date
  PROVE  LET known == {d \in DOMAIN table : d <= asOf}
         IN /\ known = {} => TaxLookup(table, asOf) = {}
            /\ known # {} => /\ Max(known) \in known
                             /\ TaxLookup(table, asOf) = {table[Max(known)]}
                             /\ table[Max(known)] \in TaxRate
<1> DEFINE known == {d \in DOMAIN table : d <= asOf}
<1>1. asOf \in Nat /\ DOMAIN table \subseteq Nat
  BY DatesAreNumbers DEF TaxTable
<1>2. known = {} => TaxLookup(table, asOf) = {}
  BY DEF TaxLookup
<1>3. known # {} => TaxLookup(table, asOf) = {table[Max(known)]}
  BY DEF TaxLookup
<1>4. ASSUME known # {} PROVE Max(known) \in known
  <2>1. known \subseteq 0..asOf
    BY <1>1
  <2> HIDE DEF known
  <2> QED
    BY <1>1, <1>4, <2>1, Greatest
<1>5. \A d \in known : table[d] \in TaxRate
  BY DEF TaxTable
<1> HIDE DEF known
<1>6. known # {} => table[Max(known)] \in TaxRate
  BY <1>4, <1>5
<1> QED
  BY <1>2, <1>3, <1>4, <1>6 DEF known

\* A row of a later date is not asked.
LEMMA LaterRow ==
  ASSUME NEW table, TaxTable(table), NEW asOf \in Date, NEW d \in Date, NEW r \in TaxRate
  PROVE  /\ TaxTable(Effective(table, d, r))
         /\ asOf < d => TaxLookup(Effective(table, d, r), asOf) = TaxLookup(table, asOf)
<1>1. PICK more : more = Effective(table, d, r)
  OBVIOUS
<1>2. /\ DOMAIN more = DOMAIN table \cup {d} /\ more[d] = r
      /\ \A e \in DOMAIN table : e # d => more[e] = table[e]
  BY <1>1 DEF Effective
<1>3. TaxTable(more)
  BY <1>2 DEF TaxTable
<1> DEFINE known == {e \in DOMAIN table : e <= asOf}
           known2 == {e \in DOMAIN more : e <= asOf}
<1>4. ASSUME asOf < d PROVE TaxLookup(more, asOf) = TaxLookup(table, asOf)
  <2>1. asOf \in Nat /\ d \in Nat
    BY DatesAreNumbers
  <2>2. known2 = known
    BY <1>2, <1>4, <2>1
  <2>3. \A e \in known : more[e] = table[e]
    BY <1>2, <1>4, <2>1
  <2>4. /\ known = {} => TaxLookup(table, asOf) = {}
        /\ known # {} => Max(known) \in known /\ TaxLookup(table, asOf) = {table[Max(known)]}
    BY TaxLookupIs
  <2>5. /\ known2 = {} => TaxLookup(more, asOf) = {}
        /\ known2 # {} => TaxLookup(more, asOf) = {more[Max(known2)]}
    BY <1>3, TaxLookupIs
  <2> HIDE DEF known, known2
  <2> QED
    BY <2>2, <2>3, <2>4, <2>5
<1> QED
  BY <1>1, <1>3, <1>4

-----------------------------------------------------------------------------
(* Revaluation: what was booked is what the rates moved.                   *)

\* What the conversions moved, as a sum over the foreign accounts.
LEMMA MovedAdds ==
  ASSUME NEW rates, NEW S, IsFiniteSet(S),
         NEW f \in [S -> Int], \A k \in S : f[k] = OnDebit(k, Foreign[k].balance * (rates[k] - Foreign[k].book))
  PROVE  MapThenSumSet(LAMBDA k : OnDebit(k, Foreign[k].balance * (rates[k] - Foreign[k].book)), S) = Sum(f, S)
<1> DEFINE Some(s) == CHOOSE x \in s : TRUE
           Body(w, s) == IF s = {} THEN 0 ELSE OnDebit(Some(s), Foreign[Some(s)].balance * (rates[Some(s)] - Foreign[Some(s)].book)) + w[s \ {Some(s)}]
           iter == CHOOSE w : w = [s \in SUBSET S |-> Body(w, s)]
<1>1. MapThenSumSet(LAMBDA k : OnDebit(k, Foreign[k].balance * (rates[k] - Foreign[k].book)), S) = iter[S]
  BY DEF MapThenSumSet, MapThenFoldSet
<1>2. \A w, s : s \in (SUBSET S) \ {{}} =>
        Some(s) \in s /\ s \ {Some(s)} \in SUBSET S /\ Body(w, s) = f[Some(s)] + w[s \ {Some(s)}]
  OBVIOUS
<1>3. \A w : Body(w, {}) = 0
  OBVIOUS
<1> HIDE DEF Body, iter, Some
<1>4. PICK g \in [SUBSET S -> Int] : SumsUp(g, S, f)
  BY SumExists
<1>5. \E w : w = [s \in SUBSET S |-> Body(w, s)]
  <2>1. PICK w : w = [s \in SUBSET S |-> g[s]]
    OBVIOUS
  <2>2. ASSUME NEW s \in SUBSET S PROVE w[s] = Body(w, s)
    <3>1. CASE s = {}
      BY <1>3, <1>4, <2>1, <3>1 DEF SumsUp
    <3>2. CASE s # {}
      <4>1. PICK x \in s : x = Some(s) /\ s \ {x} \in SUBSET S /\ Body(w, s) = f[x] + w[s \ {x}]
        BY <1>2, <3>2
      <4>2. g[s] = f[x] + g[s \ {x}]
        BY <1>4 DEF SumsUp
      <4> QED
        BY <2>1, <4>1, <4>2
    <3> QED
      BY <3>1, <3>2
  <2>3. w = [s \in SUBSET S |-> Body(w, s)]
    BY <2>1, <2>2
  <2> QED
    BY <2>3
<1>6. iter = [s \in SUBSET S |-> Body(iter, s)]
  BY <1>5 DEF iter
<1>7. Gathers(iter, S, f)
  <2>1. iter[{}] = 0
    BY <1>3, <1>6
  <2>2. ASSUME NEW s \in (SUBSET S) \ {{}} PROVE \E x \in s : iter[s] = f[x] + iter[s \ {x}]
    <3>1. PICK x \in s : x = Some(s) /\ Body(iter, s) = f[x] + iter[s \ {x}]
      BY <1>2
    <3>2. iter[s] = Body(iter, s)
      BY <1>6
    <3> QED
      BY <3>1, <3>2
  <2> QED
    BY <2>1, <2>2 DEF Gathers
<1> QED
  BY <1>1, <1>7, GatheredSum

LEMMA ForeignIs ==
  /\ IsFiniteSet(DOMAIN Foreign)
  /\ \A a \in DOMAIN Foreign : Foreign[a].balance \in Int /\ Foreign[a].book \in Nat
  BY RevaluationAssumption

LEMMA OnDebitIs ==
  ASSUME NEW a, NEW x \in Int
  PROVE  OnDebit(a, x) \in Int /\ (OnDebit(a, x) = x \/ OnDebit(a, x) = -x)
  BY DEF OnDebit

\* An amount split in two is moved in two.
LEMMA OnDebitAdds ==
  ASSUME NEW a, NEW x \in Int, NEW y \in Int, NEW z \in Int, x - y = z
  PROVE  OnDebit(a, x) - OnDebit(a, y) = OnDebit(a, z)
<1>1. CASE NormalSide(Foreign[a].kind) = "Debit"
  BY <1>1 DEF OnDebit
<1>2. CASE NormalSide(Foreign[a].kind) # "Debit"
  <2>1. OnDebit(a, x) = -x /\ OnDebit(a, y) = -y /\ OnDebit(a, z) = -z
    BY <1>2 DEF OnDebit
  <2> QED
    BY <2>1
<1> QED
  BY <1>1, <1>2

LEMMA MovedIsSum ==
  ASSUME NEW rates \in [DOMAIN Foreign -> Nat],
         NEW f, f = [a \in DOMAIN Foreign |-> OnDebit(a, Foreign[a].balance * (rates[a] - Foreign[a].book))]
  PROVE  f \in [DOMAIN Foreign -> Int] /\ Remeasured(rates) = Sum(f, DOMAIN Foreign)
<1>1. \A a \in DOMAIN Foreign : OnDebit(a, Foreign[a].balance * (rates[a] - Foreign[a].book)) \in Int
  <2>1. ASSUME NEW a \in DOMAIN Foreign
        PROVE  OnDebit(a, Foreign[a].balance * (rates[a] - Foreign[a].book)) \in Int
    <3>1. PICK b \in Int, c \in Int : b = Foreign[a].balance /\ c = rates[a] - Foreign[a].book
      BY ForeignIs
    <3>2. b * c \in Int
      OBVIOUS
    <3> QED
      BY <3>1, <3>2, OnDebitIs
  <2> QED
    BY <2>1
<1>2. f \in [DOMAIN Foreign -> Int]
  BY <1>1
<1>3. \A a \in DOMAIN Foreign : f[a] = OnDebit(a, Foreign[a].balance * (rates[a] - Foreign[a].book))
  OBVIOUS
<1>4. MapThenSumSet(LAMBDA k : OnDebit(k, Foreign[k].balance * (rates[k] - Foreign[k].book)), DOMAIN Foreign)
        = Sum(f, DOMAIN Foreign)
  BY <1>2, <1>3, ForeignIs, MovedAdds
<1> QED
  BY <1>2, <1>4 DEF Remeasured

\* A rate that changes moves its account's balance by the difference.
LEMMA MovedOne ==
  ASSUME NEW rates \in [DOMAIN Foreign -> Nat], NEW a \in DOMAIN Foreign, NEW c \in Nat
  PROVE  LET more == [rates EXCEPT ![a] = c]
         IN /\ more \in [DOMAIN Foreign -> Nat] /\ Remeasured(rates) \in Int
            /\ OnDebit(a, Foreign[a].balance * c - Foreign[a].balance * rates[a]) \in Int
            /\ Remeasured(more) = Remeasured(rates)
                 + OnDebit(a, Foreign[a].balance * c - Foreign[a].balance * rates[a])
<1>1. PICK more \in [DOMAIN Foreign -> Nat] : more = [rates EXCEPT ![a] = c]
  OBVIOUS
<1>2. more[a] = c /\ \A b \in (DOMAIN Foreign) \ {a} : more[b] = rates[b]
  BY <1>1
<1>3. PICK f : f = [x \in DOMAIN Foreign |-> OnDebit(x, Foreign[x].balance * (rates[x] - Foreign[x].book))]
  OBVIOUS
<1>4. PICK h : h = [x \in DOMAIN Foreign |-> OnDebit(x, Foreign[x].balance * (more[x] - Foreign[x].book))]
  OBVIOUS
<1>5. f \in [DOMAIN Foreign -> Int] /\ Remeasured(rates) = Sum(f, DOMAIN Foreign)
  BY <1>3, MovedIsSum
<1>6. h \in [DOMAIN Foreign -> Int] /\ Remeasured(more) = Sum(h, DOMAIN Foreign)
  BY <1>4, MovedIsSum
<1>7. \A b \in (DOMAIN Foreign) \ {a} : h[b] = f[b]
  BY <1>2, <1>3, <1>4
<1>8. Sum(h, DOMAIN Foreign) = Sum(f, DOMAIN Foreign) + (h[a] - f[a])
  <2>1. DOMAIN Foreign \in SUBSET (DOMAIN Foreign)
    OBVIOUS
  <2> QED
    BY <1>5, <1>6, <1>7, <2>1, ForeignIs, SumChanged
<1>9. Sum(f, DOMAIN Foreign) \in Int
  BY <1>5, ForeignIs, SumOne
<1>10. PICK b \in Int, k \in Nat, r \in Nat : b = Foreign[a].balance /\ k = Foreign[a].book /\ r = rates[a]
  BY ForeignIs
<1>11. PICK x \in Int : x = b * (c - k)
  OBVIOUS
<1>12. PICK y \in Int : y = b * (r - k)
  OBVIOUS
<1>13. PICK z \in Int : z = b * c - b * r
  OBVIOUS
<1>14. x - y = z
  <2>1. b * (c - k) = b * c - b * k /\ b * (r - k) = b * r - b * k
    OBVIOUS
  <2>2. PICK u \in Int, v \in Int, w \in Int : u = b * c /\ v = b * k /\ w = b * r
    OBVIOUS
  <2>3. x = u - v /\ y = w - v /\ z = u - w
    BY <1>11, <1>12, <1>13, <2>1, <2>2
  <2> QED
    BY <2>3
<1>15. h[a] = OnDebit(a, x) /\ f[a] = OnDebit(a, y)
  BY <1>2, <1>3, <1>4, <1>10, <1>11, <1>12
<1>16. OnDebit(a, x) - OnDebit(a, y) = OnDebit(a, z) /\ OnDebit(a, z) \in Int
  BY <1>14, OnDebitAdds, OnDebitIs
<1>17. OnDebit(a, Foreign[a].balance * c - Foreign[a].balance * rates[a]) = OnDebit(a, z)
  BY <1>10, <1>13
<1>18. Remeasured(more) = Remeasured(rates) + OnDebit(a, z)
  BY <1>5, <1>6, <1>8, <1>15, <1>16
<1> QED
  BY <1>1, <1>5, <1>9, <1>16, <1>17, <1>18

LEMMA NothingMoved ==
  ASSUME NEW rates \in [DOMAIN Foreign -> Nat], \A a \in DOMAIN Foreign : rates[a] = Foreign[a].book
  PROVE  Remeasured(rates) = 0
<1>1. PICK f : f = [x \in DOMAIN Foreign |-> OnDebit(x, Foreign[x].balance * (rates[x] - Foreign[x].book))]
  OBVIOUS
<1>2. f \in [DOMAIN Foreign -> Int] /\ Remeasured(rates) = Sum(f, DOMAIN Foreign)
  BY <1>1, MovedIsSum
<1>3. ASSUME NEW a \in DOMAIN Foreign PROVE f[a] = 0
  <2>1. PICK b \in Int, k \in Nat : b = Foreign[a].balance /\ k = Foreign[a].book /\ k = rates[a]
    BY ForeignIs
  <2>2. b * (k - k) = 0
    OBVIOUS
  <2>3. f[a] = OnDebit(a, 0)
    BY <1>1, <2>1, <2>2
  <2> QED
    BY <2>3, OnDebitIs
<1> QED
  BY <1>2, <1>3, ForeignIs, SumNothing

-----------------------------------------------------------------------------
(* The invariant of the rate tables and of revaluation.                    *)

RTypes ==
  /\ fxRates \in Seq(Observation)
  /\ taxRates = [k \in TaxKey |-> taxRates[k]]
  /\ \A k \in TaxKey : TaxTable(taxRates[k])
  /\ bookRate \in [DOMAIN Foreign -> Nat]
  /\ revalued \in Int /\ gainLoss \in Int /\ closing \in Nat
  /\ walk \subseteq DOMAIN Foreign

RInv == RTypes /\ RevaluationTelescopes

LEMMA RInvInit == RInit => RInv
<1> SUFFICES ASSUME RInit PROVE RInv
  OBVIOUS
<1>1. fxRates \in Seq(Observation)
  BY EmptySeq DEF RInit
<1>2. taxRates = [k \in TaxKey |-> taxRates[k]]
  BY DEF RInit
<1>3. \A k \in TaxKey : TaxTable(taxRates[k])
  <2>1. DOMAIN <<>> = {}
    OBVIOUS
  <2> QED
    BY <2>1 DEF RInit, TaxTable
<1>4. bookRate \in [DOMAIN Foreign -> Nat] /\ \A a \in DOMAIN Foreign : bookRate[a] = Foreign[a].book
  BY ForeignIs DEF RInit
<1>5. Remeasured(bookRate) = 0
  BY <1>4, NothingMoved
<1>6. RTypes
  BY <1>1, <1>2, <1>3, <1>4 DEF RInit, RTypes
<1>7. revalued = 0 /\ gainLoss = 0
  BY DEF RInit
<1>8. gainLoss = -revalued
  <2>1. \A x \in Int : 0 - x = -x
    OBVIOUS
  <2>2. revalued \in Int /\ gainLoss = 0 - revalued
    BY <1>7
  <2> QED
    BY <2>1, <2>2
<1>9. RevaluationTelescopes
  BY <1>5, <1>7, <1>8 DEF RevaluationTelescopes
<1> QED
  BY <1>6, <1>9 DEF RInv

\* A rate that is looked up is one of the table's.
LEMMA FoundRate ==
  ASSUME NEW table \in Seq(Observation), NEW asOf \in Date, NEW r \in FxLookup(table, asOf)
  PROVE  r \in Nat
<1> DEFINE known == {i \in DOMAIN table : table[i].at <= asOf}
           latest == {i \in known : \A j \in known : table[j].at <= table[i].at}
<1>1. /\ known = {} => FxLookup(table, asOf) = {}
      /\ known # {} => Max(latest) \in latest /\ FxLookup(table, asOf) = {table[Max(latest)].rate}
  BY FxLookupIs
<1>2. \A i \in latest : i \in DOMAIN table
  OBVIOUS
<1>3. \A i \in DOMAIN table : table[i] \in Observation
  BY ElementOfSeq, LenProperties
<1> HIDE DEF known, latest
<1>4. PICK i \in DOMAIN table : r = table[i].rate
  BY <1>1, <1>2
<1> QED
  BY <1>3, <1>4, DatesAreNumbers DEF Observation

\* What a step of the loop books is what it moves.
LEMMA RevalueKeeps ==
  ASSUME RInv, NEW a \in DOMAIN Foreign, RevalueOne(a)
  PROVE  RInv'
<1>1. RTypes /\ gainLoss = 0 - revalued /\ revalued = Remeasured(bookRate)
  BY DEF RInv, RevaluationTelescopes, RTypes
<1>2. UNCHANGED <<fxRates, taxRates, closing>>
  BY DEF RevalueOne, RateTables
<1>3. CASE UNCHANGED <<bookRate, revalued, gainLoss>> /\ walk' \subseteq walk
  <2>1. RTypes'
    BY <1>1, <1>2, <1>3 DEF RTypes
  <2>2. RevaluationTelescopes'
    BY <1>3 DEF RInv, RevaluationTelescopes
  <2> QED
    BY <2>1, <2>2 DEF RInv
<1>4. CASE /\ revalued' = revalued + OnDebit(a, Adjustment(a))
           /\ gainLoss' = gainLoss - OnDebit(a, Adjustment(a))
           /\ bookRate' = [bookRate EXCEPT ![a] = closing]
           /\ walk' = walk \ {a}
  <2>1. bookRate \in [DOMAIN Foreign -> Nat] /\ closing \in Nat
        /\ revalued \in Int /\ gainLoss \in Int /\ walk \subseteq DOMAIN Foreign
    BY <1>1 DEF RTypes
  <2>2. PICK more \in [DOMAIN Foreign -> Nat], m \in Int :
          /\ more = [bookRate EXCEPT ![a] = closing] /\ m = OnDebit(a, Adjustment(a))
          /\ Remeasured(more) = Remeasured(bookRate) + m
    <3>1. PICK r \in [DOMAIN Foreign -> Nat], c \in Nat : r = bookRate /\ c = closing
      BY <2>1
    <3>2. PICK more : more = [r EXCEPT ![a] = c]
      OBVIOUS
    <3>3. PICK m : m = OnDebit(a, Foreign[a].balance * c - Foreign[a].balance * r[a])
      OBVIOUS
    <3>4. more \in [DOMAIN Foreign -> Nat] /\ m \in Int /\ Remeasured(more) = Remeasured(r) + m
      BY <3>2, <3>3, MovedOne
    <3>5. more = [bookRate EXCEPT ![a] = closing] /\ m = OnDebit(a, Adjustment(a))
      BY <3>1, <3>2, <3>3 DEF Adjustment
    <3> QED
      BY <3>1, <3>4, <3>5
  <2>3. revalued' = revalued + m /\ gainLoss' = gainLoss - m /\ bookRate' = more
    BY <1>4, <2>2
  <2>4. revalued' \in Int /\ gainLoss' \in Int
    BY <2>1, <2>3
  <2>5. gainLoss' = -revalued'
    BY <1>1, <2>1, <2>3
  <2>6. revalued' = Remeasured(bookRate')
    BY <1>1, <2>2, <2>3
  <2>7. RTypes'
    BY <1>1, <1>2, <1>4, <2>3, <2>4 DEF RTypes
  <2> QED
    BY <2>5, <2>6, <2>7 DEF RInv, RevaluationTelescopes
<1> QED
  BY <1>3, <1>4 DEF RevalueOne

\* The tables take an observation or a row, and the rest stays.
LEMMA RecordKeeps ==
  ASSUME RInv, NEW d \in Date,
         \/ \E r \in Rate : SetRate(d, r)
         \/ \E k \in TaxKey, r \in TaxRate : InsertTax(k, d, r)
  PROVE  RInv'
<1>1. UNCHANGED <<bookRate, revalued, gainLoss, walk, closing>>
  BY DEF SetRate, InsertTax
<1>2. RTypes /\ RevaluationTelescopes
  BY DEF RInv
<1>3. RevaluationTelescopes'
  BY <1>1, <1>2 DEF RevaluationTelescopes
<1>4. CASE \E r \in Rate : SetRate(d, r)
  <2>1. PICK r \in Rate : SetRate(d, r)
    BY <1>4
  <2>2. [at |-> d, rate |-> r] \in Observation
    BY DEF Observation
  <2>3. fxRates' = Append(fxRates, [at |-> d, rate |-> r]) /\ taxRates' = taxRates
    BY <2>1 DEF SetRate
  <2>4. fxRates' \in Seq(Observation)
    BY <1>2, <2>2, <2>3, AppendProperties DEF RTypes
  <2>5. RTypes'
    BY <1>1, <1>2, <2>3, <2>4 DEF RTypes
  <2> QED
    BY <1>3, <2>5 DEF RInv
<1>5. CASE \E k \in TaxKey, r \in TaxRate : InsertTax(k, d, r)
  <2>1. PICK k \in TaxKey, r \in TaxRate : InsertTax(k, d, r)
    BY <1>5
  <2>2. taxRates' = [taxRates EXCEPT ![k] = Effective(@, d, r)] /\ fxRates' = fxRates
    BY <2>1 DEF InsertTax
  <2>3. /\ taxRates = [j \in TaxKey |-> taxRates[j]] /\ \A j \in TaxKey : TaxTable(taxRates[j])
    BY <1>2 DEF RTypes
  <2>4. /\ taxRates' = [j \in TaxKey |-> taxRates'[j]]
        /\ taxRates'[k] = Effective(taxRates[k], d, r)
        /\ \A j \in TaxKey : j # k => taxRates'[j] = taxRates[j]
    BY <2>2, <2>3
  <2>5. TaxTable(Effective(taxRates[k], d, r))
    BY <2>3, LaterRow
  <2>6. ASSUME NEW j \in TaxKey PROVE TaxTable(taxRates'[j])
    <3>1. CASE j = k
      BY <2>4, <2>5, <3>1
    <3>2. CASE j # k
      BY <2>3, <2>4, <3>2
    <3> QED
      BY <3>1, <3>2
  <2>7. RTypes'
    BY <1>1, <1>2, <2>2, <2>4, <2>6 DEF RTypes
  <2> QED
    BY <1>3, <2>7 DEF RInv
<1> QED
  BY <1>4, <1>5

LEMMA RInvNext == RInv /\ [RNext]_rvars => RInv'
<1> SUFFICES ASSUME RInv, [RNext]_rvars PROVE RInv'
  OBVIOUS
<1>1. RTypes /\ RevaluationTelescopes
  BY DEF RInv
<1>2. CASE \E d \in Date, r \in Rate : SetRate(d, r)
  BY <1>2, RecordKeeps
<1>3. CASE \E k \in TaxKey, d \in Date, r \in TaxRate : InsertTax(k, d, r)
  BY <1>3, RecordKeeps
<1>4. CASE \E d \in Date : StartRevalue(d)
  <2>1. PICK d \in Date : StartRevalue(d)
    BY <1>4
  <2>2. PICK r \in FxLookup(fxRates, d) : closing' = r
    BY <2>1 DEF StartRevalue
  <2>3. closing' \in Nat
    BY <1>1, <2>2, FoundRate DEF RTypes
  <2>4. walk' = DOMAIN Foreign /\ UNCHANGED <<fxRates, taxRates, bookRate, revalued, gainLoss>>
    BY <2>1 DEF StartRevalue, RateTables
  <2>5. RTypes'
    BY <1>1, <2>3, <2>4 DEF RTypes
  <2>6. RevaluationTelescopes'
    BY <1>1, <2>4 DEF RevaluationTelescopes
  <2> QED
    BY <2>5, <2>6 DEF RInv
<1>5. CASE \E a \in DOMAIN Foreign : RevalueOne(a)
  BY <1>5, RevalueKeeps
<1>6. CASE TurnPeriod \/ UNCHANGED rvars
  <2>1. UNCHANGED <<fxRates, taxRates, bookRate, revalued, gainLoss, walk, closing>>
    BY <1>6 DEF TurnPeriod, rvars, RateTables
  <2>2. RTypes'
    BY <1>1, <2>1 DEF RTypes
  <2>3. RevaluationTelescopes'
    BY <1>1, <2>1 DEF RevaluationTelescopes
  <2> QED
    BY <2>2, <2>3 DEF RInv
<1> QED
  BY <1>2, <1>3, <1>4, <1>5, <1>6 DEF RNext

\* No step changes what the tables answer for a date before the one it records.
LEMMA PastRatesStep ==
  ASSUME RTypes, [RNext]_rvars, NEW d \in Date
  PROVE  /\ (\A e \in Date : e <= d => ~\E r \in Rate : fxRates' = Append(fxRates, [at |-> e, rate |-> r]))
              => FxLookup(fxRates', d) = FxLookup(fxRates, d)
         /\ \A k \in TaxKey :
              (\A e \in Date : e <= d => ~\E r \in TaxRate : taxRates'[k] = Effective(taxRates[k], e, r))
                => TaxLookup(taxRates'[k], d) = TaxLookup(taxRates[k], d)
<1>1. /\ fxRates \in Seq(Observation)
      /\ taxRates = [k \in TaxKey |-> taxRates[k]] /\ \A k \in TaxKey : TaxTable(taxRates[k])
  BY DEF RTypes
<1>2. \A x, y \in Date : x <= y \/ y < x
  BY DatesAreNumbers
<1>3. CASE \E e \in Date, r \in Rate : SetRate(e, r)
  <2>1. PICK e \in Date, r \in Rate : SetRate(e, r)
    BY <1>3
  <2>2. PICK o \in Observation : o = [at |-> e, rate |-> r] /\ o.at = e
    <3>1. [at |-> e, rate |-> r] \in Observation
      BY DEF Observation
    <3> QED
      BY <3>1
  <2>3. fxRates' = Append(fxRates, o) /\ taxRates' = taxRates
    BY <2>1, <2>2 DEF SetRate
  <2>4. d < e => FxLookup(fxRates', d) = FxLookup(fxRates, d)
    BY <1>1, <2>2, <2>3, LaterObservation
  <2>5. CASE e <= d
    BY <2>2, <2>3, <2>5
  <2>6. CASE d < e
    BY <2>3, <2>4, <2>6
  <2> QED
    BY <1>2, <2>5, <2>6
<1>4. CASE \E k \in TaxKey, e \in Date, r \in TaxRate : InsertTax(k, e, r)
  <2>1. PICK k \in TaxKey, e \in Date, r \in TaxRate : InsertTax(k, e, r)
    BY <1>4
  <2>2. fxRates' = fxRates /\ taxRates' = [taxRates EXCEPT ![k] = Effective(@, e, r)]
    BY <2>1 DEF InsertTax
  <2>3. /\ taxRates'[k] = Effective(taxRates[k], e, r)
        /\ \A j \in TaxKey : j # k => taxRates'[j] = taxRates[j]
    BY <1>1, <2>2
  <2>4. d < e => TaxLookup(taxRates'[k], d) = TaxLookup(taxRates[k], d)
    BY <1>1, <2>3, LaterRow
  <2>5. ASSUME NEW j \in TaxKey,
               \A f \in Date : f <= d => ~\E q \in TaxRate : taxRates'[j] = Effective(taxRates[j], f, q)
        PROVE  TaxLookup(taxRates'[j], d) = TaxLookup(taxRates[j], d)
    <3>1. CASE j = k
      <4>1. ~(e <= d)
        BY <2>3, <2>5, <3>1
      <4> QED
        BY <1>2, <2>4, <3>1, <4>1
    <3>2. CASE j # k
      BY <2>3, <3>2
    <3> QED
      BY <3>1, <3>2
  <2> QED
    BY <2>2, <2>5
<1>5. CASE UNCHANGED <<fxRates, taxRates>>
  BY <1>5
<1>6. \/ \E e \in Date, r \in Rate : SetRate(e, r)
      \/ \E k \in TaxKey, e \in Date, r \in TaxRate : InsertTax(k, e, r)
      \/ UNCHANGED <<fxRates, taxRates>>
  BY DEF RNext, StartRevalue, RevalueOne, TurnPeriod, RateTables, rvars
<1> QED
  BY <1>3, <1>4, <1>5, <1>6

-----------------------------------------------------------------------------
(* Tax: what lines and their refunds owe.                                  *)

AllTaxed(E, asOf) == \A l \in E : TaxOf(l, asOf) \in Int

\* The total, and a jurisdiction's, after each line.
TotalSteps(r, lines, asOf) ==
  r[0] = 0 /\ \A i \in 1..Len(lines) : r[i] = r[i - 1] + TaxOf(lines[i], asOf)
RawSteps(r, lines, asOf, j) ==
  /\ r[0] = 0
  /\ \A i \in 1..Len(lines) :
       r[i] = (IF lines[i].key[1] = j THEN r[i - 1] + TaxOf(lines[i], asOf) ELSE r[i - 1])

\* The tax of a sequence of lines, one line at a time.
LEMMA TotalTaxChain ==
  ASSUME NEW E, NEW asOf, AllTaxed(E, asOf), NEW lines \in Seq(E)
  PROVE  \E r \in [0..Len(lines) -> Int] : TotalSteps(r, lines, asOf) /\ TotalTax(lines, asOf) = r[Len(lines)]
<1> DEFINE N == Len(lines)
           F == [i \in 1..N |-> [t \in Int |-> t + TaxOf(lines[i], asOf)]]
           Body(h, s) == IF s = {} THEN 0
                         ELSE h[s \ {Max(s)}] + TaxOf(lines[Max(s)], asOf)
           iter == CHOOSE h : h = [s \in SUBSET (DOMAIN lines) |-> Body(h, s)]
<1>1. N \in Nat /\ DOMAIN lines = 1..N /\ \A i \in 1..N : lines[i] \in E
  BY ElementOfSeq
<1>2. TotalTax(lines, asOf) = iter[DOMAIN lines]
  BY DEF TotalTax, FoldLeft, MapThenFoldSet
<1>3. F \in [1..N -> [Int -> Int]]
  BY <1>1 DEF AllTaxed
<1>4. \A s \in (SUBSET (1..N)) \ {{}} : Max(s) \in 1..N /\ s \ {Max(s)} \in SUBSET (1..N)
  <2>1. ASSUME NEW s \in (SUBSET (1..N)) \ {{}} PROVE Max(s) \in s
    <3>1. s \subseteq 0..N /\ s # {}
      OBVIOUS
    <3> QED
      BY <1>1, <3>1, Greatest
  <2> QED
    BY <2>1
<1>5. \A h, s : s \in (SUBSET (1..N)) \ {{}} /\ h[s \ {Max(s)}] \in Int
                => F[Max(s)][h[s \ {Max(s)}]] = Body(h, s)
  BY <1>4
<1>6. \A h : Body(h, {}) = 0
  OBVIOUS
<1> HIDE DEF Body, F, N, iter
<1>7. Foldable(N, Int, F, 0)
  <2>1. 0 \in Int /\ N \in Nat
    BY <1>1
  <2> QED
    BY <1>3, <2>1, FoldRule
<1>8. PICK g \in [SUBSET (1..N) -> Int], r \in [0..N -> Int] :
        /\ Unfolds(g, N, F, 0) /\ Chain(r, N, F, 0)
        /\ \A h : Follows(h, N, Int, F, 0) => h[1..N] = r[N]
  BY <1>7 DEF Foldable
<1>9. g = [s \in SUBSET (DOMAIN lines) |-> Body(g, s)]
  <2>1. ASSUME NEW s \in SUBSET (1..N) PROVE g[s] = Body(g, s)
    BY <1>4, <1>5, <1>6, <1>8 DEF Unfolds
  <2> QED
    BY <1>1, <2>1
<1>10. iter = [s \in SUBSET (DOMAIN lines) |-> Body(iter, s)]
  BY <1>9 DEF iter
<1>11. Follows(iter, N, Int, F, 0)
  BY <1>1, <1>5, <1>6, <1>10 DEF Follows
<1>12. iter[1..N] = r[N]
  BY <1>8, <1>11
<1>13. \A i \in 1..N : r[i] = r[i - 1] + TaxOf(lines[i], asOf)
  <2>1. ASSUME NEW i \in 1..N PROVE r[i] = r[i - 1] + TaxOf(lines[i], asOf)
    <3>1. i - 1 \in 0..N /\ r[i - 1] \in Int
      BY <1>1, <1>8
    <3> QED
      BY <1>8, <3>1 DEF Chain, F
  <2> QED
    BY <2>1
<1> QED
  BY <1>1, <1>2, <1>8, <1>12, <1>13 DEF Chain, N, TotalSteps

\* The tax of one jurisdiction, one line at a time.
LEMMA TaxInChain ==
  ASSUME NEW E, NEW asOf, AllTaxed(E, asOf), NEW lines \in Seq(E), NEW j
  PROVE  \E r \in [0..Len(lines) -> Int] : RawSteps(r, lines, asOf, j) /\ TaxIn(lines, asOf, j) = r[Len(lines)]
<1> DEFINE N == Len(lines)
           F == [i \in 1..N |-> [t \in Int |-> (IF lines[i].key[1] = j THEN t + TaxOf(lines[i], asOf) ELSE t)]]
           Body(h, s) == IF s = {} THEN 0
                         ELSE (IF lines[Max(s)].key[1] = j THEN h[s \ {Max(s)}] + TaxOf(lines[Max(s)], asOf) ELSE h[s \ {Max(s)}])
           iter == CHOOSE h : h = [s \in SUBSET (DOMAIN lines) |-> Body(h, s)]
<1>1. N \in Nat /\ DOMAIN lines = 1..N /\ \A i \in 1..N : lines[i] \in E
  BY ElementOfSeq
<1>2. TaxIn(lines, asOf, j) = iter[DOMAIN lines]
  BY DEF TaxIn, FoldLeft, MapThenFoldSet
<1>3. F \in [1..N -> [Int -> Int]]
  BY <1>1 DEF AllTaxed
<1>4. \A s \in (SUBSET (1..N)) \ {{}} : Max(s) \in 1..N /\ s \ {Max(s)} \in SUBSET (1..N)
  <2>1. ASSUME NEW s \in (SUBSET (1..N)) \ {{}} PROVE Max(s) \in s
    <3>1. s \subseteq 0..N /\ s # {}
      OBVIOUS
    <3> QED
      BY <1>1, <3>1, Greatest
  <2> QED
    BY <2>1
<1>5. \A h, s : s \in (SUBSET (1..N)) \ {{}} /\ h[s \ {Max(s)}] \in Int
                => F[Max(s)][h[s \ {Max(s)}]] = Body(h, s)
  BY <1>4
<1>6. \A h : Body(h, {}) = 0
  OBVIOUS
<1> HIDE DEF Body, F, N, iter
<1>7. Foldable(N, Int, F, 0)
  <2>1. 0 \in Int /\ N \in Nat
    BY <1>1
  <2> QED
    BY <1>3, <2>1, FoldRule
<1>8. PICK g \in [SUBSET (1..N) -> Int], r \in [0..N -> Int] :
        /\ Unfolds(g, N, F, 0) /\ Chain(r, N, F, 0)
        /\ \A h : Follows(h, N, Int, F, 0) => h[1..N] = r[N]
  BY <1>7 DEF Foldable
<1>9. g = [s \in SUBSET (DOMAIN lines) |-> Body(g, s)]
  <2>1. ASSUME NEW s \in SUBSET (1..N) PROVE g[s] = Body(g, s)
    BY <1>4, <1>5, <1>6, <1>8 DEF Unfolds
  <2> QED
    BY <1>1, <2>1
<1>10. iter = [s \in SUBSET (DOMAIN lines) |-> Body(iter, s)]
  BY <1>9 DEF iter
<1>11. Follows(iter, N, Int, F, 0)
  BY <1>1, <1>5, <1>6, <1>10 DEF Follows
<1>12. iter[1..N] = r[N]
  BY <1>8, <1>11
<1>13. \A i \in 1..N : r[i] = (IF lines[i].key[1] = j THEN r[i - 1] + TaxOf(lines[i], asOf) ELSE r[i - 1])
  <2>1. ASSUME NEW i \in 1..N PROVE r[i] = (IF lines[i].key[1] = j THEN r[i - 1] + TaxOf(lines[i], asOf) ELSE r[i - 1])
    <3>1. i - 1 \in 0..N /\ r[i - 1] \in Int
      BY <1>1, <1>8
    <3> QED
      BY <1>8, <3>1 DEF Chain, F
  <2> QED
    BY <2>1
<1> QED
  BY <1>1, <1>2, <1>8, <1>12, <1>13 DEF Chain, N, RawSteps

\* The tax of every jurisdiction, as a sum.
LEMMA OwedAdds ==
  ASSUME NEW result, NEW S, IsFiniteSet(S),
         NEW f \in [S -> Int], \A k \in S : f[k] = result.tax[k]
  PROVE  MapThenSumSet(LAMBDA k : result.tax[k], S) = Sum(f, S)
<1> DEFINE Some(s) == CHOOSE x \in s : TRUE
           Body(w, s) == IF s = {} THEN 0 ELSE result.tax[Some(s)] + w[s \ {Some(s)}]
           iter == CHOOSE w : w = [s \in SUBSET S |-> Body(w, s)]
<1>1. MapThenSumSet(LAMBDA k : result.tax[k], S) = iter[S]
  BY DEF MapThenSumSet, MapThenFoldSet
<1>2. \A w, s : s \in (SUBSET S) \ {{}} =>
        Some(s) \in s /\ s \ {Some(s)} \in SUBSET S /\ Body(w, s) = f[Some(s)] + w[s \ {Some(s)}]
  OBVIOUS
<1>3. \A w : Body(w, {}) = 0
  OBVIOUS
<1> HIDE DEF Body, iter, Some
<1>4. PICK g \in [SUBSET S -> Int] : SumsUp(g, S, f)
  BY SumExists
<1>5. \E w : w = [s \in SUBSET S |-> Body(w, s)]
  <2>1. PICK w : w = [s \in SUBSET S |-> g[s]]
    OBVIOUS
  <2>2. ASSUME NEW s \in SUBSET S PROVE w[s] = Body(w, s)
    <3>1. CASE s = {}
      BY <1>3, <1>4, <2>1, <3>1 DEF SumsUp
    <3>2. CASE s # {}
      <4>1. PICK x \in s : x = Some(s) /\ s \ {x} \in SUBSET S /\ Body(w, s) = f[x] + w[s \ {x}]
        BY <1>2, <3>2
      <4>2. g[s] = f[x] + g[s \ {x}]
        BY <1>4 DEF SumsUp
      <4> QED
        BY <2>1, <4>1, <4>2
    <3> QED
      BY <3>1, <3>2
  <2>3. w = [s \in SUBSET S |-> Body(w, s)]
    BY <2>1, <2>2
  <2> QED
    BY <2>3
<1>6. iter = [s \in SUBSET S |-> Body(iter, s)]
  BY <1>5 DEF iter
<1>7. Gathers(iter, S, f)
  <2>1. iter[{}] = 0
    BY <1>3, <1>6
  <2>2. ASSUME NEW s \in (SUBSET S) \ {{}} PROVE \E x \in s : iter[s] = f[x] + iter[s \ {x}]
    <3>1. PICK x \in s : x = Some(s) /\ Body(iter, s) = f[x] + iter[s \ {x}]
      BY <1>2
    <3>2. iter[s] = Body(iter, s)
      BY <1>6
    <3> QED
      BY <3>1, <3>2
  <2> QED
    BY <2>1, <2>2 DEF Gathers
<1> QED
  BY <1>1, <1>7, GatheredSum

\* Rounding half away from zero rounds a refund as it rounds what is refunded.
LEMMA RoundsAlike ==
  ASSUME NEW b \in Int, NEW r \in Nat
  PROVE  RoundedTax(b, r) \in Int /\ RoundedTax(-b, r) = 0 - RoundedTax(b, r)
<1>1. PICK x \in Int : x = b * r
  OBVIOUS
<1>2. (-b) * r = 0 - x
  <2>1. (-b) * r = -(b * r)
    OBVIOUS
  <2>2. -(b * r) = 0 - x
    BY <1>1
  <2> QED
    BY <2>1, <2>2
<1>3. RoundedTax(b, r) = IF x >= 0 THEN (x + 5) \div 10 ELSE -((5 - x) \div 10)
  BY <1>1 DEF RoundedTax
<1>4. RoundedTax(-b, r) = IF 0 - x >= 0 THEN ((0 - x) + 5) \div 10 ELSE -((5 - (0 - x)) \div 10)
  BY <1>2 DEF RoundedTax
<1>5. CASE x > 0
  <2>1. RoundedTax(b, r) = (x + 5) \div 10
    BY <1>3, <1>5
  <2>2. RoundedTax(-b, r) = -((5 + x) \div 10)
    BY <1>4, <1>5
  <2>3. PICK q \in Int : q = (x + 5) \div 10 /\ q = (5 + x) \div 10
    BY <1>5
  <2> QED
    BY <2>1, <2>2, <2>3
<1>6. CASE x < 0
  <2>1. RoundedTax(b, r) = -((5 - x) \div 10)
    BY <1>3, <1>6
  <2>2. RoundedTax(-b, r) = ((0 - x) + 5) \div 10
    BY <1>4, <1>6
  <2>3. PICK q \in Int : q = (5 - x) \div 10 /\ q = ((0 - x) + 5) \div 10
    BY <1>6
  <2>4. RoundedTax(b, r) = 0 - q /\ RoundedTax(-b, r) = q
    BY <2>1, <2>2, <2>3
  <2> QED
    BY <2>4
<1>7. CASE x = 0
  <2>1. RoundedTax(b, r) = 0 /\ RoundedTax(-b, r) = 0
    BY <1>3, <1>4, <1>7
  <2> QED
    BY <2>1
<1> QED
  BY <1>5, <1>6, <1>7

\* A line is taxed at its key's rate, when there is one.
LEMMA LineIsTaxed ==
  ASSUME RTypes, NEW k \in TaxKey, NEW d \in Date, TaxLookup(taxRates[k], d) # {}
  PROVE  \E r \in Nat : \A l : l.key = k => TaxOf(l, d) = RoundedTax(l.base, r)
<1>1. TaxTable(taxRates[k])
  BY DEF RTypes
<1> DEFINE known == {e \in DOMAIN taxRates[k] : e <= d}
<1>2. /\ known = {} => TaxLookup(taxRates[k], d) = {}
      /\ known # {} => /\ TaxLookup(taxRates[k], d) = {taxRates[k][Max(known)]}
                       /\ taxRates[k][Max(known)] \in TaxRate
  BY <1>1, TaxLookupIs
<1> HIDE DEF known
<1>3. PICK r \in TaxRate : TaxLookup(taxRates[k], d) = {r}
  BY <1>2
<1>4. r \in Nat
  BY DatesAreNumbers
<1>5. (CHOOSE q \in TaxLookup(taxRates[k], d) : TRUE) = r
  BY <1>3
<1> QED
  BY <1>4, <1>5 DEF TaxOf

\* A line's share of a jurisdiction's tax, and the tax after each line.
Share(l, asOf, j) == IF l.key[1] = j THEN TaxOf(l, asOf) ELSE 0
TaxSteps(r, lines, asOf, j) ==
  r[0] = 0 /\ \A i \in 1..Len(lines) : r[i] = r[i - 1] + Share(lines[i], asOf, j)

LEMMA TaxInAdds ==
  ASSUME NEW E, NEW asOf, AllTaxed(E, asOf), NEW lines \in Seq(E), NEW j
  PROVE  \E r \in [0..Len(lines) -> Int] :
           TaxSteps(r, lines, asOf, j) /\ TaxIn(lines, asOf, j) = r[Len(lines)]
<1>1. \A x \in E : TaxOf(x, asOf) \in Int
  BY DEF AllTaxed
<1>a. PICK r \in [0..Len(lines) -> Int] :
        RawSteps(r, lines, asOf, j) /\ TaxIn(lines, asOf, j) = r[Len(lines)]
  BY TaxInChain
<1>2. /\ r[0] = 0
      /\ \A i \in 1..Len(lines) :
           r[i] = (IF lines[i].key[1] = j THEN r[i - 1] + TaxOf(lines[i], asOf) ELSE r[i - 1])
      /\ TaxIn(lines, asOf, j) = r[Len(lines)]
  BY <1>a DEF RawSteps
<1>3. ASSUME NEW i \in 1..Len(lines) PROVE r[i] = r[i - 1] + Share(lines[i], asOf, j)
  <2>1. i - 1 \in 0..Len(lines)
    BY LenProperties
  <2>2. r[i - 1] \in Int /\ lines[i] \in E
    BY <2>1, ElementOfSeq
  <2>3. CASE lines[i].key[1] = j
    BY <1>1, <1>2, <2>2, <2>3 DEF Share
  <2>4. CASE lines[i].key[1] # j
    <3>1. r[i] = r[i - 1] /\ Share(lines[i], asOf, j) = 0
      BY <1>2, <2>4 DEF Share
    <3> QED
      BY <2>2, <3>1
  <2> QED
    BY <2>3, <2>4
<1> QED
  BY <1>2, <1>3 DEF TaxSteps

\* Two lines and their refunds.
FourLines(lines, a, b, p, q) == lines = <<a, b, p, q>>
TwoOf(lines, a, b) == lines = <<a, b>>

LEMMA RefundedLines ==
  ASSUME NEW d, NEW a, NEW b, NEW p, NEW q, NEW x \in Int, NEW y \in Int,
         TaxOf(a, d) = x, TaxOf(b, d) = y, TaxOf(p, d) = 0 - x, TaxOf(q, d) = 0 - y,
         p.key = a.key, q.key = b.key, NEW lines, FourLines(lines, a, b, p, q)
  PROVE  TotalTax(lines, d) = 0 /\ \A j : TaxIn(lines, d, j) = 0
<1>2. /\ lines \in Seq({a, b, p, q}) /\ Len(lines) = 4
      /\ lines[1] = a /\ lines[2] = b /\ lines[3] = p /\ lines[4] = q
  BY DEF FourLines
<1>s. AllTaxed({a, b, p, q}, d)
  BY DEF AllTaxed
<1>3. PICK E : lines \in Seq(E) /\ AllTaxed(E, d)
  BY <1>2, <1>s, Zenon
<1>4. TotalTax(lines, d) = 0
  <2>a. PICK r \in [0..Len(lines) -> Int] : TotalSteps(r, lines, d) /\ TotalTax(lines, d) = r[Len(lines)]
    BY <1>3, TotalTaxChain
  <2>1. /\ r \in [0..4 -> Int]
        /\ r[0] = 0 /\ \A i \in 1..4 : r[i] = r[i - 1] + TaxOf(lines[i], d)
        /\ TotalTax(lines, d) = r[4]
    BY <1>2, <2>a DEF TotalSteps
  <2>2. r[1] = 0 + x /\ r[2] = r[1] + y /\ r[3] = r[2] + (0 - x) /\ r[4] = r[3] + (0 - y)
    BY <1>2, <2>1
  <2> QED
    BY <2>1, <2>2
<1>5. ASSUME NEW j PROVE TaxIn(lines, d, j) = 0
  <2>1. PICK r \in [0..Len(lines) -> Int] : TaxSteps(r, lines, d, j) /\ TaxIn(lines, d, j) = r[Len(lines)]
    BY <1>3, TaxInAdds
  <2>2. PICK u \in Int : u = Share(a, d, j) /\ Share(p, d, j) = 0 - u
    <3>1. CASE a.key[1] = j
      BY <3>1 DEF Share
    <3>2. CASE a.key[1] # j
      BY <3>2 DEF Share
    <3> QED
      BY <3>1, <3>2
  <2>3. PICK v \in Int : v = Share(b, d, j) /\ Share(q, d, j) = 0 - v
    <3>1. CASE b.key[1] = j
      BY <3>1 DEF Share
    <3>2. CASE b.key[1] # j
      BY <3>2 DEF Share
    <3> QED
      BY <3>1, <3>2
  <2>4. \A i \in 1..4 : r[i] = r[i - 1] + Share(lines[i], d, j)
    BY <1>2, <2>1 DEF TaxSteps
  <2>5. r[0] = 0 /\ TaxIn(lines, d, j) = r[4]
    BY <1>2, <2>1 DEF TaxSteps
  <2>6. r[1] = r[0] + u /\ r[2] = r[1] + v /\ r[3] = r[2] + (0 - u) /\ r[4] = r[3] + (0 - v)
    BY <1>2, <2>2, <2>3, <2>4
  <2> QED
    BY <2>5, <2>6
<1> QED
  BY <1>4, <1>5

LEMMA TwoLines ==
  ASSUME NEW d, NEW a, NEW b, NEW x \in Int, NEW y \in Int, TaxOf(a, d) = x, TaxOf(b, d) = y,
         NEW lines, TwoOf(lines, a, b)
  PROVE  /\ TotalTax(lines, d) = x + y
         /\ \A j : TaxIn(lines, d, j) = Share(a, d, j) + Share(b, d, j)
<1>2. lines \in Seq({a, b}) /\ Len(lines) = 2 /\ lines[1] = a /\ lines[2] = b
  BY DEF TwoOf
<1>s. AllTaxed({a, b}, d)
  BY DEF AllTaxed
<1>3. PICK E : lines \in Seq(E) /\ AllTaxed(E, d)
  BY <1>2, <1>s, Zenon
<1>4. TotalTax(lines, d) = x + y
  <2>a. PICK r \in [0..Len(lines) -> Int] : TotalSteps(r, lines, d) /\ TotalTax(lines, d) = r[Len(lines)]
    BY <1>3, TotalTaxChain
  <2>1. /\ r[0] = 0 /\ \A i \in 1..2 : r[i] = r[i - 1] + TaxOf(lines[i], d)
        /\ TotalTax(lines, d) = r[2]
    BY <1>2, <2>a DEF TotalSteps
  <2>2. r[1] = 0 + x /\ r[2] = r[1] + y
    BY <1>2, <2>1
  <2> QED
    BY <1>2, <2>1, <2>2
<1>5. ASSUME NEW j PROVE TaxIn(lines, d, j) = Share(a, d, j) + Share(b, d, j)
  <2>1. PICK r \in [0..Len(lines) -> Int] : TaxSteps(r, lines, d, j) /\ TaxIn(lines, d, j) = r[Len(lines)]
    BY <1>3, TaxInAdds
  <2>2. PICK u \in Int : u = Share(a, d, j)
    BY DEF Share
  <2>3. PICK v \in Int : v = Share(b, d, j)
    BY DEF Share
  <2>4. \A i \in 1..2 : r[i] = r[i - 1] + Share(lines[i], d, j)
    BY <1>2, <2>1 DEF TaxSteps
  <2>5. r[0] = 0 /\ TaxIn(lines, d, j) = r[2]
    BY <1>2, <2>1 DEF TaxSteps
  <2>6. r[1] = r[0] + u /\ r[2] = r[1] + v
    BY <1>2, <2>2, <2>3, <2>4
  <2>7. r[2] = u + v
    BY <2>5, <2>6
  <2> QED
    BY <2>2, <2>3, <2>5, <2>7
<1> QED
  BY <1>4, <1>5

\* The sum over one jurisdiction or two.
OwesTwo(result, j1, j2, x, y) ==
  /\ DOMAIN result.tax = {j1, j2}
  /\ j1 = j2 => result.tax[j1] = x + y
  /\ j1 # j2 => result.tax[j1] = x /\ result.tax[j2] = y

LEMMA OwedByTwo ==
  ASSUME NEW result, NEW j1, NEW j2, NEW x \in Int, NEW y \in Int, OwesTwo(result, j1, j2, x, y)
  PROVE  Owed(result) = x + y
<1>1. PICK S : S = {j1, j2} /\ S = DOMAIN result.tax
  BY DEF OwesTwo
<1>t. /\ j1 = j2 => result.tax[j1] = x + y
      /\ j1 # j2 => result.tax[j1] = x /\ result.tax[j2] = y
  BY DEF OwesTwo
<1>2. IsFiniteSet(S)
  <2>1. S = {j1} \cup {j2} /\ IsFiniteSet({j1})
    BY <1>1, FS_Singleton
  <2> QED
    BY <2>1, FS_AddElement
<1>3. PICK f : f = [k \in S |-> result.tax[k]]
  OBVIOUS
<1>4. f \in [S -> Int]
  BY <1>1, <1>3, <1>t
<1>5. MapThenSumSet(LAMBDA k : result.tax[k], S) = Sum(f, S)
  <2>1. \A k \in S : f[k] = result.tax[k]
    BY <1>3
  <2> QED
    BY <1>2, <1>4, <2>1, OwedAdds
<1>6. Owed(result) = Sum(f, S)
  BY <1>1, <1>5 DEF Owed
<1>7. /\ Sum(f, {}) = 0
      /\ \A s \in SUBSET S : Sum(f, s) \in Int
      /\ \A s \in SUBSET S : \A k \in s : Sum(f, s) = f[k] + Sum(f, s \ {k})
  BY <1>2, <1>4, SumOne
<1>8. Sum(f, S) = f[j1] + Sum(f, S \ {j1})
  BY <1>1, <1>7
<1>9. CASE j1 = j2
  <2>1. S \ {j1} = {} /\ f[j1] = x + y
    BY <1>1, <1>3, <1>9, <1>t
  <2>2. Sum(f, S) = (x + y) + 0
    BY <1>7, <1>8, <2>1
  <2> QED
    BY <1>6, <2>2
<1>10. CASE j1 # j2
  <2>1. S \ {j1} = {j2} /\ {j2} \in SUBSET S /\ {j2} \ {j2} = {} /\ f[j1] = x /\ f[j2] = y
    BY <1>1, <1>3, <1>10, <1>t
  <2>2. Sum(f, {j2}) = f[j2] + Sum(f, {})
    BY <1>7, <2>1
  <2>3. Sum(f, {j2}) = y + 0
    BY <1>7, <2>1, <2>2
  <2>4. Sum(f, S) = x + y
    BY <1>8, <2>1, <2>3
  <2> QED
    BY <1>6, <2>4
<1> QED
  BY <1>9, <1>10

IsTaxOf(result, lines, d) ==
  /\ result.total = TotalTax(lines, d)
  /\ \A j : j \in DOMAIN result.tax <=> \E i \in DOMAIN lines : j = lines[i].key[1]
  /\ \A j \in DOMAIN result.tax : result.tax[j] = TaxIn(lines, d, j)

LEMMA TaxedIs ==
  ASSUME NEW lines, NEW d, Taxed(lines, d) # <<>>
  PROVE  /\ \A i \in DOMAIN lines : TaxLookup(taxRates[lines[i].key], d) # {}
         /\ IsTaxOf(Taxed(lines, d)[1], lines, d)
<1> DEFINE seen == {lines[i].key[1] : i \in DOMAIN lines}
<1>1. \A i \in DOMAIN lines : TaxLookup(taxRates[lines[i].key], d) # {}
  BY DEF Taxed
<1>2. PICK row : row = [base  |-> [j \in seen |-> BaseIn(lines, j)],
                        tax   |-> [j \in seen |-> TaxIn(lines, d, j)],
                        total |-> TotalTax(lines, d)]
  OBVIOUS
<1>3. Taxed(lines, d) = <<row>>
  BY <1>1, <1>2 DEF Taxed
<1>4. Taxed(lines, d)[1] = row
  BY <1>3
<1>5. row.total = TotalTax(lines, d) /\ row.tax = [j \in seen |-> TaxIn(lines, d, j)]
  BY <1>2
<1>6. IsTaxOf(row, lines, d)
  BY <1>5 DEF IsTaxOf
<1> QED
  BY <1>1, <1>4, <1>6

LEMMA TaxedWhen ==
  ASSUME NEW lines, NEW d, \A i \in DOMAIN lines : TaxLookup(taxRates[lines[i].key], d) # {}
  PROVE  Taxed(lines, d) # <<>>
<1>1. PICK row : Taxed(lines, d) = <<row>>
  BY DEF Taxed
<1> QED
  BY <1>1

\* Four lines of which the last two refund the first two, and what is said of the
\* tax of all and of the first two.
Refunded(k, j, b, c, l1, l2, l3, l4) ==
  /\ l1.key = k /\ l2.key = j /\ l3.key = k /\ l4.key = j
  /\ l1.base = b /\ l2.base = c /\ l3.base = -b /\ l4.base = -c
Cancels(res, half) ==
  /\ res.total = 0 /\ \A x \in DOMAIN res.tax : res.tax[x] = 0
  /\ half.total = Owed(half)

LEMMA LinesCancel ==
  ASSUME RTypes, NEW k \in TaxKey, NEW j \in TaxKey, NEW b \in Int, NEW c \in Int, NEW d \in Date,
         NEW l1, NEW l2, NEW l3, NEW l4, Refunded(k, j, b, c, l1, l2, l3, l4),
         NEW four, FourLines(four, l1, l2, l3, l4), NEW two, TwoOf(two, l1, l2), Taxed(four, d) # <<>>
  PROVE  Cancels(Taxed(four, d)[1], Taxed(two, d)[1])
<1>t. /\ l1.key = k /\ l2.key = j /\ l3.key = k /\ l4.key = j
      /\ l1.base = b /\ l2.base = c /\ l3.base = -b /\ l4.base = -c
  BY DEF Refunded
<1>3. /\ DOMAIN four = 1..4 /\ four[1] = l1 /\ four[2] = l2
      /\ DOMAIN two = 1..2 /\ two[1] = l1 /\ two[2] = l2
  BY DEF FourLines, TwoOf
<1>6. /\ \A i \in DOMAIN four : TaxLookup(taxRates[four[i].key], d) # {}
      /\ IsTaxOf(Taxed(four, d)[1], four, d)
  BY TaxedIs
<1>7. TaxLookup(taxRates[k], d) # {} /\ TaxLookup(taxRates[j], d) # {}
  <2>1. four[1].key = k /\ four[2].key = j /\ 1 \in DOMAIN four /\ 2 \in DOMAIN four
    BY <1>3, <1>t
  <2> QED
    BY <1>6, <2>1
<1>8. PICK r \in Nat : \A l : l.key = k => TaxOf(l, d) = RoundedTax(l.base, r)
  BY <1>7, LineIsTaxed
<1>9. PICK s \in Nat : \A l : l.key = j => TaxOf(l, d) = RoundedTax(l.base, s)
  BY <1>7, LineIsTaxed
<1>10. PICK x \in Int : x = RoundedTax(b, r) /\ RoundedTax(-b, r) = 0 - x
  BY RoundsAlike
<1>11. PICK y \in Int : y = RoundedTax(c, s) /\ RoundedTax(-c, s) = 0 - y
  BY RoundsAlike
<1>12. TaxOf(l1, d) = x /\ TaxOf(l2, d) = y /\ TaxOf(l3, d) = 0 - x /\ TaxOf(l4, d) = 0 - y
  BY <1>8, <1>9, <1>10, <1>11, <1>t
<1>13. TotalTax(four, d) = 0 /\ \A i : TaxIn(four, d, i) = 0
  BY <1>12, <1>t, RefundedLines
<1>14. Taxed(two, d)[1].total = Owed(Taxed(two, d)[1])
  <2>1. \A i \in DOMAIN two : TaxLookup(taxRates[two[i].key], d) # {}
    <3>1. \A i \in DOMAIN two : two[i].key = k \/ two[i].key = j
      BY <1>3, <1>t
    <3> QED
      BY <1>7, <3>1
  <2>2. Taxed(two, d) # <<>>
    BY <2>1, TaxedWhen
  <2>3. PICK res : res = Taxed(two, d)[1]
    OBVIOUS
  <2>4. IsTaxOf(res, two, d)
    BY <2>2, <2>3, TaxedIs
  <2>5. /\ TotalTax(two, d) = x + y
        /\ \A i : TaxIn(two, d, i) = Share(l1, d, i) + Share(l2, d, i)
    BY <1>12, TwoLines
  <2>6. PICK j1, j2 : j1 = l1.key[1] /\ j2 = l2.key[1]
    OBVIOUS
  <2>7. DOMAIN res.tax = {j1, j2}
    <3>1. \A i : i \in DOMAIN res.tax <=> i = j1 \/ i = j2
      BY <1>3, <2>4, <2>6 DEF IsTaxOf
    <3> QED
      BY <3>1
  <2>8. res.tax[j1] = TaxIn(two, d, j1) /\ res.tax[j2] = TaxIn(two, d, j2)
    BY <2>4, <2>7 DEF IsTaxOf
  <2>9. ASSUME j1 = j2 PROVE OwesTwo(res, j1, j2, x, y)
    <3>1. Share(l1, d, j1) = x /\ Share(l2, d, j1) = y
      BY <1>12, <2>6, <2>9 DEF Share
    <3>2. res.tax[j1] = x + y
      BY <2>5, <2>8, <3>1
    <3> QED
      BY <2>7, <2>9, <3>2 DEF OwesTwo
  <2>10. ASSUME j1 # j2 PROVE OwesTwo(res, j1, j2, x, y)
    <3>1. Share(l1, d, j1) = x /\ Share(l2, d, j1) = 0 /\ Share(l1, d, j2) = 0 /\ Share(l2, d, j2) = y
      BY <1>12, <2>6, <2>10 DEF Share
    <3>2. res.tax[j1] = x + 0 /\ res.tax[j2] = 0 + y
      BY <2>5, <2>8, <3>1
    <3>3. res.tax[j1] = x /\ res.tax[j2] = y
      BY <3>2
    <3> QED
      BY <2>7, <2>10, <3>3 DEF OwesTwo
  <2>11. OwesTwo(res, j1, j2, x, y)
    BY <2>9, <2>10
  <2>12. Owed(res) = x + y
    BY <2>11, OwedByTwo
  <2>13. res.total = x + y
    BY <2>4, <2>5 DEF IsTaxOf
  <2> QED
    BY <2>3, <2>12, <2>13
<1>15. Taxed(four, d)[1].total = 0 /\ \A x1 \in DOMAIN Taxed(four, d)[1].tax : Taxed(four, d)[1].tax[x1] = 0
  BY <1>6, <1>13 DEF IsTaxOf
<1> QED
  BY <1>14, <1>15 DEF Cancels

LEMMA RefundsCancel == RTypes => RefundsCancelTax
<1> SUFFICES ASSUME RTypes PROVE RefundsCancelTax
  OBVIOUS
<1> DEFINE Line(key, amount) == [key |-> key, base |-> amount]
<1>1. ASSUME NEW k \in TaxKey, NEW j \in TaxKey, NEW b \in Base, NEW c \in Base, NEW d \in Date
      PROVE  LET res == Taxed(<<Line(k, b), Line(j, c), Line(k, -b), Line(j, -c)>>, d)
                 half == Taxed(<<Line(k, b), Line(j, c)>>, d)
             IN res # <<>> =>
                  /\ res[1].total = 0 /\ \A x \in DOMAIN res[1].tax : res[1].tax[x] = 0
                  /\ half[1].total = Owed(half[1])
  <2>a1. PICK l1 : l1 = Line(k, b)
    OBVIOUS
  <2>1. l1 = Line(k, b) /\ l1.key = k /\ l1.base = b
    BY <2>a1
  <2>a2. PICK l2 : l2 = Line(j, c)
    OBVIOUS
  <2>2. l2 = Line(j, c) /\ l2.key = j /\ l2.base = c
    BY <2>a2
  <2>a3. PICK l3 : l3 = Line(k, -b)
    OBVIOUS
  <2>3. l3 = Line(k, -b) /\ l3.key = k /\ l3.base = -b
    BY <2>a3
  <2>a4. PICK l4 : l4 = Line(j, -c)
    OBVIOUS
  <2>4. l4 = Line(j, -c) /\ l4.key = j /\ l4.base = -c
    BY <2>a4
  <2>5. PICK four : four = <<l1, l2, l3, l4>>
    OBVIOUS
  <2>6. PICK two : two = <<l1, l2>>
    OBVIOUS
  <2>7. b \in Int /\ c \in Int
    BY RevaluationAssumption
  <2>8. Refunded(k, j, b, c, l1, l2, l3, l4)
    BY <2>1, <2>2, <2>3, <2>4 DEF Refunded
  <2>9. FourLines(four, l1, l2, l3, l4) /\ TwoOf(two, l1, l2)
    BY <2>5, <2>6 DEF FourLines, TwoOf
  <2>10. Taxed(four, d) # <<>> => Cancels(Taxed(four, d)[1], Taxed(two, d)[1])
    BY <2>7, <2>8, <2>9, LinesCancel
  <2>11. /\ four = <<Line(k, b), Line(j, c), Line(k, -b), Line(j, -c)>>
         /\ two = <<Line(k, b), Line(j, c)>>
    BY <2>1, <2>2, <2>3, <2>4, <2>5, <2>6
  <2> HIDE DEF Line
  <2> QED
    BY <2>10, <2>11 DEF Cancels
<1> QED
  BY <1>1 DEF RefundsCancelTax

\* Over any sequence of rates recorded, revaluations begun, stopped and begun
\* again, and periods closed and opened (fx.rs, tax.rs): the reporting journal
\* has booked each balance from its first book rate to its present one, lines
\* and their refunds owe no tax, and what a table answers for a date is changed
\* only by a rate of that date or an earlier one.
THEOREM ConversionsStand == RSpec => ConversionsSettle
<1>1. RInit => RInv
  BY RInvInit
<1>2. RInv /\ [RNext]_rvars => RInv'
  BY RInvNext
<1>3. RInv => RevaluationTelescopes /\ RefundsCancelTax
  BY RefundsCancel DEF RInv
<1>4. RInv /\ [RNext]_rvars =>
        [\A d \in Date :
           /\ (\A e \in Date : e <= d => ~\E r \in Rate : fxRates' = Append(fxRates, [at |-> e, rate |-> r]))
                => FxLookup(fxRates', d) = FxLookup(fxRates, d)
           /\ \A k \in TaxKey :
                (\A e \in Date : e <= d => ~\E r \in TaxRate : taxRates'[k] = Effective(taxRates[k], e, r))
                  => TaxLookup(taxRates'[k], d) = TaxLookup(taxRates[k], d)]_rvars
  BY PastRatesStep DEF RInv
<1> QED
  BY <1>1, <1>2, <1>3, <1>4, PTL DEF RSpec, ConversionsSettle, PastRatesStay
=============================================================================
