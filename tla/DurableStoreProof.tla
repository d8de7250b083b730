------------------------- MODULE DurableStoreProof -------------------------
(* What the event store guarantees, alone and with an outbox attached, for *)
(* every number of processes, clients, aggregates, events and relays, and  *)
(* for every pattern of failures and crashes.                              *)
EXTENDS LedgerDelivery, FiniteSetTheorems, SequenceTheorems, TLAPS

-----------------------------------------------------------------------------
(* Counting the events of an aggregate in a log.                           *)

LEMMA PartOfInterval ==
  ASSUME NEW p \in Int, NEW q \in Int, NEW S, S \subseteq p..q
  PROVE  IsFiniteSet(S) /\ Cardinality(S) \in Nat
<1>1. IsFiniteSet(p..q)
  BY FS_Interval
<1>2. IsFiniteSet(S)
  BY <1>1, FS_Subset
<1> QED
  BY <1>2, FS_CardinalityType

LEMMA CountType ==
  ASSUME NEW s, NEW a, NEW i \in Nat
  PROVE  /\ IsFiniteSet({j \in 1..i : s[j].agg = a})
         /\ Count(s, a, i) \in Nat
<1>1. {j \in 1..i : s[j].agg = a} \subseteq 1..i /\ i \in Int
  OBVIOUS
<1> QED
  BY <1>1, PartOfInterval DEF Count

\* Two sequences with the same aggregates up to a point count alike up to it.
LEMMA CountSame ==
  ASSUME NEW s, NEW t, NEW a, NEW i \in Nat,
         \A j \in 1..i : s[j].agg = t[j].agg
  PROVE  Count(s, a, i) = Count(t, a, i)
<1>1. {j \in 1..i : s[j].agg = a} = {j \in 1..i : t[j].agg = a}
  OBVIOUS
<1> QED
  BY <1>1 DEF Count

\* The first i events of t, put behind the n events of s.
LEMMA CountBehind ==
  ASSUME NEW s, NEW t, NEW a, NEW n \in Nat, NEW i \in Nat,
         \A j \in 1..i : s[n + j].agg = t[j].agg
  PROVE  Count(s, a, n + i) = Count(s, a, n) + Count(t, a, i)
<1> DEFINE A == {j \in 1..n : s[j].agg = a}
           B == {j \in 1..i : t[j].agg = a}
           C == {j \in (n+1)..(n+i) : s[j].agg = a}
           f == [j \in B |-> n + j]
<1>1. /\ IsFiniteSet(A) /\ Cardinality(A) \in Nat
      /\ IsFiniteSet(B) /\ IsFiniteSet(C) /\ Cardinality(C) \in Nat
  <2>1. A \subseteq 1..n /\ B \subseteq 1..i /\ C \subseteq (n+1)..(n+i)
    OBVIOUS
  <2>2. n \in Int /\ i \in Int /\ n+1 \in Int /\ n+i \in Int
    OBVIOUS
  <2>3. 1 \in Int
    OBVIOUS
  <2> HIDE DEF A, B, C
  <2>4. IsFiniteSet(A) /\ Cardinality(A) \in Nat
    BY <2>1, <2>2, <2>3, PartOfInterval
  <2>5. IsFiniteSet(B)
    BY <2>1, <2>2, <2>3, PartOfInterval
  <2>6. IsFiniteSet(C) /\ Cardinality(C) \in Nat
    BY <2>1, <2>2, PartOfInterval
  <2> QED
    BY <2>4, <2>5, <2>6
<1>2. f \in Bijection(B, C)
  <2>1. \A j \in B : f[j] \in C
    OBVIOUS
  <2>2. \A k \in C : k - n \in B /\ f[k - n] = k
    <3> SUFFICES ASSUME NEW k \in C
                 PROVE  k - n \in B /\ f[k - n] = k
      OBVIOUS
    <3>1. k - n \in 1..i /\ n + (k - n) = k
      OBVIOUS
    <3>2. s[n + (k - n)].agg = t[k - n].agg
      BY <3>1
    <3> QED
      BY <3>1, <3>2
  <2>3. \A j, k \in B : f[j] = f[k] => j = k
    OBVIOUS
  <2> QED
    BY <2>1, <2>2, <2>3 DEF Bijection, Injection, Surjection, IsInjective
<1>3. Cardinality(C) = Cardinality(B)
  BY <1>1, <1>2, FS_Bijection DEF ExistsBijection
<1>4. {j \in 1..(n+i) : s[j].agg = a} = A \cup C /\ A \cap C = {}
  OBVIOUS
<1>5. Cardinality(A \cup C) = Cardinality(A) + Cardinality(C)
  <2> HIDE DEF A, C
  <2>1. Cardinality(A \cap C) = 0
    BY <1>4, FS_EmptySet
  <2>2. Cardinality(A \cup C) = Cardinality(A) + Cardinality(C) - Cardinality(A \cap C)
    BY <1>1, FS_Union
  <2> QED
    BY <1>1, <2>1, <2>2
<1> QED
  BY <1>3, <1>4, <1>5 DEF Count

LEMMA CountOne ==
  ASSUME NEW s, NEW a
  PROVE  Count(s, a, 1) = IF s[1].agg = a THEN 1 ELSE 0
<1>1. {j \in 1..1 : s[j].agg = a} = IF s[1].agg = a THEN {1} ELSE {}
  OBVIOUS
<1> QED
  BY <1>1, FS_Singleton, FS_EmptySet DEF Count

LEMMA CountNone ==
  ASSUME NEW s, NEW a
  PROVE  Count(s, a, 0) = 0
<1>1. {j \in 1..0 : s[j].agg = a} = {}
  OBVIOUS
<1> QED
  BY <1>1, FS_EmptySet DEF Count

-----------------------------------------------------------------------------
(* Numbering what is put behind a log keeps its numbers without a gap.     *)

LogOK(s, v) ==
  /\ s \in Seq(Row) /\ v \in [Agg -> Nat]
  /\ \A a \in Agg : v[a] = Count(s, a, Len(s))
  /\ \A i \in 1..Len(s) : s[i].seq = Count(s, s[i].agg, i)

LEMMA JoinOK ==
  ASSUME NEW s, NEW v, LogOK(s, v), NEW t \in Seq(Row),
         \A i \in 1..Len(t) : t[i].seq = v[t[i].agg] + Count(t, t[i].agg, i)
  PROVE  LogOK(s \o t, [a \in Agg |-> v[a] + Count(t, a, Len(t))])
<1> DEFINE u == s \o t
           w == [a \in Agg |-> v[a] + Count(t, a, Len(t))]
<1>1. s \in Seq(Row) /\ v \in [Agg -> Nat]
  BY DEF LogOK
<1>2. Len(s) \in Nat /\ Len(t) \in Nat
  BY <1>1, LenProperties
<1>3. /\ u \in Seq(Row) /\ Len(u) = Len(s) + Len(t)
      /\ \A i \in 1..Len(s) : u[i] = s[i]
      /\ \A i \in 1..Len(t) : u[Len(s) + i] = t[i]
  <2>1. /\ u \in Seq(Row) /\ Len(u) = Len(s) + Len(t)
        /\ \A i \in 1..Len(s) + Len(t) :
             u[i] = IF i <= Len(s) THEN s[i] ELSE t[i - Len(s)]
    BY <1>1, ConcatProperties
  <2>2. \A i \in 1..Len(t) : ~(Len(s) + i <= Len(s)) /\ (Len(s) + i) - Len(s) = i
    BY <1>2
  <2> HIDE DEF u
  <2>3. \A i \in 1..Len(s) : u[i] = s[i]
    BY <1>2, <2>1
  <2>4. \A i \in 1..Len(t) : Len(s) + i \in 1..Len(s) + Len(t)
    BY <1>2
  <2>5. \A i \in 1..Len(t) : u[Len(s) + i] = t[i]
    BY <2>1, <2>2, <2>4
  <2> QED
    BY <2>1, <2>3, <2>5
<1> HIDE DEF u
<1>4. \A a : \A i \in 0..Len(s) : Count(u, a, i) = Count(s, a, i)
  <2> SUFFICES ASSUME NEW a, NEW i \in 0..Len(s)
               PROVE  Count(u, a, i) = Count(s, a, i)
    OBVIOUS
  <2>1. i \in Nat /\ \A j \in 1..i : u[j].agg = s[j].agg
    BY <1>2, <1>3
  <2> QED
    BY <2>1, CountSame
<1>5. \A a : \A i \in 0..Len(t) : Count(u, a, Len(s) + i) = Count(s, a, Len(s)) + Count(t, a, i)
  <2> SUFFICES ASSUME NEW a, NEW i \in 0..Len(t)
               PROVE  Count(u, a, Len(s) + i) = Count(s, a, Len(s)) + Count(t, a, i)
    OBVIOUS
  <2>1. i \in Nat /\ \A j \in 1..i : u[Len(s) + j].agg = t[j].agg
    BY <1>2, <1>3
  <2>2. Count(u, a, Len(s) + i) = Count(u, a, Len(s)) + Count(t, a, i)
    BY <1>2, <2>1, CountBehind
  <2>3. Count(u, a, Len(s)) = Count(s, a, Len(s))
    BY <1>2, <1>4
  <2> QED
    BY <2>2, <2>3
<1>6. w \in [Agg -> Nat]
  <2>1. \A a \in Agg : v[a] \in Nat /\ Count(t, a, Len(t)) \in Nat
    BY <1>1, <1>2, CountType
  <2> QED
    BY <2>1
<1>7. \A a \in Agg : w[a] = Count(u, a, Len(u))
  BY <1>2, <1>3, <1>5 DEF LogOK
<1>8. \A i \in 1..Len(u) : u[i].seq = Count(u, u[i].agg, i)
  <2> SUFFICES ASSUME NEW i \in 1..Len(u)
               PROVE  u[i].seq = Count(u, u[i].agg, i)
    OBVIOUS
  <2>1. CASE i <= Len(s)
    <3>1. i \in 1..Len(s) /\ i \in 0..Len(s)
      BY <1>2, <1>3, <2>1
    <3>2. s[i].seq = Count(s, s[i].agg, i)
      BY <3>1 DEF LogOK
    <3> QED
      BY <1>3, <1>4, <3>1, <3>2
  <2>2. CASE i > Len(s)
    <3> DEFINE k == i - Len(s)
    <3>1. k \in 1..Len(t) /\ k \in 0..Len(t) /\ Len(s) + k = i
      BY <1>2, <1>3, <2>2
    <3> HIDE DEF k
    <3>2. u[i] = t[k] /\ t[k].seq = v[t[k].agg] + Count(t, t[k].agg, k)
      BY <1>3, <3>1
    <3>3. t[k].agg \in Agg
      <4>1. t[k] \in Row
        BY <3>1, ElementOfSeq
      <4> QED
        BY <4>1 DEF Row
    <3>4. v[t[k].agg] = Count(s, t[k].agg, Len(s))
      BY <3>3 DEF LogOK
    <3>5. Count(u, t[k].agg, i) = Count(s, t[k].agg, Len(s)) + Count(t, t[k].agg, k)
      BY <1>5, <3>1
    <3> QED
      BY <3>2, <3>4, <3>5
  <2> QED
    BY <1>2, <1>3, <2>1, <2>2
<1> QED
  BY <1>3, <1>6, <1>7, <1>8 DEF LogOK, u

LEMMA PushOK ==
  ASSUME NEW s, NEW v, LogOK(s, v), NEW a \in Agg, NEW e \in Ev
  PROVE  LogOK(Append(s, [agg |-> a, seq |-> v[a] + 1, ev |-> e]), [v EXCEPT ![a] = v[a] + 1])
<1> DEFINE x == [agg |-> a, seq |-> v[a] + 1, ev |-> e]
           t == <<x>>
<1>1. s \in Seq(Row) /\ v \in [Agg -> Nat] /\ x \in Row
  BY DEF LogOK, Row
<1>2. x.agg = a /\ x.seq = v[a] + 1
  OBVIOUS
<1> HIDE DEF x
<1>3. t \in Seq(Row) /\ Len(t) = 1 /\ t[1] = x
  BY <1>1
<1>4. Append(s, x) = s \o t
  BY <1>1, AppendIsConcat
<1> HIDE DEF t
<1>5. \A b : Count(t, b, 1) = IF b = a THEN 1 ELSE 0
  BY <1>2, <1>3, CountOne
<1>6. \A i \in 1..Len(t) : t[i].seq = v[t[i].agg] + Count(t, t[i].agg, i)
  <2> SUFFICES ASSUME NEW i \in 1..Len(t)
               PROVE  t[i].seq = v[t[i].agg] + Count(t, t[i].agg, i)
    OBVIOUS
  <2>1. i = 1
    BY <1>3
  <2>2. Count(t, a, 1) = 1
    BY <1>5
  <2> QED
    BY <1>2, <1>3, <2>1, <2>2
<1>7. LogOK(s \o t, [b \in Agg |-> v[b] + Count(t, b, Len(t))])
  BY <1>3, <1>6, JoinOK
<1>8. [b \in Agg |-> v[b] + Count(t, b, Len(t))] = [v EXCEPT ![a] = v[a] + 1]
  <2>1. \A b \in Agg : v[b] + Count(t, b, 1) = IF b = a THEN v[a] + 1 ELSE v[b]
    BY <1>1, <1>5
  <2> QED
    BY <1>1, <1>3, <2>1
<1> QED
  BY <1>4, <1>7, <1>8 DEF x

\* What load() puts behind a log whose versions are v.
LEMMA NumberedOK ==
  ASSUME NEW r \in Seq(Row), NEW v \in [Agg -> Nat]
  PROVE  /\ Numbered(v, r) \in Seq(Row) /\ Len(Numbered(v, r)) = Len(r)
         /\ \A i \in 1..Len(r) :
              /\ Numbered(v, r)[i].agg = r[i].agg
              /\ Numbered(v, r)[i].seq = v[r[i].agg] + Count(r, r[i].agg, i)
<1> DEFINE k(i) == v[r[i].agg] + Count(r, r[i].agg, i)
           t == Numbered(v, r)
<1>1. Len(r) \in Nat /\ DOMAIN r = 1..Len(r)
  BY LenProperties
<1>2. \A i \in 1..Len(r) : r[i] \in Row /\ k(i) \in Nat
  <2> SUFFICES ASSUME NEW i \in 1..Len(r)
               PROVE  r[i] \in Row /\ k(i) \in Nat
    OBVIOUS
  <2>1. r[i] \in Row
    BY ElementOfSeq
  <2>2. r[i].agg \in Agg
    BY <2>1 DEF Row
  <2>3. i \in Nat
    BY <1>1
  <2>4. Count(r, r[i].agg, i) \in Nat
    BY <2>3, CountType
  <2> QED
    BY <2>1, <2>2, <2>4
<1>3. t = [i \in 1..Len(r) |-> [r[i] EXCEPT !.seq = k(i)]]
  BY <1>1 DEF Numbered
<1> HIDE DEF k, t
<1>4. ASSUME NEW i \in 1..Len(r)
      PROVE  /\ t[i] \in Row
             /\ t[i].agg = r[i].agg /\ t[i].seq = k(i)
  <2>1. t[i] = [r[i] EXCEPT !.seq = k(i)]
    BY <1>3
  <2>2. r[i] \in Row /\ k(i) \in Nat
    BY <1>2
  <2> QED
    BY <2>1, <2>2 DEF Row
<1>5. t \in Seq(Row) /\ Len(t) = Len(r)
  <2>1. DOMAIN t = 1..Len(r) /\ t = [i \in 1..Len(r) |-> t[i]]
    BY <1>3
  <2>2. t \in [1..Len(r) -> Row]
    BY <1>4, <2>1
  <2> QED
    BY <1>1, <2>2
<1> QED
  BY <1>4, <1>5 DEF k, t

LEMMA LoadOK ==
  ASSUME NEW n \in Node, db \subseteq Row, IsFiniteSet(db),
         NEW old, NEW v, LogOK(old, v), Load(n, old, v)
  PROVE  \E u, w : /\ LogOK(u, w)
                   /\ log' = [log EXCEPT ![n] = u]
                   /\ version' = [version EXCEPT ![n] = w]
<1>1. PICK r \in [1..Cardinality(db) -> db] :
        /\ log' = [log EXCEPT ![n] = old \o Numbered(v, r)]
        /\ version' = [version EXCEPT ![n] = [a \in Agg |-> v[a] + Count(r, a, Len(r))]]
  BY DEF Load
<1>2. r \in Seq(Row) /\ Len(r) \in Nat
  <2>1. Cardinality(db) \in Nat
    BY FS_CardinalityType
  <2>2. r \in Seq(db)
    BY <2>1
  <2> QED
    BY <2>2, LenProperties, SeqMonotonic
<1>3. v \in [Agg -> Nat]
  BY DEF LogOK
<1> DEFINE t == Numbered(v, r)
<1>4. /\ t \in Seq(Row) /\ Len(t) = Len(r)
      /\ \A i \in 1..Len(r) : /\ t[i].agg = r[i].agg
                              /\ t[i].seq = v[r[i].agg] + Count(r, r[i].agg, i)
  BY <1>2, <1>3, NumberedOK
<1> HIDE DEF t
<1>5. \A a : \A i \in 0..Len(r) : Count(t, a, i) = Count(r, a, i)
  <2> SUFFICES ASSUME NEW a, NEW i \in 0..Len(r)
               PROVE  Count(t, a, i) = Count(r, a, i)
    OBVIOUS
  <2>1. i \in Nat /\ \A j \in 1..i : t[j].agg = r[j].agg
    BY <1>2, <1>4
  <2> QED
    BY <2>1, CountSame
<1>6. \A i \in 1..Len(t) : t[i].seq = v[t[i].agg] + Count(t, t[i].agg, i)
  BY <1>2, <1>4, <1>5
<1>7. LogOK(old \o t, [a \in Agg |-> v[a] + Count(t, a, Len(t))])
  BY <1>4, <1>6, JoinOK
<1>8. [a \in Agg |-> v[a] + Count(t, a, Len(t))] = [a \in Agg |-> v[a] + Count(r, a, Len(r))]
  BY <1>2, <1>4, <1>5
<1> QED
  BY <1>1, <1>7, <1>8 DEF t

LEMMA EmptyOK == LogOK(<<>>, [a \in Agg |-> 0])
  BY CountNone DEF LogOK

-----------------------------------------------------------------------------
(* Types and numbers are kept by every step.                               *)

StoreInv == TypeOK /\ Contiguous

LEMMA StoreInvLogs ==
  ASSUME StoreInv, NEW n \in Node
  PROVE  LogOK(log[n], version[n])
<1>1. log[n] \in Seq(Row) /\ version[n] \in [Agg -> Nat]
  BY DEF StoreInv, TypeOK
<1> QED
  BY <1>1 DEF StoreInv, Contiguous, LogOK

\* Changing the log and the versions of one node.
LEMMA LogsChange ==
  ASSUME StoreInv, NEW n \in Node, NEW u, NEW w, LogOK(u, w),
         log' = [log EXCEPT ![n] = u], version' = [version EXCEPT ![n] = w]
  PROVE  /\ log' \in [Node -> Seq(Row)] /\ version' \in [Node -> [Agg -> Nat]]
         /\ Contiguous'
<1>1. log' \in [Node -> Seq(Row)] /\ version' \in [Node -> [Agg -> Nat]]
  BY DEF StoreInv, TypeOK, LogOK
<1>2. \A q \in Node : LogOK(log'[q], version'[q])
  <2> SUFFICES ASSUME NEW q \in Node
               PROVE  LogOK(log'[q], version'[q])
    OBVIOUS
  <2>1. CASE q = n
    <3>1. log'[q] = u /\ version'[q] = w
      BY <2>1 DEF StoreInv, TypeOK
    <3> QED
      BY <3>1
  <2>2. CASE q # n
    <3>1. log'[q] = log[q] /\ version'[q] = version[q]
      BY <2>2 DEF StoreInv, TypeOK
    <3> QED
      BY <3>1, StoreInvLogs
  <2> QED
    BY <2>1, <2>2
<1> QED
  BY <1>1, <1>2 DEF Contiguous, LogOK

LEMMA LogsSame ==
  ASSUME StoreInv, UNCHANGED <<log, version>>
  PROVE  /\ log' \in [Node -> Seq(Row)] /\ version' \in [Node -> [Agg -> Nat]]
         /\ Contiguous'
  BY DEF StoreInv, TypeOK, Contiguous

LEMMA InitInv == Init => StoreInv
<1> SUFFICES ASSUME Init
             PROVE  StoreInv
  OBVIOUS
<1>1. IsFiniteSet(db)
  BY FS_EmptySet DEF Init
<1>2. TypeOK
  BY <1>1, StoreConstants DEF Init, TypeOK, Call, NoCall
<1>3. Contiguous
  <2>1. \A n \in Node : log[n] = <<>> /\ version[n] = [a \in Agg |-> 0]
    BY DEF Init
  <2> QED
    BY <2>1, EmptyOK DEF Contiguous, LogOK
<1> QED
  BY <1>2, <1>3 DEF StoreInv

\* Loading, crashing, pushing an event and reading.
LEMMA PushInv ==
  ASSUME StoreInv, NEW n \in Node, NEW op \in AllOps, NEW a \in Agg, NEW e \in Ev,
         PushEvent(n, op, a, e)
  PROVE  StoreInv'
<1> DEFINE x == [agg |-> a, seq |-> version[n][a] + 1, ev |-> e]
           c == [op |-> op, agg |-> a, seq |-> version[n][a] + 1, ev |-> e]
<1>1. /\ log' = [log EXCEPT ![n] = Append(log[n], x)]
      /\ version' = [version EXCEPT ![n] = [version[n] EXCEPT ![a] = version[n][a] + 1]]
  BY DEF PushEvent, StoreInv, TypeOK
<1>2. /\ log' \in [Node -> Seq(Row)] /\ version' \in [Node -> [Agg -> Nat]]
      /\ Contiguous'
  BY <1>1, StoreInvLogs, PushOK, LogsChange
<1>3. c \in Call /\ c # NoCall
  <2>1. version[n][a] \in Nat
    BY DEF StoreInv, TypeOK
  <2>2. c.op \in AllOps /\ NoCall.op = "none"
    BY DEF NoCall
  <2>3. c # NoCall
    BY <2>2 DEF AllOps
  <2> QED
    BY <2>1, <2>3 DEF Call
<1>4. cur' = [cur EXCEPT ![n] = c] /\ pc' = [pc EXCEPT ![n] = "mirror"]
  BY DEF PushEvent, Goto
<1> HIDE DEF c
<1>5. TypeOK'
  BY <1>2, <1>3, <1>4 DEF PushEvent, StoreInv, TypeOK
<1> QED
  BY <1>2, <1>5 DEF StoreInv

LEMMA ReadInv ==
  ASSUME StoreInv, NEW n \in Node, NEW c \in Client, NEW a \in Agg, ReadStream(n, c, a)
  PROVE  StoreInv'
<1>1. StreamOf(log[n], a) \subseteq [seq : Nat, ev : Ev]
  <2> SUFFICES ASSUME NEW i \in 1..Len(log[n])
               PROVE  [seq |-> log[n][i].seq, ev |-> log[n][i].ev] \in [seq : Nat, ev : Ev]
    BY DEF StreamOf
  <2>1. log[n] \in Seq(Row)
    BY DEF StoreInv, TypeOK
  <2>2. log[n][i] \in Row
    BY <2>1, ElementOfSeq
  <2> QED
    BY <2>2 DEF Row
<1>2. version[n][a] \in Nat
  BY DEF StoreInv, TypeOK
<1>3. view' \in [Client -> [Agg -> [version : Nat, events : SUBSET [seq : Nat, ev : Ev]]]]
  BY <1>1, <1>2 DEF ReadStream, StoreInv, TypeOK
<1> QED
  BY <1>3, LogsSame DEF ReadStream, StoreInv, TypeOK

\* A node with a call at hand, and a table with or without its row.
LEMMA InCall ==
  ASSUME StoreInv, NEW n \in Node, pc[n] \in {"mirror", "stage"}
  PROVE  cur[n] \in Call /\ RowOf(cur[n]) \in Row
<1>1. cur[n] \in Call
  BY DEF StoreInv, TypeOK
<1> QED
  BY <1>1 DEF Call, Row, RowOf

LEMMA TableType ==
  ASSUME StoreInv, NEW n \in Node, pc[n] \in {"mirror", "stage"},
         db' \in {db, db \cup {RowOf(cur[n])}}
  PROVE  db' \subseteq Row /\ IsFiniteSet(db')
<1>1. RowOf(cur[n]) \in Row /\ db \subseteq Row /\ IsFiniteSet(db)
  BY InCall DEF StoreInv, TypeOK
<1>2. IsFiniteSet(db \cup {RowOf(cur[n])})
  BY <1>1, FS_AddElement
<1> QED
  BY <1>1, <1>2

LEMMA CrashInv ==
  ASSUME StoreInv, NEW n \in Node, Crash(n)
  PROVE  StoreInv'
<1>1. /\ log' \in [Node -> Seq(Row)] /\ version' \in [Node -> [Agg -> Nat]]
      /\ Contiguous'
  BY EmptyOK, LogsChange DEF Crash
<1>2. db' \subseteq Row /\ IsFiniteSet(db')
  BY TableType DEF Crash, At, StoreInv, TypeOK
<1>3. crashes' \in 0..MaxCrash
  BY StoreConstants DEF Crash, StoreInv, TypeOK
<1> QED
  BY <1>1, <1>2, <1>3 DEF Crash, Goto, StoreInv, TypeOK

\* The call goes on to the outbox, is answered with its event or fails.
AfterMirror(n) ==
  /\ returned' \in Seq(Call)
  /\ pc' \in [Node -> {"down", "idle", "mirror", "stage"}]
  /\ cur' \in [Node -> Call \cup {NoCall}]
  /\ \A q \in Node : pc'[q] \in {"mirror", "stage"} <=> cur'[q] # NoCall

LEMMA ReturnType ==
  ASSUME StoreInv, NEW n \in Node, pc[n] \in {"mirror", "stage"}, Return(n)
  PROVE  AfterMirror(n)
<1>1. cur[n] \in Call
  BY InCall
<1>2. returned' \in Seq(Call)
  BY <1>1, AppendProperties DEF Return, StoreInv, TypeOK
<1> QED
  BY <1>2 DEF AfterMirror, Return, Goto, StoreInv, TypeOK

LEMMA AnswerType ==
  ASSUME StoreInv, NEW n \in Node, At(n, "mirror"), StageOrReturn(n) \/ Fail(n)
  PROVE  AfterMirror(n)
<1>1. CASE Fail(n)
  BY <1>1 DEF Fail, AfterMirror, Goto, StoreInv, TypeOK
<1>2. CASE StageOrReturn(n)
  <2>1. CASE HasOutbox /\ cur[n].op = "append_async"
    BY <1>2, <2>1 DEF StageOrReturn, At, AfterMirror, Goto, StoreInv, TypeOK
  <2>2. CASE ~(HasOutbox /\ cur[n].op = "append_async")
    BY <1>2, <2>2, ReturnType DEF StageOrReturn, At
  <2> QED
    BY <2>1, <2>2
<1> QED
  BY <1>1, <1>2

LEMMA MirrorInv ==
  ASSUME StoreInv, NEW n \in Node, MirrorOk(n) \/ MirrorError(n)
  PROVE  StoreInv'
<1>1. At(n, "mirror") /\ UNCHANGED <<log, version, view, used, crashes>>
  BY DEF MirrorOk, MirrorError
<1>2. StageOrReturn(n) \/ Fail(n)
  BY DEF MirrorOk, MirrorError
<1>3. AfterMirror(n)
  BY <1>1, <1>2, AnswerType
<1>4. db' \in {db, db \cup {RowOf(cur[n])}}
  BY DEF MirrorOk, MirrorError, WriteFails
<1>5. db' \subseteq Row /\ IsFiniteSet(db')
  BY <1>1, <1>4, TableType DEF At
<1>6. failures' \in [Node -> Nat]
  <2>1. failures' \in {failures, [failures EXCEPT ![n] = failures[n] + 1]}
    BY DEF MirrorOk, MirrorError, StoreInv, TypeOK
  <2>2. failures \in [Node -> Nat] /\ failures[n] + 1 \in Nat
    BY DEF StoreInv, TypeOK
  <2> QED
    BY <2>1, <2>2
<1> QED
  BY <1>1, <1>3, <1>5, <1>6, LogsSame DEF AfterMirror, StoreInv, TypeOK

LEMMA NextInv == StoreInv /\ [Next]_storeVars => StoreInv'
<1> SUFFICES ASSUME StoreInv, [Next]_storeVars
             PROVE  StoreInv'
  OBVIOUS
<1>1. ASSUME NEW n \in Node, Start(n)
      PROVE  StoreInv'
  <2>1. db \subseteq Row /\ IsFiniteSet(db)
    BY DEF StoreInv, TypeOK
  <2>2. PICK u, w : /\ LogOK(u, w)
                    /\ log' = [log EXCEPT ![n] = u]
                    /\ version' = [version EXCEPT ![n] = w]
    BY <1>1, <2>1, EmptyOK, LoadOK DEF Start
  <2> QED
    BY <1>1, <2>2, LogsChange DEF Start, At, Goto, StoreInv, TypeOK
<1>2. ASSUME NEW n \in Node, Reload(n)
      PROVE  StoreInv'
  <2>1. db \subseteq Row /\ IsFiniteSet(db)
    BY DEF StoreInv, TypeOK
  <2>2. PICK u, w : /\ LogOK(u, w)
                    /\ log' = [log EXCEPT ![n] = u]
                    /\ version' = [version EXCEPT ![n] = w]
    BY <1>2, <2>1, StoreInvLogs, LoadOK DEF Reload
  <2> QED
    BY <1>2, <2>2, LogsChange DEF Reload, StoreInv, TypeOK
<1>3. ASSUME NEW n \in Node, Staged(n)
      PROVE  StoreInv'
  <2>1. AfterMirror(n)
    BY <1>3, ReturnType DEF Staged, At
  <2> QED
    BY <1>3, <2>1, LogsSame DEF Staged, AfterMirror, StoreInv, TypeOK
<1>4. ASSUME NEW n \in Node, NEW a \in Agg, NEW e \in Ev, NEW op \in AllOps,
             AppendEvent(n, op, a, e)
      PROVE  StoreInv'
  BY <1>4, PushInv DEF AppendEvent
<1>5. ASSUME NEW n \in Node, NEW a \in Agg, NEW e \in Ev, NEW c \in Client,
             AppendVersioned(n, c, a, e)
      PROVE  StoreInv'
  BY <1>5, PushInv DEF AppendVersioned, AllOps
<1>6. CASE UNCHANGED storeVars
  <2>1. TypeOK'
    BY <1>6 DEF storeVars, StoreInv, TypeOK
  <2> QED
    BY <1>6, <2>1, LogsSame DEF storeVars, StoreInv
<1> QED
  BY <1>1, <1>2, <1>3, <1>4, <1>5, <1>6, CrashInv, ReadInv, MirrorInv DEF Next, StoreStep

\* Memory, table, calls and history always have their types.
THEOREM StoreType == Spec => []TypeOK
<1>1. StoreInv => TypeOK
  BY DEF StoreInv
<1> QED
  BY <1>1, InitInv, NextInv, PTL DEF Spec

\* Every aggregate's events are numbered without a gap and its version is the
\* last number, whatever load() finds in the table (store.rs:14-18).
THEOREM StoreContiguous == Spec => []Contiguous
<1>1. StoreInv => Contiguous
  BY DEF StoreInv
<1> QED
  BY <1>1, InitInv, NextInv, PTL DEF Spec

-----------------------------------------------------------------------------
(* What append_versioned() answered is in the table.                       *)

\* Only append_async() gets as far as the outbox.
StagesAsync == \A n \in Node : At(n, "stage") => cur[n].op = "append_async"

DurableInv == StoreInv /\ StagesAsync /\ VersionedDurable

\* A step that answers nothing, or answers what is then in the table.
LEMMA DurableKept ==
  ASSUME DurableInv, db \subseteq db', NEW n \in Node,
         \/ UNCHANGED returned
         \/ /\ returned' = Append(returned, cur[n]) /\ cur[n] \in Call
            /\ cur[n].op = "append_versioned" => RowOf(cur[n]) \in db'
  PROVE  VersionedDurable'
<1> SUFFICES ASSUME NEW c \in Range(returned'), c.op = "append_versioned"
             PROVE  RowOf(c) \in db'
  BY DEF VersionedDurable
<1>1. \A d \in Range(returned) : d.op = "append_versioned" => RowOf(d) \in db
  BY DEF DurableInv, VersionedDurable
<1>2. CASE UNCHANGED returned
  BY <1>1, <1>2
<1>3. CASE /\ returned' = Append(returned, cur[n]) /\ cur[n] \in Call
           /\ cur[n].op = "append_versioned" => RowOf(cur[n]) \in db'
  <2>1. returned \in Seq(Call)
    BY DEF DurableInv, StoreInv, TypeOK
  <2>2. /\ returned' \in Seq(Call) /\ Len(returned') = Len(returned) + 1
        /\ \A i \in 1..Len(returned) : returned'[i] = returned[i]
        /\ returned'[Len(returned) + 1] = cur[n]
    BY <1>3, <2>1, AppendProperties
  <2>3. /\ DOMAIN returned = 1..Len(returned) /\ DOMAIN returned' = 1..Len(returned')
        /\ Len(returned) \in Nat
    BY <2>1, <2>2, LenProperties
  <2>4. PICK i \in 1..Len(returned) + 1 : c = returned'[i]
    BY <2>2, <2>3 DEF Range
  <2>5. CASE i = Len(returned) + 1
    BY <1>3, <2>2, <2>4, <2>5
  <2>6. CASE i \in 1..Len(returned)
    <3>1. c \in Range(returned)
      BY <2>2, <2>3, <2>4, <2>6 DEF Range
    <3> QED
      BY <1>1, <3>1
  <2>7. i = Len(returned) + 1 \/ i \in 1..Len(returned)
    <3> DEFINE m == Len(returned)
    <3>1. m \in Nat /\ i \in 1..m + 1
      BY <2>3
    <3> HIDE DEF m
    <3>2. i = m + 1 \/ i \in 1..m
      BY <3>1
    <3> QED
      BY <3>2 DEF m
  <2> QED
    BY <2>5, <2>6, <2>7
<1> QED
  BY <1>2, <1>3

LEMMA DurableMirror ==
  ASSUME DurableInv, NEW n \in Node, MirrorOk(n) \/ MirrorError(n)
  PROVE  StagesAsync' /\ VersionedDurable'
<1>0. StoreInv /\ At(n, "mirror") /\ cur[n] \in Call /\ db \subseteq db'
  BY InCall DEF DurableInv, MirrorOk, MirrorError, WriteFails, At
<1>1. CASE Fail(n)
  <2>1. StagesAsync'
    BY <1>0, <1>1 DEF Fail, Goto, At, StagesAsync, DurableInv, StoreInv, TypeOK
  <2> QED
    BY <1>0, <1>1, <2>1, DurableKept DEF Fail
<1>2. CASE StageOrReturn(n) /\ (cur[n].op = "append_versioned" => RowOf(cur[n]) \in db')
  <2>1. StagesAsync'
    BY <1>0, <1>2 DEF StageOrReturn, Return, Goto, At, StagesAsync, DurableInv, StoreInv, TypeOK
  <2>2. UNCHANGED returned \/ returned' = Append(returned, cur[n])
    BY <1>2 DEF StageOrReturn, Return
  <2> QED
    BY <1>0, <1>2, <2>1, <2>2, DurableKept
<1> QED
  BY <1>1, <1>2 DEF MirrorOk, MirrorError

\* A step that answers nothing and moves no call to the outbox.
LEMMA DurableQuiet ==
  ASSUME DurableInv, NEW n \in Node, NEW l \in {"idle", "mirror", "down"},
         UNCHANGED returned, db \subseteq db',
         \/ UNCHANGED <<pc, cur>>
         \/ /\ pc' = [pc EXCEPT ![n] = l]
            /\ \A q \in Node : q # n => cur'[q] = cur[q]
  PROVE  StagesAsync' /\ VersionedDurable'
<1>1. StagesAsync'
  BY DEF At, StagesAsync, DurableInv, StoreInv, TypeOK
<1> QED
  BY <1>1, DurableKept

LEMMA DurableNext == DurableInv /\ [Next]_storeVars => DurableInv'
<1> SUFFICES ASSUME DurableInv, [Next]_storeVars
             PROVE  StagesAsync' /\ VersionedDurable'
  BY NextInv DEF DurableInv
<1>0. StoreInv /\ cur \in [Node -> Call \cup {NoCall}]
  BY DEF DurableInv, StoreInv, TypeOK
<1>1. ASSUME NEW n \in Node, Start(n) \/ Reload(n)
      PROVE  StagesAsync' /\ VersionedDurable'
  BY <1>1, DurableQuiet DEF Start, Reload, Goto
<1>2. ASSUME NEW n \in Node, Crash(n)
      PROVE  StagesAsync' /\ VersionedDurable'
  BY <1>0, <1>2, DurableQuiet DEF Crash, Goto
<1>3. ASSUME NEW n \in Node, NEW op, NEW a \in Agg, NEW e \in Ev, PushEvent(n, op, a, e)
      PROVE  StagesAsync' /\ VersionedDurable'
  BY <1>0, <1>3, DurableQuiet DEF PushEvent, Goto
<1>4. ASSUME NEW n \in Node, NEW c \in Client, NEW a \in Agg, ReadStream(n, c, a)
      PROVE  StagesAsync' /\ VersionedDurable'
  BY <1>4, DurableQuiet DEF ReadStream
<1>5. ASSUME NEW n \in Node, Staged(n)
      PROVE  StagesAsync' /\ VersionedDurable'
  <2>1. At(n, "stage") /\ Return(n) /\ UNCHANGED db
    BY <1>5 DEF Staged
  <2>2. cur[n] \in Call /\ cur[n].op = "append_async"
    BY <1>0, <2>1, InCall DEF At, DurableInv, StagesAsync
  <2>3. StagesAsync'
    BY <2>1 DEF Return, Goto, At, StagesAsync, DurableInv, StoreInv, TypeOK
  <2> QED
    BY <2>1, <2>2, <2>3, DurableKept DEF Return
<1>6. CASE UNCHANGED storeVars
  BY <1>6 DEF storeVars, DurableInv, StagesAsync, VersionedDurable, At
<1> QED
  BY <1>1, <1>2, <1>3, <1>4, <1>5, <1>6, DurableMirror
  DEF Next, StoreStep, AppendEvent, AppendVersioned

\* What append_versioned() accepted is in the table under the number it
\* answered and stays there, however many processes write, whichever writes
\* fail and whenever a process dies (postgres_store.rs:221-223).
THEOREM VersionedIsDurable == Spec => []VersionedDurable
<1>1. Init => DurableInv
  <2> SUFFICES ASSUME Init PROVE DurableInv
    OBVIOUS
  <2>1. Range(returned) = {}
    BY DEF Init, Range
  <2> QED
    BY <2>1, InitInv DEF DurableInv, StagesAsync, VersionedDurable, Init, At
<1>2. DurableInv => VersionedDurable
  BY DEF DurableInv
<1> QED
  BY <1>1, <1>2, DurableNext, PTL DEF Spec

-----------------------------------------------------------------------------
(* One process and writes that succeed: nothing that was answered is lost. *)

\* The numbers an aggregate has in the table.
Seqs(a) == {r.seq : r \in {x \in db : x.agg = a}}
Keyed == \A r, s \in db : r.agg = s.agg /\ r.seq = s.seq => r = s

\* The version up to which a process has written an aggregate.
Written(n, a) == IF At(n, "mirror") /\ cur[n].agg = a THEN version[n][a] - 1 ELSE version[n][a]

\* Every number once and none missing.
Complete == Keyed /\ \A a \in Agg : \E k \in Nat : Seqs(a) = 1..k

\* Memory is the table, but for the event whose write is under way.
Agrees(n) ==
  /\ ~At(n, "down") => \A a \in Agg : Seqs(a) = 1..Written(n, a)
  /\ At(n, "mirror") => /\ cur[n].seq = version[n][cur[n].agg] /\ cur[n].seq >= 1
                        /\ Range(log[n]) = db \cup {RowOf(cur[n])}
  /\ At(n, "stage") => RowOf(cur[n]) \in db
  /\ pc[n] \in {"idle", "stage"} => Range(log[n]) = db

ExactInv == StoreInv /\ Complete /\ (\A n \in Node : Agrees(n)) /\ ReturnedDurable

\* One process over the table, writes that do not fail, and no second load().
Undisturbed == (\A m, n \in Node : m = n) /\ ~DbFails /\ MaxLog = 0

\* A set numbered by 1..k, each number once, has k members.
LEMMA PartOfSegment ==
  ASSUME NEW S, NEW f, NEW k \in Nat, \A j \in S : f[j] \in 1..k,
         DOMAIN f = S, f = [j \in S |-> f[j]],
         \A i, j \in S : f[i] = f[j] => i = j,
         \A s \in 1..k : \E j \in S : f[j] = s,
         IsFiniteSet(S)
  PROVE  Cardinality(S) = k
<1>1. f \in Bijection(S, 1..k)
  BY DEF Bijection, Injection, Surjection, IsInjective
<1>2. Cardinality(1..k) = Cardinality(S)
  BY <1>1, FS_Bijection DEF ExistsBijection
<1>3. Cardinality(1..k) = k
  BY FS_Interval
<1> QED
  BY <1>2, <1>3

\* The rows of a table without gaps, in the order of the query: an aggregate's
\* rows are counted up to any of them by its number, and altogether by the last.
LEMMA OrderedCounts ==
  ASSUME Keyed, db \subseteq Row, IsFiniteSet(db), NEW a \in Agg, NEW k \in Nat, Seqs(a) = 1..k,
         NEW r \in [1..Cardinality(db) -> db], Ordered(r)
  PROVE  /\ Range(r) = db
         /\ Count(r, a, Cardinality(db)) = k
         /\ \A i \in 1..Cardinality(db) : r[i].agg = a => Count(r, a, i) = r[i].seq
<1> DEFINE N == Cardinality(db)
<1>1. N \in Nat /\ DOMAIN r = 1..N
  BY FS_CardinalityType
<1>2. \A i, j \in 1..N : r[i] = r[j] => i = j
  BY <1>1 DEF Ordered
<1>3. r \in Injection(1..N, db)
  BY <1>2 DEF Injection, IsInjective
<1>4. Cardinality(1..N) = N
  BY <1>1, FS_Interval
<1>5. r \in Surjection(1..N, db)
  BY <1>3, <1>4, FS_Injection
<1>6. Range(r) = db /\ \A x \in db : \E i \in 1..N : r[i] = x
  BY <1>1, <1>5 DEF Surjection, Range
<1>7. \A i \in 1..N : r[i] \in db /\ r[i].seq \in Nat
  BY DEF Row
<1>8. \A s \in 1..k : \E i \in 1..N : r[i].agg = a /\ r[i].seq = s
  <2> SUFFICES ASSUME NEW s \in 1..k
               PROVE  \E i \in 1..N : r[i].agg = a /\ r[i].seq = s
    OBVIOUS
  <2>1. PICK x \in db : x.agg = a /\ x.seq = s
    BY DEF Seqs
  <2> QED
    BY <1>6, <2>1
<1>9. \A i \in 1..N : r[i].agg = a => r[i].seq \in 1..k
  BY <1>7 DEF Seqs
<1>10. \A i, j \in 1..N : r[i].agg = a /\ r[j].agg = a /\ r[i].seq = r[j].seq => i = j
  BY <1>2, <1>7 DEF Keyed
<1>11. \A i, j \in 1..N : i < j => r[i].seq <= r[j].seq
  BY <1>1 DEF Ordered
<1> HIDE DEF N
<1>12. ASSUME NEW i \in 0..N, NEW m \in Nat,
              \A j \in 1..i : r[j].agg = a => r[j].seq \in 1..m,
              \A s \in 1..m : \E j \in 1..i : r[j].agg = a /\ r[j].seq = s
       PROVE  Count(r, a, i) = m
  <2> DEFINE J == {j \in 1..i : r[j].agg = a}
             f == [j \in J |-> r[j].seq]
  <2>0. i \in Nat
    BY <1>1
  <2>1. IsFiniteSet(J)
    BY <2>0, CountType
  <2>2. J \subseteq 1..N
    BY <1>1
  <2>3. \A j \in J : f[j] \in 1..m
    BY <1>12
  <2>4. \A j, h \in J : f[j] = f[h] => j = h
    BY <1>10, <2>2
  <2>5. \A s \in 1..m : \E j \in J : f[j] = s
    BY <1>12
  <2>6. DOMAIN f = J /\ f = [j \in J |-> f[j]]
    OBVIOUS
  <2> HIDE DEF J, f
  <2>7. Cardinality(J) = m
    BY <2>1, <2>3, <2>4, <2>5, <2>6, PartOfSegment
  <2> QED
    BY <2>7 DEF J, Count
<1>13. Count(r, a, N) = k
  <2>1. N \in 0..N
    BY <1>1
  <2> QED
    BY <1>8, <1>9, <1>12, <2>1
<1>14. ASSUME NEW i \in 1..N, r[i].agg = a
       PROVE  Count(r, a, i) = r[i].seq
  <2>1. i \in 0..N /\ r[i].seq \in 1..k /\ r[i].seq \in Nat
    BY <1>1, <1>9, <1>14
  <2>2. \A j \in 1..i : r[j].agg = a => r[j].seq \in 1..r[i].seq
    <3> SUFFICES ASSUME NEW j \in 1..i, r[j].agg = a
                 PROVE  r[j].seq \in 1..r[i].seq
      OBVIOUS
    <3>1. j \in 1..N /\ (j = i \/ j < i)
      BY <1>1
    <3>2. r[j].seq \in 1..k /\ r[j].seq <= r[i].seq
      BY <1>9, <1>11, <2>1, <3>1
    <3> QED
      BY <2>1, <3>2
  <2>3. \A s \in 1..r[i].seq : \E j \in 1..i : r[j].agg = a /\ r[j].seq = s
    <3> SUFFICES ASSUME NEW s \in 1..r[i].seq
                 PROVE  \E j \in 1..i : r[j].agg = a /\ r[j].seq = s
      OBVIOUS
    <3>1. s \in 1..k
      BY <2>1
    <3>2. PICK j \in 1..N : r[j].agg = a /\ r[j].seq = s
      BY <1>8, <3>1
    <3>3. ~(j > i)
      <4> SUFFICES ASSUME j > i PROVE FALSE
        OBVIOUS
      <4>1. r[i].seq <= s
        BY <1>1, <1>11, <3>2
      <4>2. r[i].seq = s
        BY <2>1, <3>1, <4>1
      <4> QED
        BY <1>1, <1>10, <1>14, <3>2, <4>2
    <3> QED
      BY <1>1, <3>2, <3>3
  <2> QED
    BY <1>12, <2>1, <2>2, <2>3
<1> QED
  BY <1>6, <1>13, <1>14 DEF N

\* Loading into an empty memory restores the table's rows and numbers.
LEMMA LoadExact ==
  ASSUME StoreInv, Complete, NEW n \in Node, Load(n, <<>>, [a \in Agg |-> 0])
  PROVE  Range(log'[n]) = db /\ \A a \in Agg : Seqs(a) = 1..version'[n][a]
<1> DEFINE zero == [a \in Agg |-> 0]
<1>1. /\ db \subseteq Row /\ IsFiniteSet(db) /\ Keyed
      /\ log \in [Node -> Seq(Row)] /\ version \in [Node -> [Agg -> Nat]]
  BY DEF StoreInv, TypeOK, Complete
<1>2. PICK r \in [1..Cardinality(db) -> db] :
        /\ Ordered(r)
        /\ log' = [log EXCEPT ![n] = <<>> \o Numbered(zero, r)]
        /\ version' = [version EXCEPT ![n] = [a \in Agg |-> zero[a] + Count(r, a, Len(r))]]
  BY DEF Load
<1>3. Cardinality(db) \in Nat /\ DOMAIN r = 1..Cardinality(db)
  BY <1>1, FS_CardinalityType
<1>4. r \in Seq(Row) /\ Len(r) = Cardinality(db)
  <2> DEFINE N == Cardinality(db)
  <2>1. N \in Nat /\ r \in [1..N -> Row]
    BY <1>1, <1>3
  <2> HIDE DEF N
  <2>2. r \in Seq(Row) /\ Len(r) = N
    BY <2>1
  <2> QED
    BY <2>2 DEF N
<1>5. ASSUME NEW a \in Agg
      PROVE  Seqs(a) = 1..version'[n][a]
  <2>1. PICK k \in Nat : Seqs(a) = 1..k
    BY DEF Complete
  <2>2. Count(r, a, Cardinality(db)) = k
    BY <1>1, <1>2, <2>1, OrderedCounts
  <2>3. version'[n][a] = 0 + Count(r, a, Len(r))
    BY <1>1, <1>2
  <2> QED
    BY <1>4, <2>1, <2>2, <2>3
<1>6. \A i \in 1..Cardinality(db) : Count(r, r[i].agg, i) = r[i].seq
  <2> SUFFICES ASSUME NEW i \in 1..Cardinality(db)
               PROVE  Count(r, r[i].agg, i) = r[i].seq
    OBVIOUS
  <2>0. r[i] \in Row
    BY <1>1
  <2>1. r[i].agg \in Agg
    BY <2>0 DEF Row
  <2>2. PICK k \in Nat : Seqs(r[i].agg) = 1..k
    BY <2>1 DEF Complete
  <2> QED
    BY <1>1, <1>2, <2>1, <2>2, OrderedCounts
<1>7. Numbered(zero, r) = r
  <2>1. ASSUME NEW i \in 1..Cardinality(db)
        PROVE  Numbered(zero, r)[i] = r[i]
    <3>1. r[i] \in Row
      BY <1>1
    <3>2. Numbered(zero, r)[i] = [r[i] EXCEPT !.seq = zero[r[i].agg] + Count(r, r[i].agg, i)]
      BY <1>3 DEF Numbered
    <3>3. zero[r[i].agg] + Count(r, r[i].agg, i) = r[i].seq
      BY <1>6, <3>1 DEF Row
    <3> HIDE DEF zero
    <3> QED
      BY <3>1, <3>2, <3>3 DEF Row
  <2>2. DOMAIN Numbered(zero, r) = 1..Cardinality(db)
    BY <1>3 DEF Numbered
  <2>3. Numbered(zero, r) = [i \in DOMAIN r |-> Numbered(zero, r)[i]]
    BY DEF Numbered
  <2> HIDE DEF zero
  <2> QED
    BY <1>3, <2>1, <2>2, <2>3
<1>8. log'[n] = r
  <2>1. <<>> \o r = r
    BY <1>4
  <2> QED
    BY <1>1, <1>2, <1>7, <2>1
<1>9. Range(r) = db
  <2>1. CASE Agg = {}
    <3>1. db = {}
      BY <1>1, <2>1 DEF Row
    <3>2. Cardinality(db) = 0
      BY <3>1, FS_EmptySet
    <3> QED
      BY <1>3, <3>1, <3>2 DEF Range
  <2>2. CASE Agg # {}
    <3>1. PICK a \in Agg : TRUE
      BY <2>2
    <3>2. PICK k \in Nat : Seqs(a) = 1..k
      BY DEF Complete
    <3> QED
      BY <1>1, <1>2, <3>2, OrderedCounts
  <2> QED
    BY <2>1, <2>2
<1> QED
  BY <1>5, <1>8, <1>9

\* A row with the next number of its aggregate leaves no gap.
LEMMA AddRow ==
  ASSUME Complete, db \subseteq Row, NEW x \in Row, NEW k \in Nat,
         Seqs(x.agg) = 1..k, x.seq = k + 1, db' = db \cup {x}
  PROVE  /\ Complete'
         /\ Seqs(x.agg)' = 1..(k + 1)
         /\ \A a \in Agg : a # x.agg => Seqs(a)' = Seqs(a)
<1>1. \A r \in db : r.agg = x.agg => r.seq # x.seq
  <2> SUFFICES ASSUME NEW r \in db, r.agg = x.agg, r.seq = x.seq PROVE FALSE
    OBVIOUS
  <2>1. r.seq \in Seqs(x.agg)
    BY DEF Seqs
  <2> QED
    BY <2>1
<1>2. Keyed'
  BY <1>1 DEF Complete, Keyed
<1>3. Seqs(x.agg)' = Seqs(x.agg) \cup {x.seq}
  BY DEF Seqs
<1>4. Seqs(x.agg)' = 1..(k + 1)
  BY <1>3
<1>5. \A a \in Agg : a # x.agg => Seqs(a)' = Seqs(a)
  BY DEF Seqs
<1>6. k + 1 \in Nat
  OBVIOUS
<1>7. \A a \in Agg : \E j \in Nat : Seqs(a)' = 1..j
  BY <1>4, <1>5, <1>6 DEF Complete
<1> QED
  BY <1>2, <1>4, <1>5, <1>7 DEF Complete

\* The row under way has the next number of its aggregate.
LEMMA RowUnderWay ==
  ASSUME ExactInv, NEW n \in Node, At(n, "mirror")
  PROVE  LET x == RowOf(cur[n])
         IN /\ x \in Row /\ x.agg = cur[n].agg
            /\ version[n][x.agg] - 1 \in Nat
            /\ Seqs(x.agg) = 1..(version[n][x.agg] - 1)
            /\ x.seq = (version[n][x.agg] - 1) + 1
            /\ ~KeyTaken(cur[n])
<1>1. StoreInv /\ Agrees(n) /\ pc[n] \in {"mirror", "stage"}
  BY DEF ExactInv, At
<1>2. cur[n] \in Call /\ RowOf(cur[n]) \in Row
  BY <1>1, InCall
<1>3. cur[n].agg \in Agg /\ version[n][cur[n].agg] \in Nat
  BY <1>1, <1>2 DEF Call, StoreInv, TypeOK
<1>4. /\ Seqs(cur[n].agg) = 1..(version[n][cur[n].agg] - 1)
      /\ cur[n].seq = version[n][cur[n].agg] /\ cur[n].seq >= 1
  BY <1>1, <1>3 DEF Agrees, At, Written
<1>5. ~KeyTaken(cur[n])
  <2> SUFFICES ASSUME NEW r \in db, r.agg = cur[n].agg, r.seq = cur[n].seq PROVE FALSE
    BY DEF KeyTaken
  <2>1. r.seq \in Seqs(cur[n].agg)
    BY DEF Seqs
  <2> QED
    BY <1>3, <1>4, <2>1
<1> QED
  BY <1>2, <1>3, <1>4, <1>5 DEF RowOf

\* A process that has (re)loaded the table into an empty memory.
LEMMA ExactLoad ==
  ASSUME Undisturbed, ExactInv, NEW n \in Node, Start(n) \/ Reload(n)
  PROVE  Complete' /\ (\A q \in Node : Agrees(q)') /\ ReturnedDurable'
<1>1. StoreInv /\ Complete /\ ReturnedDurable /\ Agrees(n) /\ UNCHANGED <<db, returned>>
  BY DEF ExactInv, Start, Reload
<1>2. pc'[n] = "idle"
  BY <1>1 DEF Start, Reload, Goto, At, StoreInv, TypeOK
<1>3. Load(n, <<>>, [a \in Agg |-> 0])
  <2>1. CASE Start(n)
    BY <2>1 DEF Start
  <2>2. CASE Reload(n)
    <3>1. /\ At(n, "idle") /\ Len(log[n]) + Cardinality(db) <= 0
          /\ Load(n, log[n], version[n])
      BY <2>2 DEF Reload, Undisturbed
    <3>2. log[n] \in Seq(Row) /\ version[n] \in [Agg -> Nat] /\ Cardinality(db) \in Nat
      BY <1>1, FS_CardinalityType DEF StoreInv, TypeOK
    <3>3. Len(log[n]) = 0
      BY <3>1, <3>2
    <3>4. log[n] = <<>>
      BY <3>2, <3>3, EmptySeq
    <3>5. db = {}
      BY <1>1, <3>1, <3>4 DEF Agrees, At, Range
    <3>6. \A a \in Agg : version[n][a] = 0
      <4> SUFFICES ASSUME NEW a \in Agg PROVE version[n][a] = 0
        OBVIOUS
      <4>1. Seqs(a) = {}
        BY <3>5 DEF Seqs
      <4>2. {} = 1..version[n][a]
        BY <1>1, <3>1, <4>1 DEF Agrees, At, Written
      <4> QED
        BY <3>2, <4>2
    <3>7. version[n] = [a \in Agg |-> 0]
      BY <3>2, <3>6
    <3> QED
      BY <3>1, <3>4, <3>7
  <2> QED
    BY <2>1, <2>2
<1>4. Range(log'[n]) = db /\ \A a \in Agg : Seqs(a) = 1..version'[n][a]
  BY <1>1, <1>3, LoadExact
<1>5. \A a : Seqs(a)' = Seqs(a)
  BY <1>1 DEF Seqs
<1>6. Agrees(n)'
  BY <1>1, <1>2, <1>4, <1>5 DEF Agrees, At, Written
<1>7. Complete' /\ ReturnedDurable'
  BY <1>1, <1>5 DEF Complete, Keyed, ReturnedDurable
<1> QED
  BY <1>6, <1>7 DEF Undisturbed

\* Appending adds one member to the range.
LEMMA RangeAppend ==
  ASSUME NEW S, NEW s \in Seq(S), NEW x \in S
  PROVE  Range(Append(s, x)) = Range(s) \cup {x}
<1>1. Len(s) \in Nat /\ DOMAIN s = 1..Len(s)
  OBVIOUS
<1>2. /\ DOMAIN Append(s, x) = 1..(Len(s) + 1)
      /\ \A i \in 1..Len(s) : Append(s, x)[i] = s[i]
      /\ Append(s, x)[Len(s) + 1] = x
  BY AppendProperties
<1>3. 1..(Len(s) + 1) = 1..Len(s) \cup {Len(s) + 1}
  BY <1>1
<1> QED
  BY <1>1, <1>2, <1>3 DEF Range

\* An append in memory leaves its row, and only that, to be written.
LEMMA ExactPush ==
  ASSUME Undisturbed, ExactInv, NEW n \in Node, NEW op, NEW a \in Agg, NEW e \in Ev,
         At(n, "idle"), PushEvent(n, op, a, e)
  PROVE  Complete' /\ (\A q \in Node : Agrees(q)') /\ ReturnedDurable'
<1> DEFINE s == version[n][a] + 1
           x == [agg |-> a, seq |-> s, ev |-> e]
<1>1. /\ StoreInv /\ Complete /\ ReturnedDurable /\ Agrees(n) /\ UNCHANGED <<db, returned>>
      /\ log \in [Node -> Seq(Row)] /\ version \in [Node -> [Agg -> Nat]]
      /\ pc \in [Node -> {"down", "idle", "mirror", "stage"}] /\ DOMAIN cur = Node
  BY DEF ExactInv, PushEvent, StoreInv, TypeOK
<1>2. /\ pc'[n] = "mirror" /\ cur'[n] = [op |-> op, agg |-> a, seq |-> s, ev |-> e]
      /\ log'[n] = Append(log[n], x) /\ version'[n] = [version[n] EXCEPT ![a] = s]
  BY <1>1 DEF PushEvent, Goto
<1>3. Range(log'[n]) = db \cup {x}
  <2>1. Range(log[n]) = db
    BY <1>1 DEF Agrees, At
  <2>2. version[n][a] + 1 \in Nat /\ log[n] \in Seq(Row)
    BY <1>1
  <2>3. x \in Row
    BY <2>2 DEF Row
  <2> HIDE DEF x
  <2>4. Range(Append(log[n], x)) = Range(log[n]) \cup {x}
    BY <2>2, <2>3, RangeAppend
  <2> QED
    BY <1>2, <2>1, <2>4
<1>4. \A b : Seqs(b)' = Seqs(b)
  BY <1>1 DEF Seqs
<1>5. \A b \in Agg : Seqs(b) = 1..version[n][b]
  BY <1>1 DEF Agrees, At, Written
<1>6. \A b \in Agg : Seqs(b)' = 1..Written(n, b)'
  BY <1>1, <1>2, <1>4, <1>5 DEF Written, At
<1>7. cur'[n].seq = version'[n][cur'[n].agg] /\ cur'[n].seq >= 1
  BY <1>1, <1>2
<1>8. RowOf(cur[n])' = x
  BY <1>2 DEF RowOf
<1>9. Agrees(n)'
  BY <1>1, <1>2, <1>3, <1>6, <1>7, <1>8 DEF Agrees, At
<1>10. Complete' /\ ReturnedDurable'
  BY <1>1, <1>4 DEF Complete, Keyed, ReturnedDurable
<1> QED
  BY <1>9, <1>10 DEF Undisturbed

\* The call returns with its row in the table.
LEMMA ReturnExact ==
  ASSUME StoreInv, NEW n \in Node, ReturnedDurable, db \subseteq db',
         RowOf(cur[n]) \in db', Return(n) \/ UNCHANGED returned
  PROVE  ReturnedDurable'
<1>1. returned \in Seq(Call)
  BY DEF StoreInv, TypeOK
<1>2. Range(returned') \subseteq Range(returned) \cup {cur[n]}
  BY <1>1 DEF Return, Range
<1> QED
  BY <1>2 DEF ReturnedDurable

\* The write cannot fail, because the number is free: the row closes the gap.
LEMMA ExactMirror ==
  ASSUME Undisturbed, ExactInv, NEW n \in Node, MirrorOk(n) \/ MirrorError(n)
  PROVE  Complete' /\ (\A q \in Node : Agrees(q)') /\ ReturnedDurable'
<1>1. At(n, "mirror") /\ UNCHANGED <<log, version>>
  BY DEF MirrorOk, MirrorError
<1>2. PICK x, k : /\ x = RowOf(cur[n]) /\ k = version[n][x.agg] - 1
                  /\ x \in Row /\ x.agg = cur[n].agg /\ k \in Nat
                  /\ Seqs(x.agg) = 1..k /\ x.seq = k + 1 /\ ~KeyTaken(cur[n])
  BY <1>1, RowUnderWay
<1>3. db' = db \cup {x} /\ StageOrReturn(n)
  BY <1>2 DEF MirrorOk, MirrorError, WriteFails, Undisturbed
<1>4. /\ StoreInv /\ Complete /\ Agrees(n) /\ ReturnedDurable /\ db \subseteq Row
      /\ version \in [Node -> [Agg -> Nat]]
      /\ pc \in [Node -> {"down", "idle", "mirror", "stage"}]
  BY DEF ExactInv, StoreInv, TypeOK
<1>5. x.agg \in Agg
  BY <1>2 DEF Row
<1>6. /\ Complete' /\ Seqs(x.agg)' = 1..(k + 1)
      /\ \A a \in Agg : a # x.agg => Seqs(a)' = Seqs(a)
  BY <1>2, <1>3, <1>4, AddRow
<1>7. ReturnedDurable'
  <2>1. Return(n) \/ UNCHANGED returned
    BY <1>3 DEF StageOrReturn
  <2>2. db \subseteq db' /\ RowOf(cur[n]) \in db'
    BY <1>2, <1>3
  <2> QED
    BY <1>4, <2>1, <2>2, ReturnExact
<1>8. \/ pc'[n] = "idle"
      \/ pc'[n] = "stage" /\ cur' = cur
  BY <1>3, <1>4 DEF StageOrReturn, Return, Goto
<1>9. \A a \in Agg : Seqs(a)' = 1..version[n][a]
  <2> SUFFICES ASSUME NEW a \in Agg PROVE Seqs(a)' = 1..version[n][a]
    OBVIOUS
  <2>1. CASE a = x.agg
    <3>1. version[n][a] \in Nat /\ k + 1 = version[n][a]
      BY <1>2, <1>4, <2>1
    <3> QED
      BY <1>6, <2>1, <3>1
  <2>2. CASE a # x.agg
    BY <1>1, <1>2, <1>4, <1>6, <2>2 DEF Agrees, At, Written
  <2> QED
    BY <2>1, <2>2
<1>10. Range(log[n]) = db'
  BY <1>1, <1>2, <1>3, <1>4 DEF Agrees
<1>11. pc'[n] = "stage" => RowOf(cur[n])' \in db'
  BY <1>2, <1>3, <1>8 DEF RowOf
<1>12. Agrees(n)'
  BY <1>1, <1>8, <1>9, <1>10, <1>11 DEF Agrees, At, Written
<1> QED
  BY <1>6, <1>7, <1>12 DEF Undisturbed

\* A crash in the middle of a write leaves the row out or in, never a gap.
LEMMA ExactCrash ==
  ASSUME Undisturbed, ExactInv, NEW n \in Node, Crash(n)
  PROVE  Complete' /\ (\A q \in Node : Agrees(q)') /\ ReturnedDurable'
<1>1. StoreInv /\ Complete /\ ReturnedDurable /\ UNCHANGED returned /\ db \subseteq Row
  BY DEF ExactInv, Crash, StoreInv, TypeOK
<1>2. pc'[n] = "down"
  BY DEF Crash, Goto, ExactInv, StoreInv, TypeOK
<1>3. Agrees(n)'
  BY <1>2 DEF Agrees, At
<1>4. Complete' /\ db \subseteq db'
  <2>1. CASE UNCHANGED db
    BY <1>1, <2>1 DEF Complete, Keyed, Seqs
  <2>2. CASE At(n, "mirror") /\ db' = db \cup {RowOf(cur[n])}
    <3>1. PICK x, k : /\ x = RowOf(cur[n]) /\ x \in Row /\ k \in Nat
                      /\ Seqs(x.agg) = 1..k /\ x.seq = k + 1
      BY <2>2, RowUnderWay
    <3>2. db' = db \cup {x}
      BY <2>2, <3>1
    <3> QED
      BY <1>1, <3>1, <3>2, AddRow
  <2> QED
    BY <2>1, <2>2 DEF Crash
<1>5. ReturnedDurable'
  BY <1>1, <1>4 DEF ReturnedDurable
<1> QED
  BY <1>3, <1>4, <1>5 DEF Undisturbed

LEMMA ExactStaged ==
  ASSUME Undisturbed, ExactInv, NEW n \in Node, Staged(n)
  PROVE  Complete' /\ (\A q \in Node : Agrees(q)') /\ ReturnedDurable'
<1>1. /\ StoreInv /\ Complete /\ ReturnedDurable /\ Agrees(n)
      /\ At(n, "stage") /\ Return(n) /\ UNCHANGED <<log, version, db>>
  BY DEF ExactInv, Staged
<1>2. pc'[n] = "idle"
  BY <1>1 DEF Return, Goto, StoreInv, TypeOK
<1>3. \A a : Seqs(a)' = Seqs(a)
  BY <1>1 DEF Seqs
<1>4. Agrees(n)'
  BY <1>1, <1>2, <1>3 DEF Agrees, At, Written
<1>5. Complete'
  BY <1>1, <1>3 DEF Complete, Keyed
<1>6. ReturnedDurable'
  BY <1>1, ReturnExact DEF Agrees
<1> QED
  BY <1>4, <1>5, <1>6 DEF Undisturbed

LEMMA ExactNext == Undisturbed /\ ExactInv /\ [Next]_storeVars => ExactInv'
<1> SUFFICES ASSUME Undisturbed, ExactInv, [Next]_storeVars
             PROVE  Complete' /\ (\A q \in Node : Agrees(q)') /\ ReturnedDurable'
  BY NextInv DEF ExactInv
<1>1. ASSUME UNCHANGED <<log, version, db, pc, cur, returned>>
      PROVE  Complete' /\ (\A q \in Node : Agrees(q)') /\ ReturnedDurable'
  <2>1. \A a : Seqs(a)' = Seqs(a)
    BY <1>1 DEF Seqs
  <2>2. \A n \in Node : Agrees(n)'
    BY <1>1, <2>1 DEF ExactInv, Agrees, At, Written, RowOf
  <2> QED
    BY <1>1, <2>1, <2>2 DEF ExactInv, Complete, Keyed, ReturnedDurable
<1>2. CASE UNCHANGED storeVars
  BY <1>1, <1>2 DEF storeVars
<1>3. ASSUME NEW n \in Node, NEW c \in Client, NEW a \in Agg, ReadStream(n, c, a)
      PROVE  Complete' /\ (\A q \in Node : Agrees(q)') /\ ReturnedDurable'
  BY <1>1, <1>3 DEF ReadStream
<1>4. ASSUME NEW n \in Node, NEW a \in Agg, NEW e \in Ev,
             \/ \E op \in AllOps : AppendEvent(n, op, a, e)
             \/ \E c \in Client : AppendVersioned(n, c, a, e)
      PROVE  Complete' /\ (\A q \in Node : Agrees(q)') /\ ReturnedDurable'
  BY <1>4, ExactPush DEF AppendEvent, AppendVersioned
<1> QED
  BY <1>2, <1>3, <1>4, ExactLoad, ExactCrash, ExactMirror, ExactStaged
  DEF Next, StoreStep

LEMMA ExactInit == Init => ExactInv
<1> SUFFICES ASSUME Init PROVE ExactInv
  OBVIOUS
<1>1. StoreInv
  BY InitInv
<1>2. Range(returned) = {}
  BY DEF Init, Range
<1>3. \A a : Seqs(a) = {}
  BY DEF Init, Seqs
<1>4. 0 \in Nat /\ 1..0 = {}
  OBVIOUS
<1>5. Complete
  BY <1>3, <1>4 DEF Init, Complete, Keyed
<1>6. \A n \in Node : Agrees(n)
  BY DEF Init, Agrees, At
<1> QED
  BY <1>1, <1>2, <1>5, <1>6 DEF ExactInv, ReturnedDurable

\* With one process over the table and writes that succeed, every event a call
\* handed back is in the table under its number, whenever the process dies: a
\* crash loses nothing that was answered (postgres_store.rs:12-14).
THEOREM AnsweredIsDurable == ASSUME Undisturbed PROVE Spec => []ReturnedDurable
<1>1. ExactInv /\ [Next]_storeVars => ExactInv'
  BY ExactNext
<1>2. ExactInv => ReturnedDurable
  BY DEF ExactInv
<1> QED
  BY <1>1, <1>2, ExactInit, PTL DEF Spec

\* And between calls the memory is the table: hydration restores every row
\* under the number it was written with, also after a crash in the middle of a
\* write (load(), postgres_store.rs:105-145).
THEOREM MemoryIsTable == ASSUME Undisturbed PROVE Spec => []MirrorExact
<1>1. ExactInv /\ [Next]_storeVars => ExactInv'
  BY ExactNext
<1>2. ExactInv => MirrorExact
  BY DEF ExactInv, Agrees, MirrorExact, At
<1> QED
  BY <1>1, <1>2, ExactInit, PTL DEF Spec

-----------------------------------------------------------------------------
(* The count of failed writes, with any number of processes, failures and  *)
(* crashes: what append() handed back and no table has is counted.         *)

InMemory(n) == {x.ev : x \in Range(log[n])}
InTable == {r.ev : r \in db}
Plain == {c.ev : c \in {d \in Range(returned) : d.op # "append_versioned"}}

\* A failed write is counted before the outbox answers and the call returns.
Pending(n) == IF At(n, "stage") THEN {cur[n].ev} ELSE {}

Exposed(n) == OnlyInMemory(n) \cap (Plain \cup Pending(n))

\* An event is appended once: a new one is nowhere yet.
UsedOnce ==
  /\ IsFiniteSet(used)
  /\ InTable \subseteq used
  /\ \A n \in Node : InMemory(n) \subseteq used
  /\ \A n \in Node : pc[n] \in {"mirror", "stage"} => cur[n].ev \in used
  /\ \A c \in Range(returned) : c.ev \in used

\* The event of a call has reached no memory but its own, unless by the table.
OwnEvent ==
  \A m, n \in Node :
    m # n /\ pc[n] \in {"mirror", "stage"} => cur[n].ev \notin OnlyInMemory(m)

Counted == \A n \in Node : Cardinality(Exposed(n)) <= failures[n]

FailureInv == StoreInv /\ StagesAsync /\ UsedOnce /\ OwnEvent /\ Counted

LEMMA OneMore ==
  ASSUME NEW S, NEW T, NEW x, IsFiniteSet(T), S \subseteq T \cup {x}
  PROVE  /\ Cardinality(S) \in Nat /\ Cardinality(T) \in Nat
         /\ Cardinality(S) <= Cardinality(T) + 1
         /\ S \subseteq T => Cardinality(S) <= Cardinality(T)
<1>1. /\ IsFiniteSet(T \cup {x}) /\ Cardinality(T) \in Nat
      /\ Cardinality(T \cup {x}) \in {Cardinality(T), Cardinality(T) + 1}
  BY FS_AddElement, FS_CardinalityType
<1>2. IsFiniteSet(S) /\ Cardinality(S) <= Cardinality(T \cup {x})
  BY <1>1, FS_Subset
<1>3. Cardinality(S) \in Nat
  BY <1>2, FS_CardinalityType
<1>4. S \subseteq T => Cardinality(S) <= Cardinality(T)
  BY FS_Subset
<1> QED
  BY <1>1, <1>2, <1>3, <1>4

\* What is exposed is part of the events used, hence finite.
LEMMA ExposedFinite ==
  ASSUME UsedOnce, NEW n \in Node
  PROVE  IsFiniteSet(Exposed(n))
<1>1. Exposed(n) \subseteq used
  BY DEF UsedOnce, Exposed, OnlyInMemory, InMemory
<1> QED
  BY <1>1, FS_Subset DEF UsedOnce

\* Hydration brings into memory only what the table has.
LEMMA LoadMemory ==
  ASSUME StoreInv, NEW n \in Node, NEW old \in Seq(Row), NEW v, Load(n, old, v)
  PROVE  /\ InMemory(n)' \subseteq {x.ev : x \in Range(old)} \cup InTable
         /\ \A m \in Node : m # n => InMemory(m)' = InMemory(m)
<1>1. db \subseteq Row /\ IsFiniteSet(db) /\ log \in [Node -> Seq(Row)]
  BY DEF StoreInv, TypeOK
<1>2. PICK r \in [1..Cardinality(db) -> db] : log' = [log EXCEPT ![n] = old \o Numbered(v, r)]
  BY DEF Load
<1>3. PICK k \in Nat : k = Cardinality(db)
  BY <1>1, FS_CardinalityType
<1>4. r \in [1..k -> db] /\ DOMAIN r = 1..k
  BY <1>2, <1>3
<1>5. PICK t : t = Numbered(v, r)
  OBVIOUS
<1>6. DOMAIN t = 1..k /\ \A i \in 1..k : t[i].ev = r[i].ev
  <2> SUFFICES ASSUME NEW i \in 1..k PROVE t[i].ev = r[i].ev
    BY <1>4, <1>5 DEF Numbered
  <2>1. r[i] \in Row
    BY <1>1, <1>4
  <2>2. t[i] = [r[i] EXCEPT !.seq = v[r[i].agg] + Count(r, r[i].agg, i)]
    BY <1>4, <1>5 DEF Numbered
  <2> QED
    BY <2>1, <2>2 DEF Row
<1>7. t = [i \in 1..k |-> t[i]]
  BY <1>4, <1>5 DEF Numbered
<1>8. \A x \in Range(old \o t) : x \in Range(old) \/ \E i \in 1..k : x = t[i]
  <2>1. t \in Seq({t[i] : i \in 1..k}) /\ Len(t) = k
    BY <1>7
  <2>2. PICK S : S = Row \cup {t[i] : i \in 1..k}
    OBVIOUS
  <2>3. old \in Seq(S) /\ t \in Seq(S) /\ Len(old) \in Nat
    BY <2>1, <2>2
  <2>4. /\ DOMAIN (old \o t) = 1..(Len(old) + k)
        /\ \A i \in 1..(Len(old) + k) :
             (old \o t)[i] = IF i <= Len(old) THEN old[i] ELSE t[i - Len(old)]
    BY <2>1, <2>3
  <2>5. DOMAIN old = 1..Len(old)
    BY <2>3
  <2> SUFFICES ASSUME NEW x \in Range(old \o t)
               PROVE  x \in Range(old) \/ \E i \in 1..k : x = t[i]
    OBVIOUS
  <2>6. PICK i \in 1..(Len(old) + k) : x = (old \o t)[i]
    BY <2>4 DEF Range
  <2>7. CASE i <= Len(old)
    <3>1. x = old[i] /\ i \in DOMAIN old
      BY <2>3, <2>4, <2>5, <2>6, <2>7
    <3> QED
      BY <3>1 DEF Range
  <2>8. CASE ~(i <= Len(old))
    <3>1. x = t[i - Len(old)] /\ i - Len(old) \in 1..k
      BY <2>3, <2>4, <2>6, <2>8
    <3> QED
      BY <3>1
  <2> QED
    BY <2>7, <2>8
<1>9. log'[n] = old \o t
  BY <1>1, <1>2, <1>5
<1>10. InMemory(n)' \subseteq {x.ev : x \in Range(old)} \cup InTable
  <2>1. \A i \in 1..k : t[i].ev \in InTable
    BY <1>4, <1>6 DEF InTable
  <2> QED
    BY <1>8, <1>9, <2>1 DEF InMemory
<1>11. \A m \in Node : m # n => InMemory(m)' = InMemory(m)
  BY <1>1, <1>2 DEF InMemory
<1> QED
  BY <1>10, <1>11

\* What is in memory only stays so or is written, if no new event comes in.
LEMMA OnlyShrinks ==
  ASSUME NEW n \in Node, InTable \subseteq InTable',
         InMemory(n)' \subseteq InMemory(n) \cup InTable
  PROVE  OnlyInMemory(n)' \subseteq OnlyInMemory(n)
BY DEF OnlyInMemory, InMemory, InTable

\* A step that appends and answers nothing; the memory may start afresh.
LEMMA NothingNew ==
  ASSUME FailureInv, NEW n \in Node,
         \A m \in Node : /\ OnlyInMemory(m)' \subseteq OnlyInMemory(m)
                         /\ InMemory(m)' \subseteq used,
         InTable' \subseteq used, UNCHANGED <<returned, used>>,
         pc'[n] \in {"idle", "down"},
         \A m \in Node : m # n => pc'[m] = pc[m] /\ cur'[m] = cur[m] /\ failures'[m] = failures[m],
         \/ failures'[n] = failures[n]
         \/ OnlyInMemory(n)' = {} /\ failures'[n] = 0
  PROVE  UsedOnce' /\ OwnEvent' /\ Counted'
<1>1. UsedOnce /\ OwnEvent /\ Counted /\ \A m \in Node : failures[m] \in Nat
  BY DEF FailureInv, StoreInv, TypeOK
<1>2. UsedOnce'
  BY <1>1 DEF UsedOnce
<1>3. OwnEvent'
  BY <1>1 DEF OwnEvent
<1>4. ASSUME NEW m \in Node
      PROVE  Cardinality(Exposed(m)') <= failures'[m]
  <2>1. Plain' = Plain
    BY DEF Plain
  <2>2. Pending(m)' \subseteq Pending(m)
    BY DEF Pending, At
  <2>3. Exposed(m)' \subseteq Exposed(m)
    BY <2>1, <2>2 DEF Exposed
  <2>4. /\ Cardinality(Exposed(m)) <= failures[m] /\ Cardinality(Exposed(m)') <= Cardinality(Exposed(m))
        /\ Cardinality(Exposed(m)) \in Nat /\ Cardinality(Exposed(m)') \in Nat
    BY <1>1, <2>3, ExposedFinite, OneMore DEF Counted
  <2>5. CASE failures'[m] = failures[m]
    BY <1>1, <2>4, <2>5
  <2>6. CASE m = n /\ OnlyInMemory(n)' = {} /\ failures'[n] = 0
    <3>1. Exposed(m)' = {}
      BY <2>6 DEF Exposed
    <3> QED
      BY <2>6, <3>1, FS_EmptySet
  <2> QED
    BY <2>5, <2>6
<1> QED
  BY <1>2, <1>3, <1>4 DEF Counted

\* A new event is in one memory, and exposed nowhere before it is written.
LEMMA PushCounted ==
  ASSUME FailureInv, NEW n \in Node, NEW op, NEW a \in Agg, NEW e \in Ev,
         e \notin used, PushEvent(n, op, a, e)
  PROVE  UsedOnce' /\ OwnEvent' /\ Counted'
<1>1. /\ UsedOnce /\ OwnEvent /\ Counted
      /\ log \in [Node -> Seq(Row)] /\ pc \in [Node -> {"down", "idle", "mirror", "stage"}]
      /\ DOMAIN cur = Node /\ version \in [Node -> [Agg -> Nat]]
      /\ failures' = failures /\ db' = db /\ returned' = returned /\ used' = used \cup {e}
  BY DEF FailureInv, StoreInv, TypeOK, PushEvent
<1>2. /\ pc'[n] = "mirror" /\ cur'[n].ev = e
      /\ \A m \in Node : m # n => pc'[m] = pc[m] /\ cur'[m] = cur[m] /\ log'[m] = log[m]
  BY <1>1 DEF PushEvent, Goto
<1>3. InMemory(n)' = InMemory(n) \cup {e}
  <2>1. PICK x : x = [agg |-> a, seq |-> version[n][a] + 1, ev |-> e]
    OBVIOUS
  <2>0. version[n][a] + 1 \in Nat /\ log[n] \in Seq(Row)
    BY <1>1
  <2>2. x \in Row /\ x.ev = e /\ log[n] \in Seq(Row)
    BY <2>0, <2>1 DEF Row
  <2>3. log'[n] = Append(log[n], x)
    BY <1>1, <2>1 DEF PushEvent
  <2>4. Range(log'[n]) = Range(log[n]) \cup {x}
    BY <2>2, <2>3, RangeAppend
  <2> QED
    BY <2>2, <2>4 DEF InMemory
<1>4. \A m \in Node : m # n => InMemory(m)' = InMemory(m)
  BY <1>2 DEF InMemory
<1>5. InTable' = InTable /\ Plain' = Plain
  BY <1>1 DEF InTable, Plain
<1>6. UsedOnce'
  <2>1. IsFiniteSet(used')
    BY <1>1, FS_AddElement DEF UsedOnce
  <2> QED
    BY <1>1, <1>2, <1>3, <1>4, <1>5, <2>1 DEF UsedOnce
<1>7. \A m \in Node : OnlyInMemory(m) = InMemory(m) \ InTable /\ OnlyInMemory(m)' = InMemory(m)' \ InTable
  BY <1>5 DEF OnlyInMemory, InMemory, InTable
<1>8. OwnEvent'
  <2> SUFFICES ASSUME NEW m \in Node, NEW q \in Node, m # q, pc'[q] \in {"mirror", "stage"}
               PROVE  cur'[q].ev \notin OnlyInMemory(m)'
    BY DEF OwnEvent
  <2>1. InMemory(m) \subseteq used
    BY <1>1 DEF UsedOnce
  <2>2. CASE q = n
    BY <1>1, <1>2, <1>4, <1>7, <2>1, <2>2
  <2>3. CASE q # n
    <3>1. cur'[q] = cur[q] /\ cur[q].ev \in used /\ cur[q].ev \notin OnlyInMemory(m)
      BY <1>1, <1>2, <2>3 DEF OwnEvent, UsedOnce
    <3>2. InMemory(m)' \subseteq InMemory(m) \cup {e}
      BY <1>3, <1>4
    <3> QED
      BY <1>1, <1>7, <3>1, <3>2
  <2> QED
    BY <2>2, <2>3
<1>9. ASSUME NEW m \in Node
      PROVE  Cardinality(Exposed(m)') <= failures'[m]
  <2>1. e \notin Plain
    BY <1>1 DEF UsedOnce, Plain
  <2>2. Pending(m)' \subseteq Pending(m) /\ (m = n => Pending(m)' = {})
    BY <1>2 DEF Pending, At
  <2>3. Exposed(m)' \subseteq Exposed(m)
    BY <1>3, <1>4, <1>5, <1>7, <2>1, <2>2 DEF Exposed
  <2>4. /\ Cardinality(Exposed(m)') <= Cardinality(Exposed(m)) /\ Cardinality(Exposed(m)) <= failures[m]
        /\ Cardinality(Exposed(m)) \in Nat /\ Cardinality(Exposed(m)') \in Nat /\ failures[m] \in Nat
    BY <1>1, <2>3, ExposedFinite, OneMore DEF Counted, FailureInv, StoreInv, TypeOK
  <2> QED
    BY <1>1, <2>4
<1> QED
  BY <1>6, <1>8, <1>9 DEF Counted

\* The call of a node goes on or is answered: its event is in the table, was
\* counted before, or is counted now.
LEMMA CallCounted ==
  ASSUME FailureInv, NEW n \in Node, pc[n] \in {"mirror", "stage"},
         UNCHANGED <<log, used>>, db \subseteq db', db' \subseteq db \cup {RowOf(cur[n])},
         \/ Return(n)
         \/ Goto(n, "stage") /\ UNCHANGED <<cur, returned>>,
         \/ failures' = failures /\ (cur[n].ev \in InTable' \/ At(n, "stage"))
         \/ failures' = [failures EXCEPT ![n] = failures[n] + 1]
  PROVE  UsedOnce' /\ OwnEvent' /\ Counted'
<1> DEFINE e == cur[n].ev
<1>1. /\ UsedOnce /\ OwnEvent /\ Counted /\ failures \in [Node -> Nat]
      /\ pc \in [Node -> {"down", "idle", "mirror", "stage"}] /\ DOMAIN cur = Node
      /\ returned \in Seq(Call) /\ cur[n] \in Call /\ e \in used
  BY InCall DEF FailureInv, StoreInv, TypeOK, UsedOnce
<1>2. /\ \A m \in Node : m # n => pc'[m] = pc[m] /\ cur'[m] = cur[m]
      /\ pc'[n] = "idle" \/ (pc'[n] = "stage" /\ cur'[n] = cur[n])
      /\ pc'[n] = "idle" \/ UNCHANGED returned
  BY <1>1 DEF Return, Goto
<1>3. Range(returned') \subseteq Range(returned) \cup {cur[n]}
  <2>1. CASE returned' = Append(returned, cur[n])
    BY <1>1, <2>1, RangeAppend
  <2>2. CASE returned' = returned
    BY <2>2
  <2> QED
    BY <2>1, <2>2 DEF Return
<1>4. InTable \subseteq InTable' /\ InTable' \subseteq InTable \cup {e}
  BY DEF InTable, RowOf
<1>5. \A m \in Node : InMemory(m)' = InMemory(m) /\ OnlyInMemory(m)' \subseteq OnlyInMemory(m)
  BY <1>4 DEF InMemory, OnlyInMemory, InTable
<1>6. UsedOnce'
  BY <1>1, <1>2, <1>3, <1>4, <1>5 DEF UsedOnce
<1>7. OwnEvent'
  BY <1>1, <1>2, <1>5 DEF OwnEvent
<1>8. Plain' \subseteq Plain \cup {e}
  BY <1>3 DEF Plain
<1>9. ASSUME NEW m \in Node
      PROVE  Cardinality(Exposed(m)') <= failures'[m]
  <2>1. /\ IsFiniteSet(Exposed(m)) /\ Cardinality(Exposed(m)) <= failures[m]
        /\ failures[m] \in Nat
    BY <1>1, ExposedFinite DEF Counted
  <2>2. CASE m # n
    <3>1. e \notin OnlyInMemory(m)
      BY <1>1, <2>2 DEF OwnEvent
    <3>2. Pending(m)' = Pending(m)
      BY <1>2, <2>2 DEF Pending, At
    <3>3. Exposed(m)' \subseteq Exposed(m)
      BY <1>5, <1>8, <3>1, <3>2 DEF Exposed
    <3>4. failures'[m] = failures[m]
      BY <1>1, <2>2
    <3>5. /\ Cardinality(Exposed(m)') \in Nat /\ Cardinality(Exposed(m)) \in Nat
          /\ Cardinality(Exposed(m)') <= Cardinality(Exposed(m))
      BY <2>1, <3>3, OneMore
    <3> QED
      BY <2>1, <3>4, <3>5
  <2>3. CASE m = n
    <3>1. Pending(n)' \subseteq {e}
      BY <1>2 DEF Pending, At
    <3>2. Exposed(n)' \subseteq Exposed(n) \cup {e}
      BY <1>5, <1>8, <3>1 DEF Exposed
    <3>3. CASE failures' = [failures EXCEPT ![n] = failures[n] + 1]
      <4>1. failures'[n] = failures[n] + 1
        BY <1>1, <3>3
      <4>2. /\ Cardinality(Exposed(n)') \in Nat /\ Cardinality(Exposed(n)) \in Nat
            /\ Cardinality(Exposed(n)') <= Cardinality(Exposed(n)) + 1
        <5>1. PICK S, T, x : S = Exposed(n)' /\ T = Exposed(n) /\ x = e
          OBVIOUS
        <5>2. IsFiniteSet(T) /\ S \subseteq T \cup {x}
          BY <2>1, <2>3, <3>2, <5>1
        <5> QED
          BY <5>1, <5>2, OneMore
      <4> QED
        BY <2>1, <2>3, <4>1, <4>2
    <3>4. CASE failures' = failures /\ (e \in InTable' \/ At(n, "stage"))
      <4>1. e \in InTable' => e \notin OnlyInMemory(n)'
        BY DEF OnlyInMemory, InTable
      <4>2. At(n, "stage") => Pending(n) = {e}
        BY DEF Pending
      <4>3. Exposed(n)' \subseteq Exposed(n)
        BY <1>5, <1>8, <3>1, <3>2, <3>4, <4>1, <4>2 DEF Exposed
      <4>4. /\ Cardinality(Exposed(n)') \in Nat /\ Cardinality(Exposed(n)) \in Nat
            /\ Cardinality(Exposed(n)') <= Cardinality(Exposed(n))
        BY <2>1, <2>3, <4>3, OneMore
      <4> QED
        BY <2>1, <2>3, <3>4, <4>4
    <3> QED
      BY <3>3, <3>4
  <2> QED
    BY <2>2, <2>3
<1> QED
  BY <1>6, <1>7, <1>9 DEF Counted

LEMMA FailuresMirror ==
  ASSUME FailureInv, NEW n \in Node, MirrorOk(n) \/ MirrorError(n) \/ Staged(n)
  PROVE  UsedOnce' /\ OwnEvent' /\ Counted'
<1>1. /\ UsedOnce /\ pc[n] \in {"mirror", "stage"} /\ UNCHANGED <<log, used>>
      /\ failures \in [Node -> Nat] /\ pc \in [Node -> {"down", "idle", "mirror", "stage"}]
      /\ cur \in [Node -> Call \cup {NoCall}]
  BY DEF FailureInv, StoreInv, TypeOK, MirrorOk, MirrorError, Staged, At
<1>2. db \subseteq db' /\ db' \subseteq db \cup {RowOf(cur[n])}
  BY DEF MirrorOk, MirrorError, Staged, WriteFails
<1>3. CASE MirrorOk(n)
  <2>1. cur[n].ev \in InTable'
    <3>1. RowOf(cur[n]) \in db' /\ RowOf(cur[n]).ev = cur[n].ev
      BY <1>3 DEF MirrorOk, RowOf
    <3> QED
      BY <3>1 DEF InTable
  <2>2. failures' = failures /\ (Return(n) \/ (Goto(n, "stage") /\ UNCHANGED <<cur, returned>>))
    BY <1>3 DEF MirrorOk, StageOrReturn
  <2> QED
    BY <1>1, <1>2, <2>1, <2>2, CallCounted
<1>4. CASE Staged(n)
  BY <1>1, <1>2, <1>4, CallCounted DEF Staged
<1>5. CASE MirrorError(n) /\ Fail(n) /\ UNCHANGED failures
  <2>1. /\ pc'[n] = "idle" /\ UNCHANGED <<log, used, failures, returned>>
        /\ \A m \in Node : m # n => pc'[m] = pc[m] /\ cur'[m] = cur[m]
    BY <1>1, <1>5 DEF Fail, Goto
  <2>2. InTable \subseteq InTable' /\ InTable' \subseteq InTable \cup {cur[n].ev}
    BY <1>2 DEF InTable, RowOf
  <2>3. InTable' \subseteq used
    BY <1>1, <2>2 DEF UsedOnce
  <2>4. \A m \in Node : InMemory(m)' = InMemory(m)
    BY <1>1 DEF InMemory
  <2>5. \A m \in Node : OnlyInMemory(m)' \subseteq OnlyInMemory(m) /\ InMemory(m)' \subseteq used
    BY <1>1, <2>2, <2>4, OnlyShrinks DEF UsedOnce
  <2> QED
    BY <2>1, <2>3, <2>5, NothingNew
<1>6. CASE /\ StageOrReturn(n) /\ failures' = [failures EXCEPT ![n] = failures[n] + 1]
  <2>1. Return(n) \/ (Goto(n, "stage") /\ UNCHANGED <<cur, returned>>)
    BY <1>6 DEF StageOrReturn
  <2> QED
    BY <1>1, <1>2, <1>6, <2>1, CallCounted
<1> QED
  BY <1>3, <1>4, <1>5, <1>6 DEF MirrorError

\* Hydration and death: the memory starts afresh, or adds what the table has.
LEMMA FailuresLoad ==
  ASSUME FailureInv, NEW n \in Node, Start(n) \/ Reload(n) \/ Crash(n)
  PROVE  UsedOnce' /\ OwnEvent' /\ Counted'
<1>1. /\ UsedOnce /\ StoreInv /\ UNCHANGED <<returned, used>>
      /\ failures \in [Node -> Nat] /\ pc \in [Node -> {"down", "idle", "mirror", "stage"}]
      /\ cur \in [Node -> Call \cup {NoCall}] /\ log \in [Node -> Seq(Row)]
  BY DEF FailureInv, StoreInv, TypeOK, Start, Reload, Crash
<1>2. InTable \subseteq used /\ \A m \in Node : InMemory(m) \subseteq used
  BY <1>1 DEF UsedOnce
<1>3. /\ pc'[n] \in {"idle", "down"}
      /\ \A m \in Node : m # n => /\ pc'[m] = pc[m] /\ cur'[m] = cur[m]
                                  /\ failures'[m] = failures[m]
  BY <1>1 DEF Start, Reload, Crash, Goto, At
<1>4. InTable \subseteq InTable' /\ InTable' \subseteq used
  <2>1. CASE db' = db
    BY <1>2, <2>1 DEF InTable
  <2>2. CASE At(n, "mirror") /\ db' = db \cup {RowOf(cur[n])}
    <3>1. cur[n].ev \in used
      BY <1>1, <2>2 DEF UsedOnce, At
    <3> QED
      BY <1>2, <2>2, <3>1 DEF InTable, RowOf
  <2> QED
    BY <2>1, <2>2 DEF Start, Reload, Crash
<1>5. /\ InMemory(n)' \subseteq InMemory(n) \cup InTable
      /\ \A m \in Node : m # n => InMemory(m)' = InMemory(m)
      /\ \/ failures'[n] = failures[n]
         \/ InMemory(n)' \subseteq InTable /\ failures'[n] = 0
  <2>1. CASE Start(n)
    <3>1. /\ <<>> \in Seq(Row) /\ Range(<<>>) = {}
          /\ Load(n, <<>>, [a \in Agg |-> 0]) /\ failures'[n] = 0
      BY <1>1, <2>1 DEF Start, Range
    <3> QED
      BY <1>1, <3>1, LoadMemory
  <2>2. CASE Reload(n)
    <3>1. log[n] \in Seq(Row) /\ Load(n, log[n], version[n]) /\ failures'[n] = failures[n]
      BY <1>1, <2>2 DEF Reload
    <3>2. {x.ev : x \in Range(log[n])} = InMemory(n)
      BY DEF InMemory
    <3> QED
      BY <1>1, <3>1, <3>2, LoadMemory
  <2>3. CASE Crash(n)
    <3>1. /\ log'[n] = <<>> /\ failures'[n] = 0
          /\ \A m \in Node : m # n => log'[m] = log[m]
      BY <1>1, <2>3 DEF Crash
    <3>2. InMemory(n)' = {}
      BY <3>1 DEF InMemory, Range
    <3> QED
      BY <3>1, <3>2 DEF InMemory
  <2> QED
    BY <2>1, <2>2, <2>3
<1>6. \A m \in Node : OnlyInMemory(m)' \subseteq OnlyInMemory(m) /\ InMemory(m)' \subseteq used
  <2> SUFFICES ASSUME NEW m \in Node
               PROVE  OnlyInMemory(m)' \subseteq OnlyInMemory(m) /\ InMemory(m)' \subseteq used
    OBVIOUS
  <2>1. InMemory(m)' \subseteq InMemory(m) \cup InTable
    BY <1>5
  <2> QED
    BY <1>2, <1>4, <2>1, OnlyShrinks
<1>7. InMemory(n)' \subseteq InTable => OnlyInMemory(n)' = {}
  BY <1>4 DEF OnlyInMemory, InMemory, InTable
<1> QED
  BY <1>1, <1>3, <1>4, <1>5, <1>6, <1>7, NothingNew

LEMMA FailureNext == FailureInv /\ DurableInv /\ [Next]_storeVars => FailureInv'
<1> SUFFICES ASSUME FailureInv, DurableInv, [Next]_storeVars
             PROVE  UsedOnce' /\ OwnEvent' /\ Counted'
  BY DurableNext DEF FailureInv, DurableInv
<1>1. CASE UNCHANGED <<log, failures, db, pc, cur, returned, used>>
  <2>1. \A n \in Node : /\ InMemory(n)' = InMemory(n) /\ OnlyInMemory(n)' = OnlyInMemory(n)
                        /\ Exposed(n)' = Exposed(n)
    BY <1>1 DEF InMemory, OnlyInMemory, Exposed, Plain, Pending, At
  <2>2. InTable' = InTable
    BY <1>1 DEF InTable
  <2> QED
    BY <1>1, <2>1, <2>2 DEF FailureInv, UsedOnce, OwnEvent, Counted
<1>2. ASSUME NEW n \in Node, NEW a \in Agg, NEW e \in Ev,
             \/ \E op \in AllOps : AppendEvent(n, op, a, e)
             \/ \E c \in Client : AppendVersioned(n, c, a, e)
      PROVE  UsedOnce' /\ OwnEvent' /\ Counted'
  BY <1>2, PushCounted DEF AppendEvent, AppendVersioned
<1> QED
  BY <1>1, <1>2, FailuresLoad, FailuresMirror
  DEF Next, StoreStep, ReadStream, storeVars

\* Between calls, the events that append() and append_async() handed back and
\* that only the memory holds are at most as many as the failures the store has
\* counted: with any number of processes over the table, writes that fail in
\* either way, crashes and hydrations (durability_failures,
\* postgres_store.rs:45-48 and 191-202).
THEOREM FailuresAreCounted == Spec => []FailuresCounted
<1>1. Init => FailureInv /\ DurableInv
  <2> SUFFICES ASSUME Init PROVE FailureInv /\ DurableInv
    OBVIOUS
  <2>1. Range(returned) = {} /\ \A n \in Node : Range(log[n]) = {}
    BY DEF Init, Range
  <2>2. StoreInv /\ StagesAsync /\ VersionedDurable
    BY <2>1, InitInv DEF StagesAsync, VersionedDurable, Init, At
  <2>3. \A n \in Node : InMemory(n) = {} /\ OnlyInMemory(n) = {} /\ Exposed(n) = {}
    BY <2>1 DEF InMemory, OnlyInMemory, Exposed
  <2>4. UsedOnce /\ OwnEvent
    BY <2>1, <2>3, FS_EmptySet DEF UsedOnce, OwnEvent, InTable, Init
  <2>5. Counted
    <3>1. Cardinality({}) = 0 /\ \A n \in Node : failures[n] = 0
      BY FS_EmptySet DEF Init
    <3> QED
      BY <2>3, <3>1 DEF Counted
  <2> QED
    BY <2>2, <2>4, <2>5 DEF FailureInv, DurableInv
<1>2. FailureInv => FailuresCounted
  <2> SUFFICES ASSUME FailureInv, NEW n \in Node, At(n, "idle")
               PROVE  Cardinality(OnlyInMemory(n) \cap Plain) <= failures[n]
    BY DEF FailuresCounted, Plain
  <2>1. OnlyInMemory(n) \cap Plain \subseteq Exposed(n)
    BY DEF Exposed
  <2>2. /\ UsedOnce /\ Cardinality(Exposed(n)) <= failures[n] /\ failures[n] \in Nat
    BY DEF FailureInv, Counted, StoreInv, TypeOK
  <2>3. IsFiniteSet(Exposed(n))
    BY <2>2, ExposedFinite
  <2>4. /\ Cardinality(OnlyInMemory(n) \cap Plain) \in Nat /\ Cardinality(Exposed(n)) \in Nat
        /\ Cardinality(OnlyInMemory(n) \cap Plain) <= Cardinality(Exposed(n))
    BY <2>1, <2>3, OneMore
  <2> QED
    BY <2>2, <2>4
<1> QED
  BY <1>1, <1>2, FailureNext, DurableNext, PTL DEF Spec

-----------------------------------------------------------------------------
(* One process and writes that succeed: what a client has read stays the   *)
(* beginning of the stream, so a version that still holds is the stream.   *)

\* The events of an aggregate that the table has up to number k.
TableStream(a, k) ==
  {[seq |-> r.seq, ev |-> r.ev] : r \in {x \in db : x.agg = a /\ x.seq <= k}}

ViewsHold ==
  \A c \in Client, a \in Agg :
    /\ 1..view[c][a].version \subseteq Seqs(a)
    /\ view[c][a].events = TableStream(a, view[c][a].version)

ViewInv == ExactInv /\ ViewsHold

\* Between calls the stream in memory is what the table has of it.
LEMMA StreamIsTable ==
  ASSUME ExactInv, NEW n \in Node, At(n, "idle"), NEW a \in Agg
  PROVE  /\ Seqs(a) = 1..version[n][a] /\ version[n][a] \in Nat
         /\ StreamOf(log[n], a) = TableStream(a, version[n][a])
<1>1. /\ Seqs(a) = 1..version[n][a] /\ Range(log[n]) = db /\ version[n][a] \in Nat
      /\ log[n] \in Seq(Row) /\ db \subseteq Row
  BY DEF ExactInv, Agrees, At, Written, StoreInv, TypeOK
<1>2. DOMAIN log[n] = 1..Len(log[n])
  BY <1>1
<1>3. \A x : x \in db <=> \E i \in 1..Len(log[n]) : x = log[n][i]
  BY <1>1, <1>2 DEF Range
<1>4. \A x \in db : x.agg = a => x.seq <= version[n][a]
  <2> SUFFICES ASSUME NEW x \in db, x.agg = a PROVE x.seq <= version[n][a]
    OBVIOUS
  <2>1. x.seq \in Seqs(a)
    BY DEF Seqs
  <2> QED
    BY <1>1, <2>1
<1>5. StreamOf(log[n], a) \subseteq TableStream(a, version[n][a])
  BY <1>3, <1>4 DEF StreamOf, TableStream
<1>6. TableStream(a, version[n][a]) \subseteq StreamOf(log[n], a)
  BY <1>3 DEF StreamOf, TableStream
<1> QED
  BY <1>1, <1>5, <1>6

\* The table grows by a number beyond all that was read.
LEMMA ViewsTable ==
  ASSUME ViewInv, NEW n \in Node, UNCHANGED view,
         \/ UNCHANGED db
         \/ At(n, "mirror") /\ db' = db \cup {RowOf(cur[n])}
  PROVE  ViewsHold'
<1> SUFFICES ASSUME NEW c \in Client, NEW a \in Agg
             PROVE  /\ 1..view[c][a].version \subseteq Seqs(a)'
                    /\ view[c][a].events = TableStream(a, view[c][a].version)'
  BY DEF ViewsHold
<1>1. /\ ExactInv /\ 1..view[c][a].version \subseteq Seqs(a)
      /\ view[c][a].events = TableStream(a, view[c][a].version)
  BY DEF ViewInv, ViewsHold
<1>2. view[c][a].version \in Nat
  BY <1>1 DEF ExactInv, StoreInv, TypeOK
<1>3. CASE UNCHANGED db
  BY <1>1, <1>3 DEF Seqs, TableStream
<1>4. CASE At(n, "mirror") /\ db' = db \cup {RowOf(cur[n])}
  <2>1. PICK x, k : /\ x = RowOf(cur[n]) /\ x \in Row /\ k \in Nat
                    /\ Seqs(x.agg) = 1..k /\ x.seq = k + 1
    BY <1>1, <1>4, RowUnderWay
  <2>2. x.agg = a => ~(x.seq <= view[c][a].version)
    BY <1>1, <1>2, <2>1
  <2>3. db' = db \cup {x}
    BY <1>4, <2>1
  <2>4. TableStream(a, view[c][a].version)' = TableStream(a, view[c][a].version)
    <3> DEFINE k0 == view[c][a].version
    <3>1. PICK j : j = k0
      OBVIOUS
    <3>2. {r \in db' : r.agg = a /\ r.seq <= j} = {r \in db : r.agg = a /\ r.seq <= j}
      BY <2>2, <2>3, <3>1
    <3> QED
      BY <3>1, <3>2 DEF TableStream
  <2>5. Seqs(a) \subseteq Seqs(a)'
    BY <2>3 DEF Seqs
  <2> QED
    BY <1>1, <2>4, <2>5
<1> QED
  BY <1>3, <1>4

LEMMA ViewNext == Undisturbed /\ ViewInv /\ [Next]_storeVars => ViewInv'
<1> SUFFICES ASSUME Undisturbed, ViewInv, [Next]_storeVars
             PROVE  ViewsHold'
  BY ExactNext DEF ViewInv
<1>1. ASSUME NEW n \in Node, NEW c \in Client, NEW a \in Agg, ReadStream(n, c, a)
      PROVE  ViewsHold'
  <2>1. /\ ExactInv /\ ViewsHold /\ At(n, "idle") /\ UNCHANGED db
        /\ view \in [Client -> [Agg -> [version : Nat, events : SUBSET [seq : Nat, ev : Ev]]]]
    BY <1>1 DEF ViewInv, ExactInv, StoreInv, TypeOK, ReadStream
  <2>2. \A b : Seqs(b)' = Seqs(b) /\ \A k : TableStream(b, k)' = TableStream(b, k)
    BY <2>1 DEF Seqs, TableStream
  <2> SUFFICES ASSUME NEW d \in Client, NEW b \in Agg
               PROVE  /\ 1..view'[d][b].version \subseteq Seqs(b)
                      /\ view'[d][b].events = TableStream(b, view'[d][b].version)
    BY <2>1 DEF ViewsHold, Seqs, TableStream
  <2>3. CASE d = c /\ b = a
    <3>1. /\ view'[d][b].version = version[n][a]
          /\ view'[d][b].events = StreamOf(log[n], a)
      BY <1>1, <2>1, <2>3 DEF ReadStream
    <3> QED
      BY <2>1, <2>3, <3>1, StreamIsTable
  <2>4. CASE ~(d = c /\ b = a)
    <3>1. view'[d][b] = view[d][b]
      BY <1>1, <2>1, <2>4 DEF ReadStream
    <3> QED
      BY <2>1, <3>1 DEF ViewsHold
  <2> QED
    BY <2>3, <2>4
<1>2. ASSUME UNCHANGED <<view, db>>
      PROVE  ViewsHold'
  BY <1>2 DEF ViewInv, ViewsHold, Seqs, TableStream
<1>3. CASE UNCHANGED storeVars
  BY <1>2, <1>3 DEF storeVars
<1>4. ASSUME NEW n \in Node,
             \/ Crash(n) \/ MirrorOk(n) \/ MirrorError(n)
             \/ Start(n) \/ Reload(n) \/ Staged(n)
             \/ \E a \in Agg, e \in Ev : \E op : PushEvent(n, op, a, e)
      PROVE  ViewsHold'
  BY <1>4, ViewsTable
  DEF Crash, MirrorOk, MirrorError, WriteFails, Start, Reload, Staged, PushEvent
<1> QED
  BY <1>1, <1>3, <1>4 DEF Next, StoreStep, AppendEvent, AppendVersioned

\* With one process over the table and writes that succeed, append_versioned()
\* only extends the very stream its caller has read, over crashes that lose the
\* event under way and give its number to another, and over hydrations: the
\* version says it all (EventStore::append_versioned, store.rs:25-27, 77-103).
THEOREM NeverWritesBlind == ASSUME Undisturbed PROVE Spec => NoBlindWrite
<1> DEFINE Extends == \A n \in Node, a \in Agg, e \in Ev, c \in Client :
                        AppendVersioned(n, c, a, e)
                          => view[c][a].events = StreamOf(log[n], a)
<1>1. Init => ViewInv
  <2> SUFFICES ASSUME Init PROVE ViewsHold
    BY ExactInit DEF ViewInv
  <2>1. 1..0 = {} /\ db = {} /\ view = [c \in Client |-> [a \in Agg |-> [version |-> 0, events |-> {}]]]
    BY DEF Init
  <2> QED
    BY <2>1 DEF ViewsHold, Seqs, TableStream
<1>2. ViewInv /\ [Next]_storeVars => ViewInv'
  BY ViewNext
<1>3. ViewInv => Extends
  <2> SUFFICES ASSUME ViewInv, NEW n \in Node, NEW a \in Agg, NEW e \in Ev, NEW c \in Client,
                      AppendVersioned(n, c, a, e)
               PROVE  view[c][a].events = StreamOf(log[n], a)
    OBVIOUS
  <2>1. /\ ExactInv /\ At(n, "idle") /\ view[c][a].version \in Nat
        /\ view[c][a].events = TableStream(a, view[c][a].version)
    BY DEF ViewInv, ViewsHold, ExactInv, StoreInv, TypeOK, AppendVersioned
  <2>2. version[n][a] \in Nat /\ StreamOf(log[n], a) = TableStream(a, version[n][a])
    BY <2>1, StreamIsTable
  <2>3. view[c][a].version = version[n][a]
    BY <2>1, <2>2 DEF AppendVersioned, ExpectedOK
  <2> QED
    BY <2>1, <2>2, <2>3
<1>4. ViewInv /\ [Next]_storeVars => [Extends]_storeVars
  BY <1>3
<1> QED
  BY <1>1, <1>2, <1>4, PTL DEF Spec, NoBlindWrite

-----------------------------------------------------------------------------
(* The composition runs the store as it is.                                *)

LEMMA StoreMoves == [DNext]_deliveryVars => [Next]_storeVars
<1> SUFFICES ASSUME [DNext]_deliveryVars
             PROVE  [Next]_storeVars
  OBVIOUS
<1>1. ASSUME NEW n \in Node, StoreOrCrash(n) \/ StageBegins(n) \/ StageEnds(n)
      PROVE  [Next]_storeVars
  BY <1>1 DEF StoreOrCrash, StageBegins, StageEnds, Next, StoreStep
<1> QED
  BY <1>1 DEF DNext, deliveryVars

\* With an outbox attached the store still is the store: what is proved of it
\* holds of the composition (with_outbox(), postgres_store.rs:77-82).
THEOREM DeliveryIsStore == DSpec => Spec
<1>1. DInit => Init
  BY DEF DInit
<1> QED
  BY <1>1, StoreMoves, PTL DEF DSpec, Spec

-----------------------------------------------------------------------------
(* A row that is being staged is that of the call under way.               *)

OutboxRow == [id : Nat, msg : Ev, delivered : BOOLEAN]

RowsOK ==
  /\ rows \subseteq OutboxRow /\ nextId \in Nat
  /\ staging \in [Node -> OutboxRow \cup {OB!NoRow}]

StagesOwn ==
  \A n \in Node : staging[n] # OB!NoRow
    => At(n, "stage") /\ staging[n].msg = cur[n].ev

StagingInv == StoreInv /\ RowsOK /\ StagesOwn

\* A step of the store that is no crash leaves a call alone that waits for
\* the outbox.
LEMMA StageWaits ==
  ASSUME StoreInv, NEW n \in Node, StoreStep(n), ~Crash(n), NEW m \in Node, At(m, "stage")
  PROVE  pc'[m] = "stage" /\ cur'[m] = cur[m]
<1>1. pc \in [Node -> {"down", "idle", "mirror", "stage"}] /\ cur \in [Node -> Call \cup {NoCall}]
  BY DEF StoreInv, TypeOK
<1>2. At(n, "stage") => UNCHANGED <<pc, cur>>
  BY DEF StoreStep, Start, Reload, AppendEvent, AppendVersioned, ReadStream, MirrorOk,
         MirrorError, At
<1>3. \A q \in Node : q # n => pc'[q] = pc[q] /\ cur'[q] = cur[q]
  <2>1. CASE UNCHANGED <<pc, cur>>
    BY <2>1
  <2>2. CASE \E l : Goto(n, l) /\ UNCHANGED cur
    BY <1>1, <2>2 DEF Goto
  <2>3. CASE \E l, c : Goto(n, l) /\ cur' = [cur EXCEPT ![n] = c]
    BY <1>1, <2>3 DEF Goto
  <2> QED
    BY <2>1, <2>2, <2>3 DEF StoreStep, Start, Reload, AppendEvent, AppendVersioned, PushEvent,
                            ReadStream, MirrorOk, MirrorError, StageOrReturn, Return, Fail
<1> QED
  BY <1>1, <1>2, <1>3 DEF At

\* Relays change no message and nothing that is being staged.
LEMMA RelayKeeps ==
  ASSUME RowsOK, NEW r \in Relay, OB!Relaying(r)
  PROVE  RowsOK' /\ staging' = staging /\ StagedEvents' = StagedEvents
<1>1. staging' = staging /\ nextId' = nextId
  BY DEF OB!Relaying, OB!Fetch, OB!Publish, OB!PublishError, OB!Mark, OB!MarkError,
         OB!RelayCrash
<1>2. rows' = rows \/ \E i : rows' = OB!Marked(i)
  BY DEF OB!Relaying, OB!Fetch, OB!Publish, OB!PublishError, OB!Mark, OB!MarkError,
         OB!RelayCrash
<1>3. ASSUME NEW i, rows' = OB!Marked(i)
      PROVE  rows' \subseteq OutboxRow /\ StagedEvents' = StagedEvents
  <2> DEFINE mark(x) == IF x.id = i THEN [x EXCEPT !.delivered = TRUE] ELSE x
  <2>1. \A x \in rows : mark(x) \in OutboxRow /\ mark(x).msg = x.msg
    BY DEF RowsOK, OutboxRow
  <2>2. rows' = {mark(x) : x \in rows}
    BY <1>3 DEF OB!Marked
  <2> HIDE DEF mark
  <2> QED
    BY <2>1, <2>2 DEF StagedEvents
<1> QED
  BY <1>1, <1>2, <1>3 DEF RowsOK, StagedEvents

LEMMA StagingNext == StagingInv /\ [DNext]_deliveryVars => StagingInv'
<1> SUFFICES ASSUME StagingInv, [DNext]_deliveryVars
             PROVE  RowsOK' /\ StagesOwn'
  BY StoreMoves, NextInv DEF StagingInv
<1>1. /\ StoreInv /\ RowsOK /\ StagesOwn /\ DOMAIN staging = Node
      /\ pc \in [Node -> {"down", "idle", "mirror", "stage"}] /\ cur \in [Node -> Call \cup {NoCall}]
  BY DEF StagingInv, RowsOK, StoreInv, TypeOK
<1>2. ASSUME NEW n \in Node, StoreStep(n), ~Crash(n), UNCHANGED outbox
      PROVE  RowsOK' /\ StagesOwn'
  BY <1>1, <1>2, StageWaits DEF StagesOwn, RowsOK, At, outbox
<1>3. ASSUME NEW n \in Node, Crash(n), staging[n] = OB!NoRow, UNCHANGED outbox
      PROVE  RowsOK' /\ StagesOwn'
  <2>1. \A m \in Node : m # n => pc'[m] = pc[m] /\ cur'[m] = cur[m]
    BY <1>1, <1>3 DEF Crash, Goto
  <2> QED
    BY <1>1, <1>3, <2>1 DEF StagesOwn, RowsOK, At, outbox
<1>4. ASSUME NEW n \in Node, staging[n] # OB!NoRow, rows' \in {rows, rows \cup {staging[n]}},
             staging' = [staging EXCEPT ![n] = OB!NoRow], UNCHANGED nextId,
             \A m \in Node : m # n => pc'[m] = pc[m] /\ cur'[m] = cur[m]
      PROVE  RowsOK' /\ StagesOwn'
  BY <1>1, <1>4 DEF StagesOwn, RowsOK, At
<1>5. ASSUME NEW n \in Node, Crash(n), CrashWhileStaging(n)
      PROVE  RowsOK' /\ StagesOwn'
  <2>1. \A m \in Node : m # n => pc'[m] = pc[m] /\ cur'[m] = cur[m]
    BY <1>1, <1>5 DEF Crash, Goto
  <2> QED
    BY <1>4, <1>5, <2>1 DEF CrashWhileStaging
<1>6. ASSUME NEW n \in Node, StageEnds(n)
      PROVE  RowsOK' /\ StagesOwn'
  <2>1. \A m \in Node : m # n => pc'[m] = pc[m] /\ cur'[m] = cur[m]
    BY <1>1, <1>6 DEF StageEnds, Staged, Return, Goto
  <2> QED
    BY <1>4, <1>6, <2>1 DEF StageEnds, OB!CommitRow, OB!AbortRow
<1>7. ASSUME NEW n \in Node, StageBegins(n)
      PROVE  RowsOK' /\ StagesOwn'
  <2>1. cur[n].ev \in Ev /\ At(n, "stage")
    BY <1>1, <1>7, InCall DEF StageBegins, At, Call
  <2>2. PICK x : x = OB!NewRow(nextId + 1, cur[n].ev)
    OBVIOUS
  <2>3. x \in OutboxRow /\ x.msg = cur[n].ev
    BY <1>1, <2>1, <2>2 DEF OB!NewRow, OutboxRow, RowsOK
  <2>4. /\ staging' = [staging EXCEPT ![n] = x] /\ nextId' = nextId + 1
        /\ UNCHANGED <<rows, pc, cur>>
    BY <1>7, <2>2 DEF StageBegins, OB!DrawId, storeVars
  <2> QED
    BY <1>1, <2>1, <2>3, <2>4 DEF StagesOwn, RowsOK, At
<1>8. ASSUME NEW r \in Relay, OB!Relaying(r), UNCHANGED storeVars
      PROVE  RowsOK' /\ StagesOwn'
  BY <1>1, <1>8, RelayKeeps DEF StagesOwn, At, storeVars
<1>9. CASE UNCHANGED deliveryVars
  BY <1>1, <1>9 DEF StagesOwn, RowsOK, At, deliveryVars, storeVars, outbox
<1> QED
  BY <1>2, <1>3, <1>5, <1>6, <1>7, <1>8, <1>9 DEF DNext, StoreOrCrash

LEMMA StagingInit == DInit => StagingInv
<1> SUFFICES ASSUME DInit PROVE RowsOK /\ StagesOwn
  BY InitInv DEF DInit, StagingInv
<1> QED
  BY DEF DInit, OB!Init, RowsOK, StagesOwn

-----------------------------------------------------------------------------
(* What is staged is in the events table.                                  *)

EventsInTable == {r.ev : r \in db}

DeliveredInv == StagingInv /\ ExactInv /\ StagedIsDurable

\* How a step changes what is staged.
LEMMA StagedChange ==
  ASSUME StagingInv, DNext
  PROVE  \/ StagedEvents' = StagedEvents
         \/ \E n \in Node : /\ At(n, "stage")
                            /\ StagedEvents' = StagedEvents \cup {cur[n].ev}
<1>1. StagesOwn /\ RowsOK
  BY DEF StagingInv
<1>2. ASSUME NEW n \in Node, staging[n] # OB!NoRow, rows' = rows \cup {staging[n]}
      PROVE  At(n, "stage") /\ StagedEvents' = StagedEvents \cup {cur[n].ev}
  BY <1>1, <1>2 DEF StagesOwn, StagedEvents
<1>3. rows' = rows => StagedEvents' = StagedEvents
  BY DEF StagedEvents
<1>4. ASSUME NEW r \in Relay, OB!Relaying(r)
      PROVE  StagedEvents' = StagedEvents
  BY <1>1, <1>4, RelayKeeps
<1> QED
  BY <1>2, <1>3, <1>4 DEF DNext, StoreOrCrash, CrashWhileStaging, StageBegins, StageEnds,
    OB!DrawId, OB!CommitRow, OB!AbortRow, outbox

\* The table keeps its rows.
LEMMA TableGrows == [Next]_storeVars => db \subseteq db'
<1>1. ASSUME NEW n \in Node, Crash(n) \/ MirrorOk(n) \/ MirrorError(n)
      PROVE  db \subseteq db'
  BY <1>1 DEF Crash, MirrorOk, MirrorError, WriteFails
<1>2. ASSUME NEW n \in Node, Start(n) \/ Reload(n) \/ Staged(n)
      PROVE  db' = db
  BY <1>2 DEF Start, Reload, Staged
<1>3. ASSUME NEW n \in Node, NEW a, NEW e, NEW op, PushEvent(n, op, a, e)
      PROVE  db' = db
  BY <1>3 DEF PushEvent
<1>4. ASSUME NEW n \in Node, NEW c, NEW a, ReadStream(n, c, a)
      PROVE  db' = db
  BY <1>4 DEF ReadStream
<1> QED
  BY <1>1, <1>2, <1>3, <1>4 DEF Next, StoreStep, AppendEvent, AppendVersioned, storeVars

LEMMA DeliveredNext == Undisturbed /\ DeliveredInv /\ [DNext]_deliveryVars => DeliveredInv'
<1> SUFFICES ASSUME Undisturbed, DeliveredInv, [DNext]_deliveryVars
             PROVE  StagedIsDurable'
  BY StagingNext, StoreMoves, ExactNext DEF DeliveredInv
<1>1. EventsInTable \subseteq EventsInTable'
  BY StoreMoves, TableGrows DEF EventsInTable
<1>2. ASSUME NEW n \in Node, At(n, "stage")
      PROVE  cur[n].ev \in EventsInTable
  <2>1. RowOf(cur[n]) \in db /\ RowOf(cur[n]).ev = cur[n].ev
    BY <1>2 DEF DeliveredInv, ExactInv, Agrees, RowOf
  <2> QED
    BY <2>1 DEF EventsInTable
<1>3. StagedEvents \subseteq EventsInTable
  BY DEF DeliveredInv, StagedIsDurable, EventsInTable
<1>4. StagedEvents' \subseteq EventsInTable'
  <2>1. CASE UNCHANGED deliveryVars
    BY <1>1, <1>3, <2>1 DEF deliveryVars, outbox, StagedEvents
  <2>2. CASE DNext
    BY <1>1, <1>2, <1>3, <2>2, StagedChange DEF DeliveredInv
  <2> QED
    BY <2>1, <2>2
<1> QED
  BY <1>4 DEF StagedIsDurable, EventsInTable

\* What the bus is told of is in the events table: with one process over the
\* table and writes that succeed, an event is staged only once its row is
\* there, wherever the process dies and however many relays run
\* (append_async(), postgres_store.rs:191-217, outbox.rs:10-11).
THEOREM NothingStagedIsLost == ASSUME Undisturbed PROVE DSpec => []StagedIsDurable
<1>1. DInit => DeliveredInv
  <2> SUFFICES ASSUME DInit PROVE StagedIsDurable
    BY StagingInit, ExactInit DEF DeliveredInv, DInit
  <2> QED
    BY DEF DInit, OB!Init, StagedIsDurable, StagedEvents
<1>2. DeliveredInv /\ [DNext]_deliveryVars => DeliveredInv'
  BY DeliveredNext
<1>3. DeliveredInv => StagedIsDurable
  BY DEF DeliveredInv
<1> QED
  BY <1>1, <1>2, <1>3, PTL DEF DSpec

-----------------------------------------------------------------------------
(* Nothing but a crash keeps an appended event from being staged.          *)

\* Every append goes by way of the outbox, and no statement fails.
AllStaged == Ops \subseteq {"append_async"} /\ HasOutbox /\ ~DbFails

AsyncOnly ==
  \A n \in Node : pc[n] \in {"mirror", "stage"} => cur[n].op = "append_async"

UnderWay == {cur[n].ev : n \in {m \in Node : At(m, "stage")}}

BarCrash == crashes = 0 => EventsInTable \subseteq StagedEvents \cup UnderWay

BarCrashInv == StagingInv /\ AsyncOnly /\ BarCrash

LEMMA AsyncNext ==
  ASSUME AllStaged, StoreInv, AsyncOnly, [Next]_storeVars
  PROVE  AsyncOnly'
<1>1. pc \in [Node -> {"down", "idle", "mirror", "stage"}] /\ cur \in [Node -> Call \cup {NoCall}]
  BY DEF StoreInv, TypeOK
<1>2. ASSUME NEW n \in Node, NEW l, Goto(n, l), l \in {"idle", "down"},
             \A m \in Node : m # n => cur'[m] = cur[m]
      PROVE  AsyncOnly'
  BY <1>1, <1>2 DEF AsyncOnly, Goto
<1>3. ASSUME UNCHANGED <<pc, cur>>
      PROVE  AsyncOnly'
  BY <1>3 DEF AsyncOnly
<1>4. ASSUME NEW n \in Node, Start(n) \/ Reload(n) \/ Crash(n) \/ Staged(n)
      PROVE  AsyncOnly'
  <2>1. Reload(n) => AsyncOnly'
    BY <1>3 DEF Reload
  <2>2. Start(n) => AsyncOnly'
    BY <1>1, <1>2 DEF Start
  <2>3. Crash(n) => AsyncOnly'
    BY <1>1, <1>2 DEF Crash
  <2>4. Staged(n) => AsyncOnly'
    BY <1>1, <1>2 DEF Staged, Return
  <2> QED
    BY <1>4, <2>1, <2>2, <2>3, <2>4
<1>5. ASSUME NEW n \in Node, MirrorOk(n) \/ MirrorError(n)
      PROVE  AsyncOnly'
  <2>1. cur[n].op = "append_async"
    BY <1>5 DEF AsyncOnly, MirrorOk, MirrorError, At
  <2>2. Goto(n, "stage") /\ UNCHANGED cur
    BY <1>5, <2>1 DEF AllStaged, MirrorOk, MirrorError, StageOrReturn
  <2> QED
    BY <1>1, <2>1, <2>2 DEF AsyncOnly, Goto
<1>6. ASSUME NEW n \in Node, NEW a \in Agg, NEW e \in Ev, NEW op, AppendEvent(n, op, a, e)
      PROVE  AsyncOnly'
  <2>1. op = "append_async" /\ Goto(n, "mirror")
    BY <1>6 DEF AllStaged, AppendEvent, PushEvent
  <2>2. cur'[n].op = op /\ \A m \in Node : m # n => cur'[m] = cur[m]
    BY <1>1, <1>6 DEF AppendEvent, PushEvent
  <2> QED
    BY <1>1, <2>1, <2>2 DEF AsyncOnly, Goto
<1> QED
  BY <1>3, <1>4, <1>5, <1>6
  DEF Next, StoreStep, AppendVersioned, ReadStream, AllStaged, storeVars

\* An answered call leaves its event staged.
LEMMA EndsStaged ==
  ASSUME AllStaged, StagingInv, NEW n \in Node, StageEnds(n)
  PROVE  /\ StagedEvents' = StagedEvents \cup {cur[n].ev}
         /\ UNCHANGED <<db, crashes>>
         /\ \A m \in Node : m # n => pc'[m] = pc[m] /\ cur'[m] = cur[m]
<1>1. staging[n] # OB!NoRow /\ rows' = rows \cup {staging[n]} /\ Staged(n)
  BY DEF AllStaged, StageEnds, OB!CommitRow, OB!AbortRow
<1>2. staging[n].msg = cur[n].ev
  BY <1>1 DEF StagingInv, StagesOwn
<1> QED
  BY <1>1, <1>2 DEF StagedEvents, Staged, Return, Goto, StagingInv, StoreInv, TypeOK

LEMMA BarCrashNext ==
  ASSUME AllStaged, BarCrashInv, [DNext]_deliveryVars
  PROVE  BarCrash'
<1> SUFFICES ASSUME crashes' = 0
             PROVE  EventsInTable' \subseteq (StagedEvents \cup UnderWay)'
  BY DEF BarCrash
<1>1. /\ StoreInv /\ StagesOwn /\ RowsOK /\ AsyncOnly
      /\ pc \in [Node -> {"down", "idle", "mirror", "stage"}] /\ cur \in [Node -> Call \cup {NoCall}]
      /\ crashes \in Nat
  BY DEF BarCrashInv, StagingInv, StoreInv, TypeOK
<1>2. ASSUME NEW n \in Node, Crash(n)
      PROVE  FALSE
  BY <1>1, <1>2 DEF Crash
<1>3. crashes = 0
  <2>1. ASSUME NEW n \in Node, \/ Start(n) \/ Reload(n) \/ Staged(n)
                              \/ MirrorOk(n) \/ MirrorError(n)
        PROVE  crashes' = crashes
    BY <2>1 DEF Start, Reload, Staged, MirrorOk, MirrorError
  <2>2. ASSUME NEW n \in Node, NEW a, NEW e, NEW op, PushEvent(n, op, a, e)
        PROVE  crashes' = crashes
    BY <2>2 DEF PushEvent
  <2>3. ASSUME NEW n \in Node, NEW c, NEW a, ReadStream(n, c, a)
        PROVE  crashes' = crashes
    BY <2>3 DEF ReadStream
  <2> QED
    BY <1>2, <2>1, <2>2, <2>3, StoreMoves
    DEF Next, StoreStep, AppendEvent, AppendVersioned, storeVars
<1>4. EventsInTable \subseteq StagedEvents \cup UnderWay
  BY <1>3 DEF BarCrashInv, BarCrash
<1>5. ASSUME NEW n \in Node, MirrorOk(n) \/ MirrorError(n), UNCHANGED outbox
      PROVE  EventsInTable' \subseteq (StagedEvents \cup UnderWay)'
  <2>1. /\ Goto(n, "stage") /\ UNCHANGED cur /\ db' \subseteq db \cup {RowOf(cur[n])}
        /\ StagedEvents' = StagedEvents
    BY <1>1, <1>5 DEF AsyncOnly, AllStaged, MirrorOk, MirrorError, StageOrReturn, At,
                      WriteFails, StagedEvents, outbox
  <2>2. EventsInTable' \subseteq EventsInTable \cup {cur[n].ev}
    BY <2>1 DEF EventsInTable, RowOf
  <2>3. UnderWay' = UnderWay \cup {cur[n].ev}
    BY <1>1, <2>1 DEF UnderWay, At, Goto
  <2> QED
    BY <1>4, <2>1, <2>2, <2>3
<1>6. ASSUME NEW n \in Node, StoreStep(n), ~Crash(n), ~MirrorOk(n), ~MirrorError(n),
             UNCHANGED outbox
      PROVE  EventsInTable' \subseteq (StagedEvents \cup UnderWay)'
  <2>1. UNCHANGED db
    BY <1>6 DEF StoreStep, Start, Reload, AppendEvent, AppendVersioned, PushEvent, ReadStream
  <2>2. UnderWay \subseteq UnderWay'
    BY <1>1, <1>6, StageWaits DEF UnderWay, At
  <2> QED
    BY <1>4, <1>6, <2>1, <2>2 DEF EventsInTable, StagedEvents, outbox
<1>7. ASSUME NEW n \in Node, StageEnds(n)
      PROVE  EventsInTable' \subseteq (StagedEvents \cup UnderWay)'
  <2>1. UnderWay \subseteq UnderWay' \cup {cur[n].ev}
    BY <1>7, EndsStaged DEF UnderWay, At, BarCrashInv
  <2> QED
    BY <1>4, <1>7, <2>1, EndsStaged DEF EventsInTable, BarCrashInv
<1>8. ASSUME UNCHANGED storeVars, StagedEvents' = StagedEvents
      PROVE  EventsInTable' \subseteq (StagedEvents \cup UnderWay)'
  BY <1>4, <1>8 DEF EventsInTable, UnderWay, At, storeVars
<1>9. ASSUME NEW n \in Node, StageBegins(n)
      PROVE  EventsInTable' \subseteq (StagedEvents \cup UnderWay)'
  BY <1>8, <1>9 DEF StageBegins, OB!DrawId, StagedEvents
<1>10. ASSUME NEW r \in Relay, OB!Relaying(r), UNCHANGED storeVars
       PROVE  EventsInTable' \subseteq (StagedEvents \cup UnderWay)'
  BY <1>1, <1>8, <1>10, RelayKeeps
<1>11. CASE UNCHANGED deliveryVars
  BY <1>8, <1>11 DEF deliveryVars, outbox, StagedEvents
<1> QED
  BY <1>2, <1>5, <1>6, <1>7, <1>9, <1>10, <1>11 DEF DNext, StoreOrCrash

\* While no process has died, every event in the table is staged whenever no
\* call is under way: with every append going by way of an attached outbox and
\* no statement that fails, and with any number of processes over the table
\* and numbers that are taken (outbox.rs:6-7, postgres_store.rs:191-217).
THEOREM StagedUnlessCrashed == ASSUME AllStaged PROVE DSpec => []StagedBarCrash
<1>1. DInit => BarCrashInv
  <2> SUFFICES ASSUME DInit PROVE AsyncOnly /\ BarCrash
    BY StagingInit DEF BarCrashInv
  <2> QED
    BY DEF DInit, Init, AsyncOnly, BarCrash, EventsInTable
<1>2. BarCrashInv /\ [DNext]_deliveryVars => BarCrashInv'
  BY StagingNext, StoreMoves, AsyncNext, BarCrashNext DEF BarCrashInv, StagingInv
<1>3. BarCrashInv => StagedBarCrash
  <2> SUFFICES ASSUME BarCrashInv, crashes = 0, \A n \in Node : At(n, "idle")
               PROVE  EventsInTable \subseteq StagedEvents
    BY DEF StagedBarCrash, EveryEventStaged, EventsInTable
  <2>1. UnderWay = {}
    BY DEF UnderWay, At
  <2> QED
    BY <2>1 DEF BarCrashInv, BarCrash
<1> QED
  BY <1>1, <1>2, <1>3, PTL DEF DSpec

-----------------------------------------------------------------------------
(* The outbox of the composition is the outbox of module Outbox.           *)

\* Where a statement may fail, a process that dies is, to the outbox, an insert
\* that committed or failed: the rows, ids and relays behave as in Outbox, so
\* that what is proved there (a row marked delivered was sent) holds of an
\* outbox that is attached to stores (outbox.rs:117-146, postgres_store.rs:203-217).
THEOREM DeliveryIsOutbox == ASSUME DbFails PROVE DSpec => OB!Spec
<1>1. DInit => StagingInv /\ OB!Init
  BY StagingInit DEF DInit
<1>2. StagingInv /\ [DNext]_deliveryVars => StagingInv'
  BY StagingNext
<1>3. StagingInv /\ [DNext]_deliveryVars => [OB!Next]_(OB!outboxVars)
  <2> SUFFICES ASSUME StagingInv, [DNext]_deliveryVars
               PROVE  OB!Next \/ UNCHANGED outbox
    BY DEF OB!outboxVars, outbox
  <2>1. ASSUME NEW n \in Node, StageBegins(n)
        PROVE  OB!Next
    <3>1. cur[n].ev \in Ev
      BY <2>1, InCall DEF StagingInv, StageBegins, At, Call
    <3> QED
      BY <2>1, <3>1 DEF StageBegins, OB!Next, OB!Staging
  <2>2. ASSUME NEW n \in Node, CrashWhileStaging(n) \/ StageEnds(n)
        PROVE  OB!Next
    <3>1. OB!CommitRow(n) \/ OB!AbortRow(n)
      BY <2>2 DEF CrashWhileStaging, StageEnds, OB!CommitRow, OB!AbortRow
    <3> QED
      BY <3>1 DEF OB!Next, OB!Staging
  <2>3. ASSUME NEW r \in Relay, OB!Relaying(r)
        PROVE  OB!Next
    BY <2>3 DEF OB!Next
  <2> QED
    BY <2>1, <2>2, <2>3 DEF DNext, StoreOrCrash, deliveryVars
<1> QED
  BY <1>1, <1>2, <1>3, PTL DEF DSpec, OB!Spec
=============================================================================
