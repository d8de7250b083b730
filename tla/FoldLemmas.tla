----------------------------- MODULE FoldLemmas -----------------------------
(***************************************************************************)
(* What a fold over a sequence computes, for an operator given as a        *)
(* family of functions: F[i] is the effect of the i-th element.  A fold of *)
(* the models is shown to be such a family's chain, and from there on is   *)
(* reasoned about as the last of a sequence of intermediate results.       *)
(***************************************************************************)
EXTENDS Integers, Sequences, FiniteSets, SequencesExt, FiniteSetsExt, FiniteSetTheorems,
        SequenceTheorems, WellFoundedInduction, TLAPS

\* A set of naturals that is not empty has a least element.
LEMMA Least ==
  ASSUME NEW T, T \subseteq Nat, T # {}
  PROVE  \E m \in T : \A y \in T : m <= y
<1>1. PICK m \in T : \A y \in T : ~(<<y, m>> \in OpToRel(<, Nat))
  BY NatLessThanWellFounded, WFMin, Zenon
<1>2. \A y \in T : ~(y < m)
  BY <1>1 DEF OpToRel
<1> QED
  BY <1>2

\* A set of positions that is not empty has a last one.
LEMMA Greatest ==
  ASSUME NEW n \in Nat, NEW S, S \subseteq 0..n, S # {}
  PROVE  Max(S) \in S /\ \A x \in S : x <= Max(S)
<1> DEFINE T == {m \in Nat : \A x \in S : x <= m}
<1>1. T \subseteq Nat /\ n \in T
  OBVIOUS
<1>2. PICK m \in T : \A y \in T : m <= y
  BY <1>1, Least
<1>4. m \in S
  <2>1. SUFFICES ASSUME m \notin S PROVE FALSE
    OBVIOUS
  <2>2. m \in Nat /\ \A x \in S : x <= m /\ x # m /\ x \in 0..n
    BY <2>1
  <2>3. PICK x \in S : TRUE
    OBVIOUS
  <2>4. m - 1 \in Nat /\ m - 1 < m
    BY <2>2, <2>3
  <2>5. \A y \in S : y <= m - 1
    BY <2>2
  <2>6. m - 1 \in T
    BY <2>4, <2>5
  <2> QED
    BY <1>2, <2>4, <2>6
<1>5. m \in S /\ \A x \in S : m >= x
  BY <1>4
<1>6. Max(S) \in S /\ \A x \in S : Max(S) >= x
  BY <1>5 DEF Max
<1> QED
  BY <1>6

LEMMA LastOfPrefix ==
  ASSUME NEW n \in Nat \ {0}
  PROVE  1..n # {} /\ Max(1..n) = n /\ (1..n) \ {n} = 1..(n - 1)
<1>1. n \in 1..n /\ n \in Nat /\ 1..n \subseteq 0..n
  OBVIOUS
<1>2. Max(1..n) \in 1..n /\ \A x \in 1..n : x <= Max(1..n)
  BY <1>1, Greatest
<1>3. Max(1..n) = n
  BY <1>1, <1>2
<1>4. (1..n) \ {n} = 1..(n - 1)
  OBVIOUS
<1> QED
  BY <1>1, <1>3, <1>4

-----------------------------------------------------------------------------
(* The function a fold is defined by, over the subsets of its positions.   *)

Unfolds(g, n, F, base) ==
  /\ g[{}] = base
  /\ \A s \in (SUBSET (1..n)) \ {{}} : g[s] = F[Max(s)][g[s \ {Max(s)}]]

LEMMA UnfoldingStep ==
  ASSUME NEW N \in Nat, NEW V, NEW base \in V, NEW F \in [1..N -> [V -> V]],
         NEW m \in 1..N, NEW g \in [SUBSET (1..(m - 1)) -> V], Unfolds(g, m - 1, F, base)
  PROVE  \E h \in [SUBSET (1..m) -> V] : Unfolds(h, m, F, base)
<1> DEFINE h == [s \in SUBSET (1..m) |-> IF m \in s THEN F[m][g[s \ {m}]] ELSE g[s]]
<1>1. \A s \in SUBSET (1..m) : s \ {m} \in SUBSET (1..(m - 1))
  OBVIOUS
<1>2. \A s \in SUBSET (1..m) : m \notin s => s \in SUBSET (1..(m - 1))
  OBVIOUS
<1>3. h \in [SUBSET (1..m) -> V]
  BY <1>1, <1>2
<1>4. h[{}] = base
  BY DEF Unfolds
<1>5. ASSUME NEW s \in (SUBSET (1..m)) \ {{}}
      PROVE  h[s] = F[Max(s)][h[s \ {Max(s)}]]
  <2>1. Max(s) \in s /\ \A x \in s : x <= Max(s)
    <3>1. m \in Nat /\ s \subseteq 0..m /\ s # {}
      OBVIOUS
    <3> QED
      BY <3>1, Greatest
  <2>2. CASE m \in s
    <3>1. Max(s) = m
      <4>1. Max(s) \in 1..m /\ m <= Max(s)
        BY <2>1, <2>2
      <4> QED
        BY <4>1
    <3>2. m \notin s \ {m} /\ s \ {m} \in SUBSET (1..m)
      OBVIOUS
    <3>3. h[s \ {m}] = g[s \ {m}]
      BY <3>2
    <3>4. h[s] = F[m][g[s \ {m}]]
      BY <2>2
    <3> QED
      BY <3>1, <3>3, <3>4
  <2>3. CASE m \notin s
    <3>1. s \in (SUBSET (1..(m - 1))) \ {{}}
      BY <1>2, <2>3
    <3>2. g[s] = F[Max(s)][g[s \ {Max(s)}]]
      BY <3>1 DEF Unfolds
    <3>3. h[s] = g[s]
      BY <2>3
    <3>4. h[s \ {Max(s)}] = g[s \ {Max(s)}]
      BY <2>3
    <3> QED
      BY <3>2, <3>3, <3>4
  <2> QED
    BY <2>2, <2>3
<1> HIDE DEF h
<1> QED
  BY <1>3, <1>4, <1>5 DEF Unfolds

LEMMA UnfoldingExists ==
  ASSUME NEW N \in Nat, NEW V, NEW base \in V, NEW F \in [1..N -> [V -> V]]
  PROVE  \E g \in [SUBSET (1..N) -> V] : Unfolds(g, N, F, base)
<1> DEFINE Good(m) == \E g \in [SUBSET (1..m) -> V] : Unfolds(g, m, F, base)
           Bad == {m \in 0..N : ~Good(m)}
<1>1. SUFFICES ASSUME Bad # {} PROVE FALSE
  <2>1. N \in 0..N
    OBVIOUS
  <2> HIDE DEF Good
  <2> QED
    BY <2>1 DEF Good
<1>2. PICK m \in Bad : \A y \in Bad : m <= y
  <2>1. Bad \subseteq Nat
    OBVIOUS
  <2> HIDE DEF Bad
  <2> QED
    BY <1>1, <2>1, Least
<1>3. CASE m = 0
  <2> DEFINE g == [s \in SUBSET (1..0) |-> base]
  <2>1. g \in [SUBSET (1..0) -> V] /\ (SUBSET (1..0)) \ {{}} = {} /\ g[{}] = base
    OBVIOUS
  <2> HIDE DEF g
  <2>2. Good(0)
    BY <2>1 DEF Unfolds
  <2> QED
    BY <1>2, <1>3, <2>2
<1>4. CASE m # 0
  <2>1. m \in 1..N /\ m - 1 \in 0..N /\ m - 1 < m
    BY <1>4
  <2>2. m - 1 \notin Bad
    <3> HIDE DEF Bad
    <3>1. m - 1 \in Bad => m <= m - 1
      BY <1>2
    <3> QED
      BY <2>1, <3>1
  <2>3. PICK g \in [SUBSET (1..(m - 1)) -> V] : Unfolds(g, m - 1, F, base)
    BY <2>1, <2>2
  <2>4. Good(m)
    BY <2>1, <2>3, UnfoldingStep
  <2> QED
    BY <2>4
<1> QED
  BY <1>3, <1>4

-----------------------------------------------------------------------------
(* The chain of a fold's intermediate results.                             *)

Chain(r, n, F, base) == r[0] = base /\ \A i \in 1..n : r[i] = F[i][r[i - 1]]

LEMMA ChainExists ==
  ASSUME NEW N \in Nat, NEW V, NEW base \in V, NEW F \in [1..N -> [V -> V]]
  PROVE  \E r \in [0..N -> V] : Chain(r, N, F, base)
<1>1. PICK g \in [SUBSET (1..N) -> V] : Unfolds(g, N, F, base)
  BY UnfoldingExists
<1> DEFINE r == [n \in 0..N |-> g[1..n]]
<1>2. \A n \in 0..N : 1..n \in SUBSET (1..N)
  OBVIOUS
<1>3. r \in [0..N -> V]
  BY <1>2
<1>4. r[0] = base
  BY <1>1 DEF Unfolds
<1>5. ASSUME NEW i \in 1..N PROVE r[i] = F[i][r[i - 1]]
  <2>1. i - 1 \in Nat /\ i - 1 \in 0..N /\ i \in 0..N
    OBVIOUS
  <2>2. 1..i # {} /\ Max(1..i) = i /\ (1..i) \ {i} = 1..(i - 1)
    <3>1. i \in Nat \ {0}
      OBVIOUS
    <3> QED
      BY <3>1, LastOfPrefix
  <2>3. 1..i \in (SUBSET (1..N)) \ {{}}
    BY <1>2, <2>1, <2>2
  <2>4. g[1..i] = F[i][g[1..(i - 1)]]
    BY <1>1, <2>2, <2>3 DEF Unfolds
  <2> QED
    BY <2>1, <2>4
<1> HIDE DEF r
<1> QED
  BY <1>3, <1>4, <1>5 DEF Chain

\* Unfolds, of a function that is not known to take its values in V.
Follows(h, n, V, F, base) ==
  /\ h[{}] = base
  /\ \A s \in (SUBSET (1..n)) \ {{}} :
       h[s \ {Max(s)}] \in V => h[s] = F[Max(s)][h[s \ {Max(s)}]]

\* What unfolds as the fold does ends where the chain of its results ends.
LEMMA UnfoldingIsChain ==
  ASSUME NEW N \in Nat, NEW V, NEW base \in V, NEW F,
         NEW r \in [0..N -> V], Chain(r, N, F, base), NEW h, Follows(h, N, V, F, base)
  PROVE  h[1..N] = r[N]
<1> DEFINE Bad == {m \in 0..N : h[1..m] # r[m]}
<1>1. SUFFICES ASSUME Bad # {} PROVE FALSE
  OBVIOUS
<1>2. PICK m \in Bad : \A y \in Bad : m <= y
  <2>1. Bad \subseteq Nat
    OBVIOUS
  <2> HIDE DEF Bad
  <2> QED
    BY <1>1, <2>1, Least
<1>3. CASE m = 0
  <2>1. 1..0 = {}
    OBVIOUS
  <2> QED
    BY <1>2, <1>3, <2>1 DEF Chain, Follows
<1>4. CASE m # 0
  <2>1. m \in 1..N /\ m - 1 \in 0..N /\ m - 1 < m /\ m - 1 \in Nat
    BY <1>4
  <2>2. h[1..(m - 1)] = r[m - 1]
    BY <1>2, <2>1
  <2>3. 1..m # {} /\ Max(1..m) = m /\ (1..m) \ {m} = 1..(m - 1)
    <3>1. m \in Nat \ {0}
      BY <2>1
    <3> QED
      BY <3>1, LastOfPrefix
  <2>4. 1..m \in (SUBSET (1..N)) \ {{}}
    BY <2>1, <2>3
  <2>5. h[1..m] = F[m][h[1..(m - 1)]]
    <3>1. h[1..(m - 1)] \in V
      BY <2>1, <2>2
    <3> QED
      BY <2>3, <2>4, <3>1 DEF Follows
  <2> QED
    BY <2>1, <2>2, <2>5 DEF Chain
<1> QED
  BY <1>3, <1>4

\* What the fold of one operator needs: the function that unfolds as the fold does
\* exists, and any such function ends where the chain of intermediate results ends.
Foldable(n, V, F, base) ==
  \E g \in [SUBSET (1..n) -> V], r \in [0..n -> V] :
    /\ Unfolds(g, n, F, base) /\ Chain(r, n, F, base)
    /\ \A h : Follows(h, n, V, F, base) => h[1..n] = r[n]

LEMMA FoldRule ==
  ASSUME NEW N \in Nat, NEW V, NEW base \in V, NEW F \in [1..N -> [V -> V]]
  PROVE  Foldable(N, V, F, base)
<1>1. PICK g \in [SUBSET (1..N) -> V] : Unfolds(g, N, F, base)
  BY UnfoldingExists
<1>2. PICK r \in [0..N -> V] : Chain(r, N, F, base)
  BY ChainExists
<1>3. ASSUME NEW h, Follows(h, N, V, F, base)
      PROVE  h[1..N] = r[N]
  BY <1>2, <1>3, UnfoldingIsChain
<1> QED
  BY <1>1, <1>2, <1>3 DEF Foldable

\* Two chains whose effects agree up to a position agree up to it.
LEMMA ChainsAgree ==
  ASSUME NEW n \in Nat, NEW F, NEW G, NEW base, NEW r, NEW q,
         Chain(r, n, F, base), Chain(q, n, G, base),
         \A i \in 1..n : F[i][r[i - 1]] = G[i][r[i - 1]]
  PROVE  \A i \in 0..n : r[i] = q[i]
<1> DEFINE Bad == {m \in 0..n : r[m] # q[m]}
<1>1. SUFFICES ASSUME Bad # {} PROVE FALSE
  OBVIOUS
<1>2. PICK m \in Bad : \A y \in Bad : m <= y
  <2>1. Bad \subseteq Nat
    OBVIOUS
  <2> HIDE DEF Bad
  <2> QED
    BY <1>1, <2>1, Least
<1>3. CASE m = 0
  BY <1>2, <1>3 DEF Chain
<1>4. CASE m # 0
  <2>1. m \in 1..n /\ m - 1 \in 0..n /\ m - 1 < m
    BY <1>4
  <2>2. r[m - 1] = q[m - 1]
    BY <1>2, <2>1
  <2> QED
    BY <2>1, <2>2 DEF Chain
<1> QED
  BY <1>3, <1>4
-----------------------------------------------------------------------------
(* Sums over a finite set, whatever the order in which they are formed.    *)

\* Of a family of finite sets one is the smallest: none of it is one element less.
LEMMA SmallestSet ==
  ASSUME NEW S, IsFiniteSet(S), NEW B \in SUBSET (SUBSET S), B # {}
  PROVE  \E T \in B : \A x \in T : T \ {x} \notin B
<1>1. IsWellFoundedOn(StrictSubsetOrdering(S), FiniteSubsetsOf(S))
  BY FS_StrictSubsetOrderingWellFounded
<1>2. B \subseteq FiniteSubsetsOf(S)
  BY FS_Subset DEF FiniteSubsetsOf
<1>3. PICK T \in B : \A y \in B : ~(<<y, T>> \in StrictSubsetOrdering(S))
  BY <1>1, <1>2, WFMin, Zenon
<1>4. ASSUME NEW x \in T, T \ {x} \in B PROVE FALSE
  <2>1. <<T \ {x}, T>> \in StrictSubsetOrdering(S)
    BY <1>4 DEF StrictSubsetOrdering
  <2> QED
    BY <1>3, <1>4, <2>1
<1> QED
  BY <1>4

\* g gives every subset of S its sum, formed in any order.
SumsUp(g, S, f) ==
  /\ g[{}] = 0
  /\ \A s \in SUBSET S : \A x \in s : g[s] = f[x] + g[s \ {x}]

LEMMA SumGrows ==
  ASSUME NEW S, NEW f \in [S -> Int], NEW T \in SUBSET S, NEW x \in T,
         NEW g \in [SUBSET (T \ {x}) -> Int], SumsUp(g, T \ {x}, f)
  PROVE  \E h \in [SUBSET T -> Int] : SumsUp(h, T, f)
<1> DEFINE h == [s \in SUBSET T |-> IF x \in s THEN f[x] + g[s \ {x}] ELSE g[s]]
<1>1. \A s \in SUBSET T : /\ s \ {x} \in SUBSET (T \ {x})
                          /\ x \notin s => s \in SUBSET (T \ {x}) /\ s \ {x} = s
  OBVIOUS
<1>2. f[x] \in Int /\ \A y \in T : f[y] \in Int
  OBVIOUS
<1>3. h \in [SUBSET T -> Int]
  BY <1>1, <1>2
<1>4. h[{}] = 0
  BY DEF SumsUp
<1>5. ASSUME NEW s \in SUBSET T, NEW y \in s PROVE h[s] = f[y] + h[s \ {y}]
  <2>1. s \ {y} \in SUBSET T
    OBVIOUS
  <2>2. CASE x \notin s
    <3>1. h[s] = g[s] /\ h[s \ {y}] = g[s \ {y}] /\ s \in SUBSET (T \ {x})
      BY <1>1, <2>1, <2>2
    <3> QED
      BY <3>1 DEF SumsUp
  <2>3. CASE y = x
    <3>1. h[s] = f[x] + g[s \ {x}] /\ h[s \ {x}] = g[s \ {x}]
      BY <2>1, <2>3
    <3> QED
      BY <2>3, <3>1
  <2>4. CASE x \in s /\ y # x
    <3>1. h[s] = f[x] + g[s \ {x}] /\ h[s \ {y}] = f[x] + g[(s \ {y}) \ {x}]
      BY <2>1, <2>4
    <3>2. s \ {x} \in SUBSET (T \ {x}) /\ y \in s \ {x} /\ (s \ {x}) \ {y} = (s \ {y}) \ {x}
      BY <2>4
    <3>3. g[s \ {x}] = f[y] + g[(s \ {y}) \ {x}]
      <4>1. g[s \ {x}] = f[y] + g[(s \ {x}) \ {y}]
        BY <3>2 DEF SumsUp
      <4> QED
        BY <3>2, <4>1
    <3>4. (s \ {y}) \ {x} \in SUBSET (T \ {x}) /\ g[(s \ {y}) \ {x}] \in Int
      OBVIOUS
    <3> QED
      BY <1>2, <3>1, <3>3, <3>4
  <2> QED
    BY <2>2, <2>3, <2>4
<1> HIDE DEF h
<1> QED
  BY <1>3, <1>4, <1>5 DEF SumsUp

LEMMA SumExists ==
  ASSUME NEW S, IsFiniteSet(S), NEW f \in [S -> Int]
  PROVE  \E g \in [SUBSET S -> Int] : SumsUp(g, S, f)
<1> DEFINE Good(T) == \E g \in [SUBSET T -> Int] : SumsUp(g, T, f)
           Bad == {T \in SUBSET S : ~Good(T)}
<1>1. SUFFICES ASSUME Bad # {} PROVE FALSE
  <2>1. S \in SUBSET S
    OBVIOUS
  <2> HIDE DEF Good
  <2> QED
    BY <2>1 DEF Good
<1>2. PICK T \in Bad : \A x \in T : T \ {x} \notin Bad
  <2>1. Bad \in SUBSET (SUBSET S)
    OBVIOUS
  <2> HIDE DEF Bad
  <2> QED
    BY <1>1, <2>1, SmallestSet
<1>3. T \in SUBSET S /\ ~Good(T) /\ \A x \in T : Good(T \ {x})
  <2> HIDE DEF Good
  <2> QED
    BY <1>2
<1>4. CASE T = {}
  <2> DEFINE g == [s \in SUBSET {} |-> 0]
  <2>1. g \in [SUBSET {} -> Int] /\ g[{}] = 0 /\ \A s \in SUBSET {} : s = {}
    OBVIOUS
  <2> HIDE DEF g
  <2>2. SumsUp(g, {}, f)
    BY <2>1 DEF SumsUp
  <2> QED
    BY <1>3, <1>4, <2>1, <2>2
<1>5. CASE T # {}
  <2>1. PICK x \in T : Good(T \ {x})
    BY <1>3, <1>5
  <2>2. Good(T)
    BY <1>3, <2>1, SumGrows
  <2> QED
    BY <1>3, <2>2
<1> QED
  BY <1>4, <1>5

\* w forms its sums by taking some element, wherever it has the sum of the others.
Gathers(w, S, f) ==
  /\ w[{}] = 0
  /\ \A s \in (SUBSET S) \ {{}} : \E x \in s : w[s \ {x}] \in Int => w[s] = f[x] + w[s \ {x}]

LEMMA GatheredIsSum ==
  ASSUME NEW S, IsFiniteSet(S), NEW f \in [S -> Int],
         NEW g \in [SUBSET S -> Int], SumsUp(g, S, f), NEW w, Gathers(w, S, f)
  PROVE  \A s \in SUBSET S : w[s] = g[s]
<1> DEFINE Bad == {s \in SUBSET S : w[s] # g[s]}
<1>1. SUFFICES ASSUME Bad # {} PROVE FALSE
  OBVIOUS
<1>2. PICK s \in Bad : \A x \in s : s \ {x} \notin Bad
  <2>1. Bad \in SUBSET (SUBSET S)
    OBVIOUS
  <2> HIDE DEF Bad
  <2> QED
    BY <1>1, <2>1, SmallestSet
<1>3. s \in SUBSET S /\ w[s] # g[s] /\ \A x \in s : w[s \ {x}] = g[s \ {x}] /\ g[s \ {x}] \in Int
  BY <1>2
<1>4. s # {}
  BY <1>3 DEF Gathers, SumsUp
<1>5. PICK x \in s : w[s] = f[x] + w[s \ {x}]
  BY <1>3, <1>4 DEF Gathers
<1> QED
  BY <1>3, <1>5 DEF SumsUp

Sum(f, S) == (CHOOSE g \in [SUBSET S -> Int] : SumsUp(g, S, f))[S]

\* The sums of the subsets are those of one function.
LEMMA SumsAre ==
  ASSUME NEW S, IsFiniteSet(S), NEW f \in [S -> Int],
         NEW g \in [SUBSET S -> Int], SumsUp(g, S, f)
  PROVE  \A s \in SUBSET S : Sum(f, s) = g[s]
<1> SUFFICES ASSUME NEW s \in SUBSET S PROVE Sum(f, s) = g[s]
  OBVIOUS
<1> DEFINE fs == [x \in s |-> f[x]]
<1>1. IsFiniteSet(s)
  BY FS_Subset
<1>2. fs \in [s -> Int] /\ \A x \in s : fs[x] = f[x]
  OBVIOUS
<1> HIDE DEF fs
<1>3. PICK q \in [SUBSET s -> Int] : SumsUp(q, s, fs)
  BY <1>1, <1>2, SumExists
<1>4. SumsUp(q, s, f)
  BY <1>2, <1>3 DEF SumsUp
<1>5. PICK p \in [SUBSET s -> Int] : SumsUp(p, s, f) /\ Sum(f, s) = p[s]
  BY <1>4 DEF Sum
<1>6. SumsUp(p, s, fs)
  BY <1>2, <1>5 DEF SumsUp
<1>7. Gathers(g, s, fs)
  <2>1. g[{}] = 0
    BY DEF SumsUp
  <2>2. ASSUME NEW t \in (SUBSET s) \ {{}} PROVE \E x \in t : g[t] = fs[x] + g[t \ {x}]
    <3>1. PICK x \in t : TRUE
      OBVIOUS
    <3>2. t \in SUBSET S /\ x \in s
      OBVIOUS
    <3>3. g[t] = f[x] + g[t \ {x}] /\ fs[x] = f[x]
      BY <1>2, <3>2 DEF SumsUp
    <3> QED
      BY <3>3
  <2> QED
    BY <2>1, <2>2 DEF Gathers
<1>8. \A t \in SUBSET s : g[t] = p[t]
  BY <1>1, <1>2, <1>5, <1>6, <1>7, GatheredIsSum
<1> QED
  BY <1>5, <1>8

\* A sum, one element at a time.
LEMMA SumOne ==
  ASSUME NEW S, IsFiniteSet(S), NEW f \in [S -> Int]
  PROVE  /\ Sum(f, {}) = 0
         /\ \A s \in SUBSET S : Sum(f, s) \in Int
         /\ \A s \in SUBSET S : \A x \in s : Sum(f, s) = f[x] + Sum(f, s \ {x})
<1>1. PICK g \in [SUBSET S -> Int] : SumsUp(g, S, f)
  BY SumExists
<1>2. \A s \in SUBSET S : Sum(f, s) = g[s]
  BY <1>1, SumsAre
<1> QED
  BY <1>1, <1>2 DEF SumsUp

\* What is gathered one element at a time is the sum.
LEMMA GatheredSum ==
  ASSUME NEW S, IsFiniteSet(S), NEW f \in [S -> Int], NEW w, Gathers(w, S, f)
  PROVE  \A s \in SUBSET S : w[s] = Sum(f, s)
<1>1. PICK g \in [SUBSET S -> Int] : SumsUp(g, S, f)
  BY SumExists
<1>2. \A s \in SUBSET S : w[s] = g[s]
  BY <1>1, GatheredIsSum
<1>3. \A s \in SUBSET S : Sum(f, s) = g[s]
  BY <1>1, SumsAre
<1> QED
  BY <1>2, <1>3

\* A sum asks a function for its values on the summed set only.
LEMMA SumRestricted ==
  ASSUME NEW S, IsFiniteSet(S), NEW f \in [S -> Int], NEW s \in SUBSET S,
         NEW h \in [s -> Int], \A x \in s : h[x] = f[x]
  PROVE  Sum(h, s) = Sum(f, s)
<1>1. PICK g \in [SUBSET S -> Int] : SumsUp(g, S, f)
  BY SumExists
<1>2. PICK k : k = [t \in SUBSET s |-> g[t]]
  OBVIOUS
<1>3. \A t \in SUBSET s : t \in SUBSET S /\ k[t] = g[t]
  BY <1>2
<1>4. k \in [SUBSET s -> Int] /\ SumsUp(k, s, h)
  <2>1. k \in [SUBSET s -> Int] /\ k[{}] = 0
    BY <1>1, <1>2 DEF SumsUp
  <2>2. ASSUME NEW t \in SUBSET s, NEW x \in t PROVE k[t] = h[x] + k[t \ {x}]
    <3>1. t \ {x} \in SUBSET s /\ t \in SUBSET S /\ h[x] = f[x]
      OBVIOUS
    <3>2. g[t] = f[x] + g[t \ {x}]
      BY <1>1, <3>1 DEF SumsUp
    <3> QED
      BY <1>3, <3>1, <3>2
  <2> QED
    BY <2>1, <2>2 DEF SumsUp
<1>5. Sum(h, s) = k[s]
  <2>1. IsFiniteSet(s)
    BY FS_Subset
  <2>2. \A t \in SUBSET s : Sum(h, t) = k[t]
    BY <1>4, <2>1, SumsAre
  <2> QED
    BY <2>2
<1>6. Sum(f, s) = g[s]
  BY <1>1, SumsAre
<1> QED
  BY <1>3, <1>5, <1>6

LEMMA SumDifference ==
  ASSUME NEW S, IsFiniteSet(S), NEW f \in [S -> Int], NEW h \in [S -> Int], NEW k \in [S -> Int],
         NEW s \in SUBSET S, \A x \in s : k[x] = f[x] - h[x]
  PROVE  Sum(k, s) = Sum(f, s) - Sum(h, s)
<1> DEFINE Bad == {t \in SUBSET s : Sum(k, t) # Sum(f, t) - Sum(h, t)}
<1>1. SUFFICES ASSUME Bad # {} PROVE FALSE
  OBVIOUS
<1>2. PICK t \in Bad : \A x \in t : t \ {x} \notin Bad
  <2>1. Bad \in SUBSET (SUBSET s) /\ IsFiniteSet(s)
    BY FS_Subset
  <2> HIDE DEF Bad
  <2> QED
    BY <1>1, <2>1, SmallestSet
<1>3. t \in SUBSET S /\ \A x \in t : t \ {x} \in SUBSET S
  OBVIOUS
<1>4. /\ Sum(f, {}) = 0 /\ Sum(h, {}) = 0 /\ Sum(k, {}) = 0
      /\ \A x \in t : /\ Sum(f, t) = f[x] + Sum(f, t \ {x}) /\ Sum(f, t \ {x}) \in Int
                      /\ Sum(h, t) = h[x] + Sum(h, t \ {x}) /\ Sum(h, t \ {x}) \in Int
                      /\ Sum(k, t) = k[x] + Sum(k, t \ {x})
  <2>1. \A u \in [S -> Int] :
          /\ Sum(u, {}) = 0
          /\ \A x \in t : Sum(u, t) = u[x] + Sum(u, t \ {x}) /\ Sum(u, t \ {x}) \in Int
    <3>1. SUFFICES ASSUME NEW u \in [S -> Int]
                   PROVE  /\ Sum(u, {}) = 0
                          /\ \A x \in t : Sum(u, t) = u[x] + Sum(u, t \ {x}) /\ Sum(u, t \ {x}) \in Int
      OBVIOUS
    <3> QED
      BY <1>3, SumOne
  <2> QED
    BY <2>1
<1>5. t # {}
  BY <1>2, <1>4
<1>6. PICK x \in t : TRUE
  BY <1>5
<1>7. Sum(k, t \ {x}) = Sum(f, t \ {x}) - Sum(h, t \ {x})
  BY <1>2
<1>8. k[x] = f[x] - h[x] /\ f[x] \in Int /\ h[x] \in Int
  BY <1>3
<1> QED
  BY <1>2, <1>4, <1>7, <1>8

LEMMA SumNothing ==
  ASSUME NEW S, IsFiniteSet(S), NEW f \in [S -> Int], NEW s \in SUBSET S, \A x \in s : f[x] = 0
  PROVE  Sum(f, s) = 0
<1>1. \A x \in s : f[x] = f[x] - f[x]
  OBVIOUS
<1>2. Sum(f, s) = Sum(f, s) - Sum(f, s)
  BY <1>1, SumDifference
<1>3. Sum(f, s) \in Int
  BY SumOne
<1> QED
  BY <1>2, <1>3

LEMMA SumSame ==
  ASSUME NEW S, IsFiniteSet(S), NEW f \in [S -> Int], NEW h \in [S -> Int],
         NEW s \in SUBSET S, \A x \in s : f[x] = h[x]
  PROVE  Sum(f, s) = Sum(h, s)
<1> DEFINE none == [x \in S |-> 0]
<1>1. none \in [S -> Int] /\ \A x \in s : none[x] = 0 /\ f[x] = h[x] - none[x]
  OBVIOUS
<1> HIDE DEF none
<1>2. Sum(none, s) = 0
  BY <1>1, SumNothing
<1>3. Sum(f, s) = Sum(h, s) - Sum(none, s)
  BY <1>1, SumDifference
<1>4. Sum(h, s) \in Int
  BY SumOne
<1> QED
  BY <1>2, <1>3, <1>4

LEMMA SumOpposite ==
  ASSUME NEW S, IsFiniteSet(S), NEW f \in [S -> Int], NEW h \in [S -> Int],
         NEW s \in SUBSET S, \A x \in s : f[x] = -h[x]
  PROVE  Sum(f, s) = -Sum(h, s)
<1> DEFINE none == [x \in S |-> 0]
<1>1. none \in [S -> Int] /\ \A x \in s : none[x] = 0 /\ f[x] = none[x] - h[x]
  OBVIOUS
<1> HIDE DEF none
<1>2. Sum(none, s) = 0
  BY <1>1, SumNothing
<1>3. Sum(f, s) = Sum(none, s) - Sum(h, s)
  BY <1>1, SumDifference
<1>4. Sum(h, s) \in Int
  BY SumOne
<1> QED
  BY <1>2, <1>3, <1>4

LEMMA SumChanged ==
  ASSUME NEW S, IsFiniteSet(S), NEW f \in [S -> Int], NEW h \in [S -> Int],
         NEW s \in SUBSET S, NEW x \in s, \A y \in s \ {x} : f[y] = h[y]
  PROVE  Sum(f, s) = Sum(h, s) + (f[x] - h[x])
<1>1. s \ {x} \in SUBSET S /\ f[x] \in Int /\ h[x] \in Int
  OBVIOUS
<1>2. Sum(f, s) = f[x] + Sum(f, s \ {x}) /\ Sum(h, s) = h[x] + Sum(h, s \ {x})
  BY SumOne
<1>3. Sum(h, s \ {x}) \in Int
  BY <1>1, SumOne
<1>4. Sum(f, s \ {x}) = Sum(h, s \ {x})
  BY <1>1, SumSame
<1> QED
  BY <1>1, <1>2, <1>3, <1>4

LEMMA SumOfParts ==
  ASSUME NEW S, IsFiniteSet(S), NEW f \in [S -> Int],
         NEW s \in SUBSET S, NEW t \in SUBSET S, s \cap t = {}
  PROVE  Sum(f, s \cup t) = Sum(f, s) + Sum(f, t)
<1> DEFINE Bad == {u \in SUBSET t : Sum(f, s \cup u) # Sum(f, s) + Sum(f, u)}
<1>1. SUFFICES ASSUME Bad # {} PROVE FALSE
  OBVIOUS
<1>2. PICK u \in Bad : \A x \in u : u \ {x} \notin Bad
  <2>1. Bad \in SUBSET (SUBSET t) /\ IsFiniteSet(t)
    BY FS_Subset
  <2> HIDE DEF Bad
  <2> QED
    BY <1>1, <2>1, SmallestSet
<1>3. /\ Sum(f, {}) = 0
      /\ \A v \in SUBSET S : Sum(f, v) \in Int
      /\ \A v \in SUBSET S : \A x \in v : Sum(f, v) = f[x] + Sum(f, v \ {x})
  BY SumOne
<1>4. u # {}
  <2>1. SUFFICES ASSUME u = {} PROVE Sum(f, s \cup u) = Sum(f, s) + Sum(f, u)
    BY <1>2
  <2>2. s \cup u = s
    BY <2>1
  <2>3. Sum(f, u) = 0 /\ Sum(f, s) \in Int
    BY <1>3, <2>1
  <2>4. Sum(f, s \cup u) = Sum(f, s)
    BY <2>2, Zenon
  <2> QED
    BY <2>3, <2>4
<1>5. PICK x \in u : TRUE
  BY <1>4
<1>6. (s \cup u) \ {x} = s \cup (u \ {x}) /\ u \in SUBSET S /\ s \cup u \in SUBSET S /\ x \in s \cup u
  OBVIOUS
<1>7. Sum(f, s \cup (u \ {x})) = Sum(f, s) + Sum(f, u \ {x})
  BY <1>2
<1>8. Sum(f, s \cup u) = f[x] + Sum(f, s \cup (u \ {x}))
  <2>1. Sum(f, s \cup u) = f[x] + Sum(f, (s \cup u) \ {x})
    BY <1>3, <1>6
  <2> QED
    BY <1>6, <2>1
<1>9. Sum(f, u) = f[x] + Sum(f, u \ {x}) /\ Sum(f, u \ {x}) \in Int /\ Sum(f, s) \in Int /\ f[x] \in Int
  BY <1>3, <1>6
<1> QED
  BY <1>2, <1>7, <1>8, <1>9

-----------------------------------------------------------------------------
(* Finite sets in a total order.                                          *)

\* R puts any two elements of S in an order.
Ranks(R, S) ==
  /\ \A x, y \in S : x # y => <<x, y>> \in R \/ <<y, x>> \in R
  /\ \A x, y, z \in S : <<x, y>> \in R /\ <<y, z>> \in R => <<x, z>> \in R

\* Of finitely many things in a total order one comes last.
LEMMA LastExists ==
  ASSUME NEW S, IsFiniteSet(S), S # {}, NEW R,
         Ranks(R, S)
  PROVE  \E x \in S : \A y \in S \ {x} : <<y, x>> \in R
<1> DEFINE Ends(T) == \E x \in T : \A y \in T \ {x} : <<y, x>> \in R
           Bad == {T \in SUBSET S : T # {} /\ ~Ends(T)}
<1>1. SUFFICES ASSUME Bad # {} PROVE FALSE
  <2>1. S \in SUBSET S
    OBVIOUS
  <2>2. Ends(S)
    BY <2>1
  <2> QED
    BY <2>2
<1>2. PICK T \in Bad : \A x \in T : T \ {x} \notin Bad
  <2>1. Bad \in SUBSET (SUBSET S)
    OBVIOUS
  <2> HIDE DEF Bad
  <2> QED
    BY <1>1, <2>1, SmallestSet
<1>3. PICK x \in T : TRUE
  BY <1>2
<1>4. T \in SUBSET S /\ T \ {x} \in SUBSET S /\ ~Ends(T) /\ (T \ {x} = {} \/ Ends(T \ {x}))
  BY <1>2
<1>5. CASE T \ {x} = {}
  BY <1>3, <1>4, <1>5
<1>6. CASE Ends(T \ {x})
  <2>1. PICK l \in T \ {x} : \A y \in (T \ {x}) \ {l} : <<y, l>> \in R
    BY <1>6
  <2>2. x \in S /\ l \in S /\ l # x
    BY <1>4
  <2>3. CASE <<x, l>> \in R
    <3>1. \A y \in T \ {l} : <<y, l>> \in R
      BY <2>1, <2>3
    <3> QED
      BY <1>4, <3>1
  <2>4. CASE <<l, x>> \in R
    <3>1. ASSUME NEW y \in T \ {x} PROVE <<y, x>> \in R
      <4>1. y = l \/ <<y, l>> \in R
        BY <2>1
      <4>2. y \in S
        BY <1>4
      <4> QED
        BY <2>2, <2>4, <4>1, <4>2 DEF Ranks
    <3> QED
      BY <1>4, <3>1
  <2> QED
    BY <2>2, <2>3, <2>4 DEF Ranks
<1> QED
  BY <1>4, <1>5, <1>6

\* Finitely many things in a total order can be listed in it, each once.
LEMMA SortedExists ==
  ASSUME NEW S, IsFiniteSet(S), NEW R,
         Ranks(R, S)
  PROVE  \E ps \in [1..Cardinality(S) -> S] :
           Range(ps) = S /\ \A i, j \in DOMAIN ps : i < j => <<ps[i], ps[j]>> \in R
<1> DEFINE Lists(ps, T) ==
             Range(ps) = T /\ \A i, j \in DOMAIN ps : i < j => <<ps[i], ps[j]>> \in R
           Listed(T) == \E ps \in [1..Cardinality(T) -> T] : Lists(ps, T)
           Bad == {T \in SUBSET S : ~Listed(T)}
<1>1. SUFFICES ASSUME Bad # {} PROVE FALSE
  <2>1. S \in SUBSET S
    OBVIOUS
  <2>2. Listed(S)
    <3> HIDE DEF Listed
    <3> QED
      BY <2>1
  <2> QED
    BY <2>2
<1>2. PICK T \in Bad : \A x \in T : T \ {x} \notin Bad
  <2>1. Bad \in SUBSET (SUBSET S)
    OBVIOUS
  <2> HIDE DEF Bad
  <2> QED
    BY <1>1, <2>1, SmallestSet
<1>3. T \in SUBSET S /\ ~Listed(T) /\ IsFiniteSet(T)
  <2>1. T \in SUBSET S /\ ~Listed(T)
    <3> HIDE DEF Listed
    <3> QED
      BY <1>2
  <2>2. IsFiniteSet(T)
    BY <2>1, FS_Subset
  <2> QED
    BY <2>1, <2>2
<1>4. CASE T = {}
  <2>1. Cardinality(T) = 0
    BY <1>4, FS_EmptySet
  <2>2. 1..0 = {}
    OBVIOUS
  <2>3. PICK ps : ps = [i \in 1..0 |-> i]
    OBVIOUS
  <2>4. DOMAIN ps = {} /\ ps \in [1..Cardinality(T) -> T]
    BY <2>1, <2>2, <2>3
  <2>5. Lists(ps, T)
    BY <1>4, <2>4 DEF Range
  <2> QED
    BY <1>3, <2>4, <2>5
<1>5. CASE T # {}
  <2>1. PICK l \in T : \A y \in T \ {l} : <<y, l>> \in R
    <3>1. Ranks(R, T)
      BY <1>3 DEF Ranks
    <3> QED
      BY <1>3, <1>5, <3>1, LastExists
  <2>2. Listed(T \ {l})
    <3> HIDE DEF Listed
    <3>1. T \ {l} \in SUBSET S
      BY <1>3
    <3> QED
      BY <1>2, <3>1
  <2>3. PICK n \in Nat : Cardinality(T \ {l}) = n /\ Cardinality(T) = n + 1
    <3>1. Cardinality(T \ {l}) = Cardinality(T) - 1 /\ Cardinality(T) \in Nat
      BY <1>3, FS_RemoveElement, FS_CardinalityType
    <3>2. IsFiniteSet(T \ {l})
      BY <1>3, FS_RemoveElement
    <3>3. Cardinality(T \ {l}) \in Nat
      BY <3>2, FS_CardinalityType
    <3> QED
      BY <3>1, <3>3
  <2>4. PICK qs \in [1..n -> T \ {l}] : Lists(qs, T \ {l})
    BY <2>2, <2>3
  <2>5. PICK ps : ps = [i \in 1..(n + 1) |-> IF i = n + 1 THEN l ELSE qs[i]]
    OBVIOUS
  <2>6. /\ DOMAIN ps = 1..(n + 1) /\ ps[n + 1] = l /\ n + 1 \in 1..(n + 1)
        /\ \A i \in 1..n : i \in 1..(n + 1) /\ ps[i] = qs[i] /\ qs[i] \in T \ {l}
    BY <2>4, <2>5
  <2>7. \A i \in 1..(n + 1) : i = n + 1 \/ i \in 1..n
    OBVIOUS
  <2>8. ps \in [1..(n + 1) -> T]
    BY <2>5, <2>6, <2>7
  <2>9. Range(ps) = T
    <3>1. DOMAIN qs = 1..n /\ {qs[i] : i \in 1..n} = T \ {l}
      BY <2>4 DEF Range
    <3> QED
      BY <2>6, <2>7, <3>1 DEF Range
  <2>10. ASSUME NEW i \in 1..(n + 1), NEW j \in 1..(n + 1), i < j PROVE <<ps[i], ps[j]>> \in R
    <3>1. i \in 1..n
      BY <2>10
    <3>2. CASE j = n + 1
      BY <2>1, <2>6, <3>1, <3>2
    <3>3. CASE j \in 1..n
      <4>1. DOMAIN qs = 1..n
        BY <2>4
      <4>2. <<qs[i], qs[j]>> \in R
        BY <2>4, <2>10, <3>1, <3>3, <4>1
      <4> QED
        BY <2>6, <3>1, <3>3, <4>2
    <3> QED
      BY <2>7, <3>2, <3>3
  <2>11. Lists(ps, T)
    BY <2>6, <2>9, <2>10
  <2> QED
    BY <1>3, <2>3, <2>8, <2>11
<1> QED
  BY <1>4, <1>5

\* R never puts two elements of S in both orders.
OneWay(R, S) == \A x, y \in S : <<x, y>> \in R => x # y /\ <<y, x>> \notin R

\* q is in the order of R, and as much of S as comes first in it.
InOrder(q, R) == \A i, j \in DOMAIN q : i < j => <<q[i], q[j]>> \in R
Leads(q, S, R) ==
  /\ InOrder(q, R)
  /\ \A x \in S : x \in Range(q) \/ \A i \in DOMAIN q : <<q[i], x>> \in R

\* f lists the n elements of S in the order of R; q lists the first c of them.
ListsIn(f, n, S, R) == f \in [1..n -> S] /\ Range(f) = S /\ InOrder(f, R)
BeginsIn(q, c, S, R) == q \in [1..c -> S] /\ Leads(q, S, R)
StartsWith(f, n, q, c) == c <= n /\ \A i \in 1..c : q[i] = f[i]

\* What comes first is how a listing begins.
LEMMA ListingBegins ==
  ASSUME NEW S, NEW R, OneWay(R, S), NEW n \in Nat, NEW c \in Nat,
         NEW f, ListsIn(f, n, S, R), NEW q, BeginsIn(q, c, S, R)
  PROVE  StartsWith(f, n, q, c)
<1> f \in [1..n -> S] /\ Range(f) = S /\ InOrder(f, R)
  BY DEF ListsIn
<1> q \in [1..c -> S] /\ Leads(q, S, R)
  BY DEF BeginsIn
<1> SUFFICES c <= n /\ \A i \in 1..c : q[i] = f[i]
  BY DEF StartsWith
<1> DEFINE Bad == {i \in 1..c : i > n \/ q[i] # f[i]}
<1>1. CASE Bad = {}
  <2>1. c \notin Bad
    BY <1>1
  <2> QED
    BY <1>1, <2>1
<1>2. CASE Bad # {}
  <2>1. PICK i \in Bad : \A k \in Bad : i <= k
    <3>1. Bad \subseteq Nat
      OBVIOUS
    <3> HIDE DEF Bad
    <3> QED
      BY <1>2, <3>1, Least
  <2>2. \A k \in 1..(i - 1) : k \in 1..c /\ k <= n /\ q[k] = f[k]
    BY <2>1
  <2>3. PICK j \in 1..n : f[j] = q[i]
    <3>1. q[i] \in Range(f)
      OBVIOUS
    <3> QED
      BY <3>1 DEF Range
  <2>4. i \in 1..c /\ DOMAIN q = 1..c
    OBVIOUS
  <2>5. j >= i
    <3>1. ASSUME j < i PROVE FALSE
      <4>1. q[j] = f[j] /\ j \in 1..c
        BY <2>2, <2>4, <3>1
      <4>2. <<q[j], q[i]>> \in R
        BY <2>4, <3>1, <4>1 DEF Leads, InOrder
      <4> QED
        BY <2>3, <2>4, <4>1, <4>2 DEF OneWay
    <3> QED
      BY <2>4, <3>1
  <2>6. i <= n /\ f[i] # q[i] /\ j > i
    BY <2>1, <2>3, <2>4, <2>5
  <2>7. <<f[i], q[i]>> \in R /\ f[i] \in S /\ q[i] \in S
    <3>1. i \in DOMAIN f /\ j \in DOMAIN f
      BY <2>3, <2>4, <2>6
    <3>2. <<f[i], f[j]>> \in R
      BY <2>6, <3>1 DEF InOrder
    <3> QED
      BY <2>3, <2>4, <3>1, <3>2
  <2>8. CASE f[i] \in Range(q)
    <3>1. PICK m \in 1..c : q[m] = f[i]
      BY <2>4, <2>8 DEF Range
    <3>2. CASE m < i
      <4>1. f[m] = f[i] /\ m \in 1..n /\ i \in 1..n
        BY <2>2, <2>4, <2>6, <3>1, <3>2
      <4>2. <<f[m], f[i]>> \in R
        BY <3>2, <4>1 DEF InOrder
      <4> QED
        BY <2>7, <4>1, <4>2 DEF OneWay
    <3>3. CASE m > i
      <4>1. <<q[i], q[m]>> \in R
        BY <2>4, <3>3 DEF Leads, InOrder
      <4> QED
        BY <2>7, <3>1, <4>1 DEF OneWay
    <3>4. CASE m = i
      BY <2>6, <3>1, <3>4
    <3> QED
      BY <2>4, <3>2, <3>3, <3>4
  <2>9. CASE f[i] \notin Range(q)
    <3>1. <<q[i], f[i]>> \in R
      BY <2>4, <2>7, <2>9 DEF Leads, InOrder
    <3> QED
      BY <2>7, <3>1 DEF OneWay
  <2> QED
    BY <2>8, <2>9
<1> QED
  BY <1>1, <1>2

\* The lesser of two integers.
LEMMA LesserOfTwo ==
  ASSUME NEW a \in Int, NEW b \in Int
  PROVE  Min({a, b}) = IF a <= b THEN a ELSE b
<1>1. PICK m : m = IF a <= b THEN a ELSE b
  OBVIOUS
<1>2. m \in {a, b} /\ \A y \in {a, b} : m <= y
  BY <1>1
<1>3. Min({a, b}) \in {a, b} /\ \A y \in {a, b} : Min({a, b}) <= y
  BY <1>2 DEF Min
<1> QED
  BY <1>1, <1>2, <1>3

\* The greater of two integers.
LEMMA GreaterOfTwo ==
  ASSUME NEW a \in Int, NEW b \in Int
  PROVE  Max({a, b}) = IF a >= b THEN a ELSE b
<1>1. PICK m : m = IF a >= b THEN a ELSE b
  OBVIOUS
<1>2. m \in {a, b} /\ \A y \in {a, b} : m >= y
  BY <1>1
<1>3. Max({a, b}) \in {a, b} /\ \A y \in {a, b} : Max({a, b}) >= y
  BY <1>2 DEF Max
<1> QED
  BY <1>1, <1>2, <1>3

\* What holds at first and is kept at each position holds up to the last.
Climbs(G, n) == 0 \in G /\ \A k \in 1..n : k - 1 \in G => k \in G

LEMMA StepByStep ==
  ASSUME NEW n \in Nat, NEW G, Climbs(G, n)
  PROVE  n \in G
<1> DEFINE Bad == {k \in 0..n : k \notin G}
<1>1. Bad \subseteq Nat
  OBVIOUS
<1>2. ASSUME Bad # {} PROVE FALSE
  <2> HIDE DEF Bad
  <2>1. PICK m \in Bad : \A y \in Bad : m <= y
    BY <1>1, <1>2, Least
  <2> USE DEF Bad
  <2>2. m \in 1..n
    BY DEF Climbs
  <2>3. m - 1 \notin Bad
    BY <2>1, <2>2
  <2>4. m - 1 \in G
    BY <2>2, <2>3
  <2> QED
    BY <2>2, <2>4 DEF Climbs
<1> QED
  BY <1>2

\* Adding up the values of a function is its sum.
LEMMA FunctionAdds ==
  ASSUME NEW values, NEW S, IsFiniteSet(S),
         NEW f \in [S -> Int], \A k \in S : f[k] = values[k]
  PROVE  MapThenSumSet(LAMBDA k : values[k], S) = Sum(f, S)
<1> DEFINE Some(s) == CHOOSE x \in s : TRUE
           Body(w, s) == IF s = {} THEN 0 ELSE values[Some(s)] + w[s \ {Some(s)}]
           iter == CHOOSE w : w = [s \in SUBSET S |-> Body(w, s)]
<1>1. MapThenSumSet(LAMBDA k : values[k], S) = iter[S]
  BY DEF MapThenSumSet, MapThenFoldSet
<1>2. \A w, s : s \in (SUBSET S) \ {{}} =>
        Some(s) \in s /\ s \ {Some(s)} \in SUBSET S /\ Body(w, s) = f[Some(s)] + w[s \ {Some(s)}]
  OBVIOUS
<1>3. \A w : Body(w, {}) = 0
  OBVIOUS
<1> HIDE DEF Body, iter, Some
<1>4. PICK g \in [SUBSET S -> Int] : SumsUp(g, S, f)
  BY SumExists
<1>5. \E w : w = [s \in SUBSET S |-> Body(w, s)]
  <2>1. PICK w : w = [s \in SUBSET S |-> g[s]]
    OBVIOUS
  <2>2. ASSUME NEW s \in SUBSET S PROVE w[s] = Body(w, s)
    <3>1. CASE s = {}
      BY <1>3, <1>4, <2>1, <3>1 DEF SumsUp
    <3>2. CASE s # {}
      <4>1. PICK x \in s : x = Some(s) /\ s \ {x} \in SUBSET S /\ Body(w, s) = f[x] + w[s \ {x}]
        BY <1>2, <3>2
      <4>2. g[s] = f[x] + g[s \ {x}]
        BY <1>4 DEF SumsUp
      <4> QED
        BY <2>1, <4>1, <4>2
    <3> QED
      BY <3>1, <3>2
  <2>3. w = [s \in SUBSET S |-> Body(w, s)]
    BY <2>1, <2>2
  <2> QED
    BY <2>3
<1>6. iter = [s \in SUBSET S |-> Body(iter, s)]
  BY <1>5 DEF iter
<1>7. Gathers(iter, S, f)
  <2>1. iter[{}] = 0
    BY <1>3, <1>6
  <2>2. ASSUME NEW s \in (SUBSET S) \ {{}} PROVE \E x \in s : iter[s] = f[x] + iter[s \ {x}]
    <3>1. PICK x \in s : x = Some(s) /\ Body(iter, s) = f[x] + iter[s \ {x}]
      BY <1>2
    <3>2. iter[s] = Body(iter, s)
      BY <1>6
    <3> QED
      BY <3>1, <3>2
  <2> QED
    BY <2>1, <2>2 DEF Gathers
<1> QED
  BY <1>1, <1>7, GatheredSum
=============================================================================
