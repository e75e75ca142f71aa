------------------------- MODULE DesignStreamProofs -------------------------
(***************************************************************************)
(* The plan of a design is well clustered and follows the references of    *)
(* its clusters for every schema, and what the streams write follows the   *)
(* plan, for any number of streams, of keys and of faults.                 *)
(***************************************************************************)
EXTENDS DesignStream, SequenceTheorems, FiniteSetTheorems, FunctionTheorems,
        WellFoundedInduction, TLAPS

-----------------------------------------------------------------------------
(* Natural numbers.                                                         *)

LEMMA Least ==
    ASSUME NEW T, T \subseteq Nat, T # {}
    PROVE  \E x \in T : \A y \in T : x <= y
<1> DEFINE R == OpToRel(<, Nat)
<1>1. \E x \in T : \A y \in T : ~ (<<y, x>> \in R)
  <2>1. IsWellFoundedOn(R, Nat)
    BY NatLessThanWellFounded
  <2> HIDE DEF R
  <2> QED
    BY <2>1, WFMin
<1>2. \A x, y \in Nat : x < y => <<x, y>> \in R
  BY DEF OpToRel
<1> HIDE DEF R
<1>3. PICK x \in T : \A y \in T : ~ (<<y, x>> \in R)
  BY <1>1
<1>4. \A y \in T : ~ (y < x)
  BY <1>2, <1>3
<1> QED
  BY <1>3, <1>4

\* Induction up to n, as a fact about sets of numbers.
LEMMA Upto ==
    ASSUME NEW n \in Nat, NEW T, 0 \in T,
           \A k \in Nat : k < n /\ k \in T => k + 1 \in T
    PROVE  \A k \in 0..n : k \in T
<1> DEFINE Out == {k \in 0..n : k \notin T}
<1>1. SUFFICES ASSUME Out # {} PROVE FALSE
  OBVIOUS
<1>2. PICK x \in Out : \A y \in Out : x <= y
  <2>1. Out \subseteq Nat
    OBVIOUS
  <2> HIDE DEF Out
  <2> QED
    BY <1>1, <2>1, Least
<1>3. x # 0 /\ x - 1 \in Nat /\ x - 1 < n /\ x - 1 \notin Out
  BY <1>2
<1>4. x - 1 \in T /\ (x - 1) + 1 = x
  BY <1>3
<1> QED
  BY <1>2, <1>3, <1>4

LEMMA MinIsLeast ==
    ASSUME NEW T, T \subseteq Nat, T # {}
    PROVE  Min(T) \in T /\ \A y \in T : Min(T) <= y
  BY Least DEF Min

LEMMA Greatest ==
    ASSUME NEW n \in Nat, NEW T, T \subseteq 0..n, T # {}
    PROVE  \E x \in T : \A y \in T : y <= x
<1> DEFINE Bounds == {b \in 0..n : \A y \in T : y <= b}
<1>1. n \in Bounds /\ Bounds \subseteq Nat
  OBVIOUS
<1>2. PICK x \in Bounds : \A y \in Bounds : x <= y
  <2> HIDE DEF Bounds
  <2> QED
    BY <1>1, Least
<1>3. CASE x \in T
  BY <1>2, <1>3
<1>4. CASE x \notin T
  <2>1. x # 0
    <3>1. PICK y \in T : y <= x /\ y \in 0..n
      BY <1>2
    <3>2. y # x
      BY <1>4, <3>1
    <3> QED
      BY <1>2, <3>1, <3>2
  <2>2. x - 1 \in 0..n /\ \A y \in T : y <= x - 1
    BY <1>2, <1>4, <2>1
  <2> QED
    BY <1>2, <2>2
<1> QED
  BY <1>3, <1>4

LEMMA MaxIsGreatest ==
    ASSUME NEW n \in Nat, NEW T, T \subseteq 0..n, T # {}
    PROVE  Max(T) \in T /\ \A y \in T : y <= Max(T)
  BY Greatest DEF Max

-----------------------------------------------------------------------------
(* What the helpers of the model compute.                                   *)

StrictOrder(S, R) ==
    /\ \A x \in S : <<x, x>> \notin R
    /\ \A x, y \in S : x # y => <<x, y>> \in R \/ <<y, x>> \in R
    /\ \A x, y, z \in S : <<x, y>> \in R /\ <<y, z>> \in R => <<x, z>> \in R

\* A sequence that has every element of S once.
Lists(seq, S) ==
    /\ Cardinality(S) \in Nat
    /\ seq \in [1..Cardinality(S) -> S]
    /\ \A i, j \in 1..Cardinality(S) : seq[i] = seq[j] => i = j
    /\ \A x \in S : \E i \in 1..Cardinality(S) : seq[i] = x

LEMMA SortedByLists ==
    ASSUME NEW S, IsFiniteSet(S), NEW R, StrictOrder(S, R)
    PROVE  /\ Lists(SortedBy(S, R), S)
           /\ \A i, j \in 1..Cardinality(S) :
                 i < j => <<SortedBy(S, R)[i], SortedBy(S, R)[j]>> \in R
<1> DEFINE n == Cardinality(S)
           Before(x) == {y \in S : <<y, x>> \in R}
           rank == [x \in S |-> Cardinality(Before(x))]
           seq == SortedBy(S, R)
<1>1. n \in Nat
  BY FS_CardinalityType
<1>2. ASSUME NEW x \in S
      PROVE  IsFiniteSet(Before(x)) /\ Cardinality(Before(x)) \in Nat /\ Cardinality(Before(x)) < n
  <2>1. Before(x) \in SUBSET S /\ x \notin Before(x)
    BY DEF StrictOrder
  <2>2. IsFiniteSet(Before(x)) /\ Cardinality(Before(x)) <= n /\ n # Cardinality(Before(x))
    <3> HIDE DEF Before
    <3> QED
      BY <2>1, FS_Subset
  <2>3. Cardinality(Before(x)) \in Nat
    BY <2>2, FS_CardinalityType
  <2> QED
    BY <1>1, <2>2, <2>3
<1>3. ASSUME NEW x \in S, NEW y \in S, <<x, y>> \in R
      PROVE  rank[x] < rank[y]
  <2>1. Before(x) \in SUBSET Before(y) /\ x \in Before(y) /\ x \notin Before(x)
    BY <1>3 DEF StrictOrder
  <2>2. Cardinality(Before(x)) <= Cardinality(Before(y)) /\ Cardinality(Before(y)) # Cardinality(Before(x))
    <3>1. IsFiniteSet(Before(y))
      BY <1>2
    <3> HIDE DEF Before
    <3> QED
      BY <2>1, <3>1, FS_Subset
  <2>3. Cardinality(Before(x)) \in Nat /\ Cardinality(Before(y)) \in Nat
    BY <1>2
  <2> QED
    BY <2>2, <2>3
<1>4. rank \in Surjection(S, 0..(n - 1)) /\ rank \in Injection(S, 0..(n - 1))
  <2>1. rank \in [S -> 0..(n - 1)]
    <3>1. \A x \in S : Cardinality(Before(x)) \in 0..(n - 1)
      BY <1>1, <1>2
    <3> QED
      BY <3>1
  <2>2. ASSUME NEW x \in S, NEW y \in S, x # y PROVE rank[x] # rank[y]
    <3>1. rank[x] \in Nat /\ rank[y] \in Nat
      BY <1>2
    <3>2. rank[x] < rank[y] \/ rank[y] < rank[x]
      BY <1>3, <2>2 DEF StrictOrder
    <3> QED
      BY <3>1, <3>2
  <2> HIDE DEF rank
  <2>3. rank \in Injection(S, 0..(n - 1))
    BY <2>1, <2>2 DEF Injection, IsInjective
  <2>4. IsFiniteSet(0..(n - 1)) /\ Cardinality(0..(n - 1)) = n
    BY SMTT(60), <1>1, FS_Interval
  <2> QED
    BY <2>3, <2>4, FS_Injection
<1>5. ASSUME NEW k \in 1..n
      PROVE  seq[k] \in S /\ rank[seq[k]] = k - 1
  <2>1. \E x \in S : rank[x] = k - 1
    <3>1. k - 1 \in 0..(n - 1)
      BY <1>1
    <3> HIDE DEF rank
    <3> QED
      BY <1>4, <3>1 DEF Surjection
  <2>2. \E x \in S : Cardinality({y \in S : <<y, x>> \in R}) = k - 1
    BY <2>1
  <2>3. seq[k] = CHOOSE x \in S : Cardinality({y \in S : <<y, x>> \in R}) = k - 1
    BY DEF SortedBy
  <2>4. seq[k] \in S /\ Cardinality({y \in S : <<y, seq[k]>> \in R}) = k - 1
    <3> HIDE DEF seq
    <3> QED
      BY <2>2, <2>3, Zenon
  <2> HIDE DEF seq
  <2> QED
    BY <2>4
<1>6. seq \in [1..n -> S]
  <2>1. ASSUME NEW k \in 1..n
        PROVE  (CHOOSE x \in S : Cardinality({y \in S : <<y, x>> \in R}) = k - 1) \in S
    BY <1>5, Zenon DEF SortedBy
  <2> QED
    BY <2>1, Zenon DEF SortedBy
<1> HIDE DEF seq, rank
<1>7. \A i, j \in 1..n : seq[i] = seq[j] => i = j
  BY <1>1, <1>5
<1>8. ASSUME NEW x \in S PROVE \E i \in 1..n : seq[i] = x
  <2>1. rank[x] \in 0..(n - 1)
    BY <1>4 DEF Surjection
  <2>2. rank[x] + 1 \in 1..n /\ (rank[x] + 1) - 1 = rank[x]
    BY <1>1, <2>1
  <2>3. seq[rank[x] + 1] \in S /\ rank[seq[rank[x] + 1]] = rank[x]
    BY <1>5, <2>2
  <2>4. seq[rank[x] + 1] = x
    BY <1>4, <2>3 DEF Injection, IsInjective
  <2> QED
    BY <2>2, <2>4
<1>9. ASSUME NEW i \in 1..n, NEW j \in 1..n, i < j PROVE <<seq[i], seq[j]>> \in R
  <2>1. ~ (rank[seq[j]] < rank[seq[i]]) /\ seq[i] # seq[j]
    BY <1>1, <1>5, <1>9
  <2> QED
    BY <1>3, <1>5, <2>1 DEF StrictOrder
<1> QED
  BY <1>1, <1>6, <1>7, <1>8, <1>9 DEF Lists, seq

\* c takes one element out of each set.
TakesFrom(c, S) == \A s \in SUBSET S : s # {} => c[s] \in s

Hereditary(T, S, c) == {} \in T /\ \A s \in SUBSET S : s # {} /\ s \ {c[s]} \in T => s \in T

\* Induction over the subsets of a finite set, one element taken out each time.
LEMMA OverSubsets ==
    ASSUME NEW S, IsFiniteSet(S), NEW c, TakesFrom(c, S),
           NEW T, Hereditary(T, S, c)
    PROVE  \A s \in SUBSET S : s \in T
<1> DEFINE Sizes == {m \in Nat : \A s \in SUBSET S : Cardinality(s) <= m => s \in T}
<1>0. \A s \in SUBSET S : IsFiniteSet(s) /\ Cardinality(s) \in Nat
                          /\ Cardinality(s) <= Cardinality(S) /\ Cardinality(S) \in Nat
  BY FS_Subset, FS_CardinalityType
<1>1. 0 \in Sizes
  BY <1>0, FS_EmptySet DEF Hereditary
<1>2. ASSUME NEW m \in Nat, m \in Sizes PROVE m + 1 \in Sizes
  <2>1. SUFFICES ASSUME NEW s \in SUBSET S, Cardinality(s) <= m + 1 PROVE s \in T
    OBVIOUS
  <2>2. CASE s = {}
    BY <2>2 DEF Hereditary
  <2>3. CASE s # {}
    <3>1. s \ {c[s]} \in SUBSET S /\ Cardinality(s \ {c[s]}) = Cardinality(s) - 1
      BY <1>0, <2>3, FS_RemoveElement DEF TakesFrom
    <3>2. Cardinality(s \ {c[s]}) <= m
      BY <1>0, <2>1, <3>1
    <3>3. s \ {c[s]} \in T
      BY <1>2, <3>1, <3>2
    <3> QED
      BY <2>3, <3>3 DEF Hereditary
  <2> QED
    BY <2>2, <2>3
<1>3. Cardinality(S) \in Sizes
  <2> HIDE DEF Sizes
  <2>1. Cardinality(S) \in Nat
    BY <1>0
  <2>2. \A k \in 0..Cardinality(S) : k \in Sizes
    BY <1>1, <1>2, <2>1, Upto
  <2> QED
    BY <2>1, <2>2
<1> QED
  BY <1>0, <1>3

FoldsWithin(g, S, X) == \A x \in X, y \in S : g[<<x, y>>] \in X

FoldOf(f, S, c, x0, g) ==
    \A s \in SUBSET S : f[s] = IF s = {} THEN x0 ELSE g[<<f[s \ {c[s]}], c[s]>>]

\* A fold over a finite set is defined.
LEMMA FoldExists ==
    ASSUME NEW S, IsFiniteSet(S), NEW c, TakesFrom(c, S),
           NEW X, NEW x0 \in X, NEW g, FoldsWithin(g, S, X)
    PROVE  \E f \in [SUBSET S -> X] : FoldOf(f, S, c, x0, g)
<1> DEFINE Small(m) == {s \in SUBSET S : Cardinality(s) <= m}
           Folds(m) == {f \in [Small(m) -> X] : \A s \in Small(m) :
                           f[s] = IF s = {} THEN x0 ELSE g[<<f[s \ {c[s]}], c[s]>>]}
           Sizes == {m \in Nat : Folds(m) # {}}
<1>0. /\ \A s \in SUBSET S : IsFiniteSet(s) /\ Cardinality(s) \in Nat
                             /\ Cardinality(s) <= Cardinality(S) /\ Cardinality(S) \in Nat
                             /\ (Cardinality(s) = 0 <=> s = {})
  BY FS_Subset, FS_CardinalityType, FS_EmptySet
<1>chosen. \A s \in SUBSET S : s # {} => s \ {c[s]} \in SUBSET S /\ c[s] \in S
                                         /\ Cardinality(s \ {c[s]}) = Cardinality(s) - 1
  BY <1>0, FS_RemoveElement DEF TakesFrom
<1>1. 0 \in Sizes
  <2> DEFINE f == [s \in Small(0) |-> x0]
  <2>1. \A s \in Small(0) : s = {}
    BY <1>0
  <2>2. f \in Folds(0)
    BY <2>1
  <2> QED
    BY <2>2
<1>2. ASSUME NEW m \in Nat, m \in Sizes PROVE m + 1 \in Sizes
  <2>1. PICK f \in [Small(m) -> X] :
            \A s \in Small(m) : f[s] = IF s = {} THEN x0 ELSE g[<<f[s \ {c[s]}], c[s]>>]
    BY <1>2
  <2> DEFINE h == [s \in Small(m + 1) |-> IF s = {} THEN x0 ELSE g[<<f[s \ {c[s]}], c[s]>>]]
  <2>2. ASSUME NEW s \in Small(m + 1), s # {}
        PROVE  s \ {c[s]} \in Small(m) /\ c[s] \in S
    BY <1>0, <1>chosen, <2>2
  <2>3. h \in [Small(m + 1) -> X]
    <3>1. \A s \in Small(m + 1) : (IF s = {} THEN x0 ELSE g[<<f[s \ {c[s]}], c[s]>>]) \in X
      <4> HIDE DEF Small
      <4> QED
        BY <2>1, <2>2 DEF FoldsWithin
    <3> HIDE DEF Small
    <3> QED
      BY <3>1
  <2>4. Small(m) \subseteq Small(m + 1)
    BY <1>0
  <2>5. \A s \in Small(m) : h[s] = f[s]
    <3> HIDE DEF Small
    <3> QED
      BY <2>1, <2>4
  <2>6. \A s \in Small(m + 1) : h[s] = IF s = {} THEN x0 ELSE g[<<h[s \ {c[s]}], c[s]>>]
    <3> HIDE DEF Small
    <3> QED
      BY <2>2, <2>5
  <2>7. h \in Folds(m + 1)
    <3> HIDE DEF Small, h
    <3> QED
      BY <2>3, <2>6
  <2> HIDE DEF Folds
  <2> QED
    BY <2>7
<1>3. Cardinality(S) \in Sizes
  <2> HIDE DEF Sizes
  <2>1. Cardinality(S) \in Nat
    BY <1>0
  <2>2. \A k \in 0..Cardinality(S) : k \in Sizes
    BY <1>1, <1>2, <2>1, Upto
  <2> QED
    BY <2>1, <2>2
<1>4. Small(Cardinality(S)) = SUBSET S
  BY <1>0
<1>5. PICK f : f \in Folds(Cardinality(S))
  BY <1>3
<1> QED
  <2> HIDE DEF Small
  <2> QED
    BY <1>4, <1>5 DEF FoldOf

\* So is an iteration.
StepsWithin(g, n, X) == \A x \in X, k \in 1..n : g[<<x, k>>] \in X

Iterates(f, x0, g, n) == f[0] = x0 /\ \A k \in 1..n : f[k] = g[<<f[k - 1], k>>]

LEMMA IterationExists ==
    ASSUME NEW n \in Nat, NEW X, NEW x0 \in X, NEW g, StepsWithin(g, n, X)
    PROVE  \E f \in [0..n -> X] : Iterates(f, x0, g, n)
<1> DEFINE Its(m) == {f \in [0..m -> X] : Iterates(f, x0, g, m)}
           Defined == {m \in Nat : Its(m) # {}}
<1>1. 0 \in Defined
  <2> DEFINE f == [k \in 0..0 |-> x0]
  <2>1. f \in Its(0)
    BY DEF Iterates
  <2> HIDE DEF Its
  <2> QED
    BY <2>1
<1>2. ASSUME NEW m \in Nat, m < n, m \in Defined PROVE m + 1 \in Defined
  <2>1. PICK f \in [0..m -> X] : f[0] = x0 /\ \A k \in 1..m : f[k] = g[<<f[k - 1], k>>]
    BY <1>2 DEF Iterates
  <2>2. m \in 0..m /\ m + 1 \in 1..n
    BY <1>2
  <2>3. g[<<f[m], m + 1>>] \in X
    BY <2>1, <2>2 DEF StepsWithin
  <2> DEFINE h == [k \in 0..(m + 1) |-> IF k = m + 1 THEN g[<<f[m], m + 1>>] ELSE f[k]]
  <2>4. h \in [0..(m + 1) -> X]
    BY <2>1, <2>3
  <2>5. h[0] = x0
    BY <2>1
  <2>6. ASSUME NEW k \in 1..(m + 1) PROVE h[k] = g[<<h[k - 1], k>>]
    <3>1. CASE k = m + 1
      <4>1. k - 1 = m /\ h[m] = f[m] /\ h[k] = g[<<f[m], k>>]
        BY <3>1
      <4> HIDE DEF h
      <4> QED
        BY <4>1
    <3>2. CASE k # m + 1
      <4>1. k \in 1..m /\ k \in 0..(m + 1) /\ k - 1 \in 0..(m + 1) /\ k - 1 # m + 1
        BY <3>2
      <4>2. h[k] = f[k] /\ h[k - 1] = f[k - 1]
        BY <3>2, <4>1
      <4> QED
        BY <2>1, <4>1, <4>2
    <3> QED
      BY <3>1, <3>2
  <2> HIDE DEF h
  <2>7. h \in Its(m + 1)
    BY <2>4, <2>5, <2>6 DEF Iterates
  <2> HIDE DEF Its
  <2> QED
    BY <2>7
<1>3. n \in Defined
  <2> HIDE DEF Defined
  <2> QED
    BY <1>1, <1>2, Upto
<1> QED
  BY <1>3

\* Where the sequences of a sequence begin when they are put together.
Offsets(off, ss, n) ==
    /\ off \in [0..n -> Nat]
    /\ off[0] = 0
    /\ \A k \in 1..n : off[k] = off[k - 1] + Len(ss[k])
    /\ \A i, k \in 0..n : i <= k => off[i] <= off[k]
    /\ \A m \in 1..off[n] : \E k \in 1..n : \E j \in 1..Len(ss[k]) : m = off[k - 1] + j

LEMMA OffsetsExist ==
    ASSUME NEW n \in Nat, NEW S, NEW ss, \A k \in 1..n : ss[k] \in Seq(S)
    PROVE  \E off : Offsets(off, ss, n)
<1>0. \A k \in 1..n : Len(ss[k]) \in Nat
  BY LenProperties
<1> DEFINE g == [p \in Nat \X (1..n) |-> p[1] + Len(ss[p[2]])]
<1>1. \A x \in Nat, k \in 1..n : g[<<x, k>>] \in Nat /\ g[<<x, k>>] = x + Len(ss[k])
  BY <1>0
<1>2. PICK off \in [0..n -> Nat] : off[0] = 0 /\ \A k \in 1..n : off[k] = g[<<off[k - 1], k>>]
  <2> HIDE DEF g
  <2>1. StepsWithin(g, n, Nat)
    BY <1>1 DEF StepsWithin
  <2>2. \E off \in [0..n -> Nat] : Iterates(off, 0, g, n)
    BY <2>1, IterationExists
  <2> QED
    BY <2>2 DEF Iterates
<1>3. \A k \in 1..n : off[k - 1] \in Nat /\ off[k] = off[k - 1] + Len(ss[k])
  <2> HIDE DEF g
  <2>1. ASSUME NEW k \in 1..n PROVE off[k - 1] \in Nat /\ off[k] = off[k - 1] + Len(ss[k])
    <3>1. k - 1 \in 0..n
      OBVIOUS
    <3>2. off[k - 1] \in Nat
      BY <1>2, <3>1
    <3> QED
      BY <1>1, <1>2, <3>2
  <2> QED
    BY <2>1
<1> HIDE DEF g
<1> DEFINE Up == {k \in Nat : k <= n => \A i \in 0..k : off[i] <= off[k]}
           Covered == {k \in Nat : k <= n =>
               \A m \in 1..off[k] : \E i \in 1..k : \E j \in 1..Len(ss[i]) : m = off[i - 1] + j}
<1>4. \A k \in 0..n : k \in Up
  <2>1. 0 \in Up
    BY <1>2
  <2>2. ASSUME NEW k \in Nat, k < n, k \in Up PROVE k + 1 \in Up
    <3>1. off[k] <= off[k + 1] /\ off[k] \in Nat /\ off[k + 1] \in Nat
      <4>1. k + 1 \in 1..n /\ (k + 1) - 1 = k
        BY <2>2
      <4>2. Len(ss[k + 1]) \in Nat /\ off[k] \in Nat /\ off[k + 1] = off[k] + Len(ss[k + 1])
        BY <1>0, <1>3, <4>1
      <4> QED
        BY <4>2
    <3>2. ASSUME NEW i \in 0..(k + 1) PROVE off[i] <= off[k + 1]
      <4>1. i \in 0..k => off[i] <= off[k] /\ off[i] \in Nat
        BY <1>2, <2>2
      <4>2. i \in 0..k \/ i = k + 1
        OBVIOUS
      <4> QED
        BY <3>1, <4>1, <4>2
    <3> QED
      BY <3>2
  <2> HIDE DEF Up
  <2> QED
    BY <2>1, <2>2, Upto
<1>5. \A k \in 0..n : k \in Covered
  <2>1. 0 \in Covered
    BY <1>2
  <2>2. ASSUME NEW k \in Nat, k < n, k \in Covered PROVE k + 1 \in Covered
    <3>1. off[k + 1] = off[k] + Len(ss[k + 1]) /\ off[k] \in Nat /\ Len(ss[k + 1]) \in Nat
      <4>1. k + 1 \in 1..n /\ (k + 1) - 1 = k
        BY <2>2
      <4> QED
        BY <1>0, <1>3, <4>1
    <3>2. ASSUME NEW m \in 1..off[k + 1]
          PROVE  \E i \in 1..(k + 1) : \E j \in 1..Len(ss[i]) : m = off[i - 1] + j
      <4>1. CASE m <= off[k]
        <5>1. m \in 1..off[k]
          BY <3>1, <4>1
        <5>2. PICK i \in 1..k : \E j \in 1..Len(ss[i]) : m = off[i - 1] + j
          BY <2>2, <5>1
        <5> QED
          BY <5>2
      <4>2. CASE ~ (m <= off[k])
        <5>1. m - off[k] \in 1..Len(ss[k + 1]) /\ m = off[(k + 1) - 1] + (m - off[k])
          BY SMTT(60), <3>1, <4>2
        <5> QED
          BY <5>1
      <4> QED
        BY <4>1, <4>2
    <3> QED
      BY <3>2
  <2> HIDE DEF Covered
  <2> QED
    BY <2>1, <2>2, Upto
<1>6. \A i, k \in 0..n : i <= k => off[i] <= off[k]
  <2>1. ASSUME NEW i \in 0..n, NEW k \in 0..n, i <= k PROVE off[i] <= off[k]
    <3>1. i \in 0..k /\ k \in Up /\ k \in Nat /\ k <= n
      BY <1>4, <2>1
    <3> QED
      BY <3>1
  <2> QED
    BY <2>1
<1>7. \A m \in 1..off[n] : \E k \in 1..n : \E j \in 1..Len(ss[k]) : m = off[k - 1] + j
  <2>1. n \in Covered
    BY <1>5
  <2> QED
    BY <2>1
<1>8. Offsets(off, ss, n)
  BY <1>2, <1>3, <1>6, <1>7 DEF Offsets
<1> QED
  BY <1>8

LEMMA ListsAreSeqs ==
    ASSUME NEW n \in Nat, NEW S, NEW seq \in [1..n -> S]
    PROVE  seq \in Seq(S) /\ Len(seq) = n
<1>1. seq \in UNION {[1..m -> S] : m \in Nat}
  OBVIOUS
<1>2. seq \in Seq(S)
  BY <1>1, SeqDef, Zenon
<1> QED
  BY <1>2, LenProperties

Concatenates(flat, off, ss, n) ==
    /\ Len(flat) = off[n]
    /\ \A k \in 1..n : \A j \in 1..Len(ss[k]) : flat[off[k - 1] + j] = ss[k][j]

LEMMA FlattenSeqConcatenates ==
    ASSUME NEW n \in Nat, NEW S, NEW ss \in [1..n -> Seq(S)], NEW off, Offsets(off, ss, n)
    PROVE  FlattenSeq(ss) \in Seq(S) /\ Concatenates(FlattenSeq(ss), off, ss, n)
<1> DEFINE Next1(f) == [i \in 1..n |-> IF i = 1 THEN ss[i] ELSE f[i - 1] \o ss[i]]
           flatten == CHOOSE f : f = Next1(f)
<1>0. ss \in Seq(Seq(S)) /\ Len(ss) = n
  <2> DEFINE T == Seq(S)
  <2> HIDE DEF T
  <2>1. ss \in [1..n -> T]
    BY DEF T
  <2>2. ss \in Seq(T) /\ Len(ss) = n
    BY <2>1, ListsAreSeqs
  <2> QED
    BY <2>2 DEF T
<1>1. n # 0 => FlattenSeq(ss) = flatten[n]
  BY <1>0, Zenon DEF FlattenSeq
<1>2. \E f : f = Next1(f)
  <2> DEFINE g == [p \in Seq(S) \X (1..n) |-> p[1] \o ss[p[2]]]
  <2>1. \A x \in Seq(S), k \in 1..n : g[<<x, k>>] = x \o ss[k] /\ g[<<x, k>>] \in Seq(S)
    BY ConcatProperties
  <2>2. PICK f \in [0..n -> Seq(S)] : Iterates(f, <<>>, g, n)
    <3> HIDE DEF g
    <3>1. <<>> \in Seq(S) /\ StepsWithin(g, n, Seq(S))
      BY <2>1, EmptySeq DEF StepsWithin
    <3> QED
      BY <3>1, IterationExists
  <2> DEFINE h == [i \in 1..n |-> f[i]]
  <2>3. ASSUME NEW i \in 1..n PROVE h[i] = IF i = 1 THEN ss[i] ELSE h[i - 1] \o ss[i]
    <3>1. i - 1 \in 0..n /\ f[i - 1] \in Seq(S) /\ ss[i] \in Seq(S)
      BY <2>2
    <3>2. f[i] = f[i - 1] \o ss[i]
      <4> HIDE DEF g
      <4> QED
        BY <2>1, <2>2, <3>1 DEF Iterates
    <3>3. CASE i = 1
      <4>1. f[0] = <<>> /\ i - 1 = 0
        BY <2>2, <3>3 DEF Iterates
      <4>2. f[i] = ss[i]
        BY <3>1, <3>2, <4>1, ConcatEmptySeq
      <4> QED
        BY <3>3, <4>2
    <3>4. CASE i # 1
      <4>1. i - 1 \in 1..n
        BY <3>4
      <4> QED
        BY <3>2, <3>4, <4>1
    <3> QED
      BY <3>3, <3>4
  <2>4. h = Next1(h)
    <3>1. h = [i \in 1..n |-> h[i]]
      OBVIOUS
    <3> HIDE DEF h
    <3> QED
      BY <2>3, <3>1
  <2> HIDE DEF h
  <2> QED
    BY <2>4
<1>3. flatten = Next1(flatten)
  <2> HIDE DEF Next1
  <2> QED
    BY <1>2
<1>4. \A i \in 1..n : flatten[i] = IF i = 1 THEN ss[i] ELSE flatten[i - 1] \o ss[i]
  <2> HIDE DEF flatten
  <2> QED
    BY <1>3
<1> HIDE DEF flatten
<1> DEFINE Good == {k \in Nat : k <= n /\ k # 0 =>
               /\ flatten[k] \in Seq(S)
               /\ Len(flatten[k]) = off[k]
               /\ \A i \in 1..k : \A j \in 1..Len(ss[i]) : flatten[k][off[i - 1] + j] = ss[i][j]}
<1>5. ASSUME NEW k \in Nat, k < n, k \in Good PROVE k + 1 \in Good
  <2>0. k + 1 \in 1..n /\ ss[k + 1] \in Seq(S) /\ Len(ss[k + 1]) \in Nat /\ off[k] \in Nat
        /\ off[k + 1] = off[k] + Len(ss[k + 1])
    <3>1. k + 1 \in 1..n /\ (k + 1) - 1 = k /\ k \in 0..n
      BY <1>5
    <3> QED
      BY <3>1, LenProperties DEF Offsets
  <2>1. CASE k = 0
    <3>1. flatten[k + 1] = ss[k + 1] /\ off[k + 1] = Len(ss[k + 1]) /\ off[0] = 0
      BY <1>4, <2>0, <2>1 DEF Offsets
    <3>2. ASSUME NEW i \in 1..(k + 1), NEW j \in 1..Len(ss[i])
          PROVE  flatten[k + 1][off[i - 1] + j] = ss[i][j]
      <4>1. i = k + 1 /\ off[i - 1] + j = j
        BY <2>1, <3>1
      <4> QED
        BY <3>1, <4>1
    <3> QED
      BY SMTT(60), <2>0, <3>1, <3>2
  <2>2. CASE k # 0
    <3>1. /\ flatten[k] \in Seq(S)
          /\ Len(flatten[k]) = off[k]
          /\ \A i \in 1..k : \A j \in 1..Len(ss[i]) : flatten[k][off[i - 1] + j] = ss[i][j]
      BY <1>5, <2>2
    <3>2. flatten[k + 1] = flatten[k] \o ss[k + 1]
      <4>1. k + 1 # 1 /\ (k + 1) - 1 = k
        BY <2>2
      <4> QED
        BY <1>4, <2>0, <4>1
    <3>3. /\ flatten[k + 1] \in Seq(S) /\ Len(flatten[k + 1]) = off[k + 1]
          /\ \A m \in 1..off[k] : flatten[k + 1][m] = flatten[k][m]
          /\ \A m \in (off[k] + 1)..off[k + 1] : flatten[k + 1][m] = ss[k + 1][m - off[k]]
      <4> DEFINE a == flatten[k]
                 b == ss[k + 1]
      <4>1. a \in Seq(S) /\ b \in Seq(S) /\ Len(a) = off[k] /\ Len(b) \in Nat
            /\ off[k] \in Nat /\ off[k + 1] = Len(a) + Len(b) /\ flatten[k + 1] = a \o b
        BY <2>0, <3>1, <3>2
      <4> HIDE DEF a, b
      <4>2. /\ a \o b \in Seq(S) /\ Len(a \o b) = Len(a) + Len(b)
            /\ \A m \in 1..Len(a) + Len(b) : (a \o b)[m] = IF m <= Len(a) THEN a[m] ELSE b[m - Len(a)]
        BY <4>1, ConcatProperties
      <4>3. /\ \A m \in 1..Len(a) : (a \o b)[m] = a[m]
            /\ \A m \in (Len(a) + 1)..(Len(a) + Len(b)) : (a \o b)[m] = b[m - Len(a)]
        BY SMTT(60), <4>1, <4>2
      <4> QED
        BY <4>1, <4>2, <4>3 DEF a, b
    <3>4. ASSUME NEW i \in 1..(k + 1), NEW j \in 1..Len(ss[i])
          PROVE  flatten[k + 1][off[i - 1] + j] = ss[i][j]
      <4>1. CASE i = k + 1
        <5>1. off[i - 1] + j \in (off[k] + 1)..off[k + 1] /\ (off[i - 1] + j) - off[k] = j
          BY <2>0, <4>1
        <5> QED
          BY <3>3, <4>1, <5>1
      <4>2. CASE i # k + 1
        <5>0. i \in 1..k /\ i \in 1..n
          BY <1>5, <4>2
        <5>1. /\ i - 1 \in 0..n /\ off[i - 1] \in Nat /\ off[i] \in Nat
              /\ off[i] = off[i - 1] + Len(ss[i]) /\ off[i] <= off[k]
          <6>1. i \in 0..n /\ k \in 0..n /\ i - 1 \in 0..n /\ i <= k
            BY <1>5, <5>0
          <6> QED
            BY <5>0, <6>1 DEF Offsets
        <5>2. Len(ss[i]) \in Nat
          BY <5>0, LenProperties
        <5>3. off[i - 1] + j \in 1..off[k]
          <6>1. j \in Nat /\ 1 <= j /\ j <= Len(ss[i])
            BY <5>2
          <6> QED
            BY SMTT(60), <2>0, <5>1, <5>2, <6>1
        <5> QED
          BY <3>1, <3>3, <5>0, <5>3
      <4> QED
        BY <4>1, <4>2
    <3> QED
      BY <3>3, <3>4
  <2> QED
    BY <2>1, <2>2
<1>6. \A k \in 0..n : k \in Good
  <2>1. 0 \in Good
    OBVIOUS
  <2> HIDE DEF Good
  <2> QED
    BY <1>5, <2>1, Upto
<1>7. CASE n = 0
  <2>1. FlattenSeq(ss) = ss /\ ss = <<>>
    BY <1>0, <1>7, EmptySeq DEF FlattenSeq
  <2> QED
    BY <1>0, <1>7, <2>1, EmptySeq DEF Offsets, Concatenates
<1>8. CASE n # 0
  <2>1. n \in Good
    BY <1>6
  <2> QED
    BY <1>1, <1>8, <2>1 DEF Concatenates
<1> QED
  BY <1>7, <1>8

\* Non-empty levels that have every number of P once, and no other.
Covers(levels, P) ==
    /\ levels \in Seq(Seq(P))
    /\ \A k \in DOMAIN levels : levels[k] # <<>>
    /\ \A k, l \in DOMAIN levels : \A i \in DOMAIN levels[k], j \in DOMAIN levels[l] :
          levels[k][i] = levels[l][j] => k = l /\ i = j
    /\ \A x \in P : \E k \in DOMAIN levels : \E i \in DOMAIN levels[k] : levels[k][i] = x

LEMMA AppendedLevelCovers ==
    ASSUME NEW levels, NEW P, Covers(levels, P),
           NEW Q, Q # {}, P \cap Q = {}, NEW seq, Lists(seq, Q)
    PROVE  Covers(Append(levels, seq), P \cup Q)
<1> DEFINE all == Append(levels, seq)
           n == Len(levels)
<1>1. /\ levels \in Seq(Seq(P)) /\ n \in Nat /\ DOMAIN levels = 1..n
      /\ \A k \in 1..n : levels[k] \in Seq(P) /\ DOMAIN levels[k] = 1..Len(levels[k])
  BY LenProperties, ElementOfSeq DEF Covers
<1>2. /\ seq \in Seq(Q) /\ Len(seq) = Cardinality(Q) /\ Cardinality(Q) \in Nat
      /\ DOMAIN seq = 1..Cardinality(Q)
  BY ListsAreSeqs DEF Lists
<1>3. seq # <<>>
  <2>1. PICK x \in Q : TRUE
    OBVIOUS
  <2>2. \E i \in 1..Cardinality(Q) : seq[i] = x
    BY DEF Lists
  <2> QED
    BY <1>2, <2>2
<1>4. levels \in Seq(Seq(P \cup Q)) /\ seq \in Seq(P \cup Q)
  <2>1. Seq(P) \subseteq Seq(P \cup Q) /\ Seq(Q) \subseteq Seq(P \cup Q)
    BY SeqMonotonic
  <2> DEFINE S == Seq(P)
             T == Seq(P \cup Q)
  <2>2. S \subseteq T /\ levels \in Seq(S)
    BY <1>1, <2>1
  <2> HIDE DEF S, T
  <2>3. levels \in Seq(T)
    BY <2>2, SeqMonotonic
  <2> QED
    BY <1>2, <2>1, <2>3 DEF T
<1>5. /\ all \in Seq(Seq(P \cup Q)) /\ DOMAIN all = 1..(n + 1)
      /\ \A k \in 1..n : all[k] = levels[k]
      /\ all[n + 1] = seq
  <2> DEFINE T == Seq(P \cup Q)
  <2>1. levels \in Seq(T) /\ seq \in T
    BY <1>4
  <2> HIDE DEF T
  <2>2. all \in Seq(T) /\ Len(all) = n + 1 /\ \A k \in 1..n : all[k] = levels[k] /\ all[n + 1] = seq
    BY <1>1, <2>1, AppendProperties
  <2>3. all[n + 1] = seq
    BY <2>1, AppendProperties
  <2> QED
    BY <2>2, <2>3, LenProperties DEF T
<1> HIDE DEF all
<1>6. \A k \in 1..(n + 1) : all[k] # <<>>
  <2>1. \A k \in 1..(n + 1) : k \in 1..n \/ k = n + 1
    BY <1>1
  <2> QED
    BY <1>1, <1>3, <1>5, <2>1 DEF Covers
<1>7. ASSUME NEW k \in 1..(n + 1), NEW l \in 1..(n + 1), NEW i \in DOMAIN all[k], NEW j \in DOMAIN all[l],
             all[k][i] = all[l][j]
      PROVE  k = l /\ i = j
  <2>1. ASSUME NEW h \in 1..n, NEW m \in DOMAIN levels[h] PROVE levels[h][m] \in P
    BY <1>1, ElementOfSeq
  <2>2. \A m \in DOMAIN seq : seq[m] \in Q
    BY <1>2 DEF Lists
  <2>3. (k \in 1..n \/ k = n + 1) /\ (l \in 1..n \/ l = n + 1)
    BY <1>1
  <2>4. CASE k \in 1..n /\ l \in 1..n
    <3>1. k \in DOMAIN levels /\ l \in DOMAIN levels /\ i \in DOMAIN levels[k] /\ j \in DOMAIN levels[l]
          /\ levels[k][i] = levels[l][j]
      BY <1>1, <1>5, <1>7, <2>4
    <3> QED
      BY <3>1 DEF Covers
  <2>5. CASE k = n + 1 /\ l = n + 1
    BY <1>2, <1>5, <1>7, <2>5 DEF Lists
  <2>6. CASE k \in 1..n /\ l = n + 1
    BY <1>5, <1>7, <2>1, <2>2, <2>6
  <2>7. CASE k = n + 1 /\ l \in 1..n
    BY <1>5, <1>7, <2>1, <2>2, <2>7
  <2> QED
    BY <2>3, <2>4, <2>5, <2>6, <2>7
<1>8. ASSUME NEW x \in P \cup Q
      PROVE  \E k \in 1..(n + 1) : \E i \in DOMAIN all[k] : all[k][i] = x
  <2>1. CASE x \in P
    <3>1. PICK k \in 1..n : \E i \in DOMAIN levels[k] : levels[k][i] = x
      BY <1>1, <2>1 DEF Covers
    <3>2. k \in 1..(n + 1)
      BY <1>1
    <3> QED
      BY <1>5, <3>1, <3>2
  <2>2. CASE x \in Q
    <3>1. PICK i \in 1..Cardinality(Q) : seq[i] = x
      BY <2>2 DEF Lists
    <3>2. n + 1 \in 1..(n + 1)
      BY <1>1
    <3> QED
      BY <1>2, <1>5, <3>1, <3>2
  <2> QED
    BY <2>1, <2>2
<1> QED
  BY ZenonT(60), <1>5, <1>6, <1>7, <1>8 DEF Covers, all

-----------------------------------------------------------------------------
(* The levels have every cluster once, behind what it refers to.            *)

ClustersOf(clusters, n) ==
    /\ n \in Nat
    /\ DOMAIN clusters = 1..n
    /\ \A i \in 1..n : IsFiniteSet(clusters[i].cross_fks)

LEMMA CountsAreNatural ==
    ASSUME NEW clusters, NEW n, ClustersOf(clusters, n)
    PROVE  /\ IsFiniteSet(dag(clusters))
           /\ \A i \in 1..n : inbound_cross_count(clusters, i) \in Nat
           /\ \A i \in 1..n : in_degree(clusters, i) \in Nat
<1> DEFINE L == Listed(clusters)
           One(i) == {i} \X clusters[i].cross_fks
           Each == {One(i) : i \in 1..n}
           pick == [i \in 1..n |-> One(i)]
           end == [x \in L |-> <<Part(clusters, x[2].to), Part(clusters, x[2].from)>>]
<1>1. IsFiniteSet(1..n) /\ L = UNION Each
  BY FS_Interval DEF ClustersOf, Listed
<1>2. IsFiniteSet(Each)
  <2>1. pick \in Surjection(1..n, Each)
    BY DEF Surjection
  <2> HIDE DEF pick, Each
  <2> QED
    BY <1>1, <2>1, FS_Surjection
<1>3. \A T \in Each : IsFiniteSet(T)
  <2>1. ASSUME NEW i \in 1..n PROVE IsFiniteSet(One(i))
    BY FS_Singleton, FS_Product DEF ClustersOf
  <2> QED
    BY <2>1
<1>4. IsFiniteSet(L)
  <2> HIDE DEF Each, L
  <2> QED
    BY <1>1, <1>2, <1>3, FS_UNION
<1>5. IsFiniteSet(dag(clusters))
  <2>1. dag(clusters) = {<<Part(clusters, x[2].to), Part(clusters, x[2].from)>> : x \in L}
    BY DEF dag
  <2> HIDE DEF L
  <2>2. end \in Surjection(L, dag(clusters))
    BY <2>1 DEF Surjection
  <2> HIDE DEF end
  <2> QED
    BY <1>4, <2>2, FS_Surjection
<1>6. ASSUME NEW i \in 1..n PROVE inbound_cross_count(clusters, i) \in Nat
  <2> DEFINE T == {x \in L : Part(clusters, x[2].to) = i}
  <2>1. T \in SUBSET L
    OBVIOUS
  <2>2. inbound_cross_count(clusters, i) = Cardinality(T)
    BY DEF inbound_cross_count
  <2> HIDE DEF T
  <2> QED
    BY <1>4, <2>1, <2>2, FS_Subset, FS_CardinalityType
<1>7. ASSUME NEW i \in 1..n PROVE in_degree(clusters, i) \in Nat
  <2> DEFINE T == {d \in dag(clusters) : d[2] = i}
  <2>1. T \in SUBSET dag(clusters)
    OBVIOUS
  <2>2. in_degree(clusters, i) = Cardinality(T)
    BY DEF in_degree
  <2> HIDE DEF T
  <2> QED
    BY <1>5, <2>1, <2>2, FS_Subset, FS_CardinalityType
<1> QED
  BY <1>5, <1>6, <1>7

LEMMA OrderedLists ==
    ASSUME NEW n \in Nat, NEW inbound, \A i \in 1..n : inbound[i] \in Nat, NEW S \in SUBSET (1..n)
    PROVE  Lists(Ordered(S, inbound), S)
<1> DEFINE R == {p \in S \X S : \/ inbound[p[1]] > inbound[p[2]]
                                \/ inbound[p[1]] = inbound[p[2]] /\ p[1] < p[2]}
<1>1. \A x, y \in S : <<x, y>> \in R <=> \/ inbound[x] > inbound[y]
                                         \/ inbound[x] = inbound[y] /\ x < y
  OBVIOUS
<1>2. IsFiniteSet(S)
  <2>1. IsFiniteSet(1..n)
    BY FS_Interval
  <2> QED
    BY <2>1, FS_Subset
<1>3. Ordered(S, inbound) = SortedBy(S, R)
  BY DEF Ordered
<1> HIDE DEF R
<1>4. StrictOrder(S, R)
  <2>1. \A x \in S : <<x, x>> \notin R
    BY <1>1
  <2>2. ASSUME NEW x \in S, NEW y \in S, x # y PROVE <<x, y>> \in R \/ <<y, x>> \in R
    <3>1. inbound[x] \in Nat /\ inbound[y] \in Nat /\ x \in Nat /\ y \in Nat
      OBVIOUS
    <3> QED
      BY <1>1, <2>2, <3>1
  <2>3. ASSUME NEW x \in S, NEW y \in S, NEW z \in S, <<x, y>> \in R, <<y, z>> \in R
        PROVE  <<x, z>> \in R
    <3>1. /\ inbound[x] \in Nat /\ inbound[y] \in Nat /\ inbound[z] \in Nat
          /\ x \in Nat /\ y \in Nat /\ z \in Nat
      OBVIOUS
    <3>2. inbound[x] > inbound[y] \/ (inbound[x] = inbound[y] /\ x < y)
      BY <1>1, <2>3
    <3>3. inbound[y] > inbound[z] \/ (inbound[y] = inbound[z] /\ y < z)
      BY <1>1, <2>3
    <3>4. inbound[x] > inbound[z] \/ (inbound[x] = inbound[z] /\ x < z)
      BY <3>1, <3>2, <3>3
    <3> QED
      BY <1>1, <3>4
  <2> QED
    BY <2>1, <2>2, <2>3 DEF StrictOrder
<1> QED
  BY <1>2, <1>3, <1>4, SortedByLists

Peeling(n) == [levels : Seq(Seq(1..n)), processed : SUBSET (1..n), degree : [1..n -> Int]]

LEMMA PeelCovers ==
    ASSUME NEW clusters, NEW n, ClustersOf(clusters, n),
           NEW inbound, \A i \in 1..n : inbound[i] \in Nat,
           NEW acc \in Peeling(n), Covers(acc.levels, acc.processed)
    PROVE  /\ Peel(acc, clusters, inbound) \in Peeling(n)
           /\ Covers(Peel(acc, clusters, inbound).levels, Peel(acc, clusters, inbound).processed)
<1> DEFINE level == {i \in DOMAIN clusters \ acc.processed : acc.degree[i] = 0}
           Freed(i) == Cardinality({d \in dag(clusters) : d[1] \in level /\ d[2] = i})
           after == [levels |-> Append(acc.levels, Ordered(level, inbound)),
                     processed |-> acc.processed \cup level,
                     degree |-> [i \in DOMAIN clusters |-> acc.degree[i] - Freed(i)]]
<1>1. Peel(acc, clusters, inbound) = IF level = {} THEN acc ELSE after
  BY DEF Peel
<1>2. CASE level = {}
  BY <1>1, <1>2
<1>3. CASE level # {}
  <2>1. level \in SUBSET (1..n) /\ acc.processed \cap level = {}
        /\ acc.processed \in SUBSET (1..n)
    BY DEF ClustersOf, Peeling
  <2>2. ASSUME NEW i \in 1..n PROVE Freed(i) \in Nat
    <3> DEFINE T == {d \in dag(clusters) : d[1] \in level /\ d[2] = i}
    <3>1. T \in SUBSET dag(clusters)
      OBVIOUS
    <3> HIDE DEF T
    <3>2. Cardinality(T) \in Nat
      BY <3>1, CountsAreNatural, FS_Subset, FS_CardinalityType
    <3> QED
      BY <3>2 DEF T
  <2> HIDE DEF level
  <2>3. Lists(Ordered(level, inbound), level)
    BY <2>1, OrderedLists DEF ClustersOf
  <2>4. Covers(after.levels, after.processed)
    <3>1. Covers(Append(acc.levels, Ordered(level, inbound)), acc.processed \cup level)
      BY <1>3, <2>1, <2>3, AppendedLevelCovers
    <3> QED
      BY <3>1
  <2>5. after.levels \in Seq(Seq(1..n))
    <3> DEFINE T == Seq(1..n)
    <3>1. Ordered(level, inbound) \in Seq(level) /\ Seq(level) \subseteq Seq(1..n)
      BY <2>1, <2>3, ListsAreSeqs, SeqMonotonic DEF Lists
    <3>2. acc.levels \in Seq(T) /\ Ordered(level, inbound) \in T
      BY <3>1 DEF Peeling
    <3> HIDE DEF T
    <3>3. Append(acc.levels, Ordered(level, inbound)) \in Seq(T)
      BY <3>2, AppendProperties
    <3> QED
      BY <3>3 DEF T
  <2>6. after.degree \in [1..n -> Int]
    <3>0. acc.degree \in [1..n -> Int]
      BY DEF Peeling
    <3> HIDE DEF Freed
    <3>degrees. \A i \in 1..n : acc.degree[i] \in Int
      BY <3>0
    <3>1. \A i \in 1..n : acc.degree[i] \in Int /\ Freed(i) \in Int
      <4>1. \A i \in 1..n : Freed(i) \in Nat
        BY <2>2
      <4> QED
        BY <3>degrees, <4>1
    <3>2. \A i \in 1..n : acc.degree[i] - Freed(i) \in Int
      BY <3>1
    <3> QED
      BY <3>2 DEF ClustersOf
  <2>7. after.processed \in SUBSET (1..n)
    BY <2>1
  <2>8. after \in Peeling(n)
    <3> HIDE DEF Freed
    <3> QED
      BY <2>5, <2>6, <2>7 DEF Peeling
  <2> HIDE DEF after
  <2> QED
    BY <1>1, <1>3, <2>4, <2>8
<1> QED
  BY <1>2, <1>3

\* The greatest number is the one a fold over places takes out.
greatest(n) == [s \in SUBSET (1..n) |-> Max(s)]

LEMMA GreatestTakesFrom ==
    ASSUME NEW n \in Nat
    PROVE  /\ IsFiniteSet(1..n) /\ TakesFrom(greatest(n), 1..n)
           /\ \A s \in SUBSET (1..n) : greatest(n)[s] = Max(s)
<1>1. IsFiniteSet(1..n)
  BY FS_Interval
<1>2. ASSUME NEW s \in SUBSET (1..n), s # {} PROVE Max(s) \in s
  <2>1. s \subseteq 0..n
    OBVIOUS
  <2> QED
    BY <1>2, <2>1, MaxIsGreatest
<1> QED
  BY <1>1, <1>2 DEF TakesFrom, greatest

\* The iterates that a fold over places goes through, one place at a time.
Iterated(h, x0, g, X, n) ==
    h \in [0..n -> X] /\ h[0] = x0 /\ \A k \in 1..n : h[k] = g[h[k - 1]]

\* What a fold over places computes on the places s.
FoldsPlaces(f, x0, g, n) ==
    \A s \in SUBSET (1..n) : f[s] = IF s = {} THEN x0 ELSE g[f[s \ {Max(s)}]]

LEMMA PlacesFold ==
    ASSUME NEW n \in Nat, NEW X, NEW x0 \in X, NEW g \in [X -> X]
    PROVE  \E f \in [SUBSET (1..n) -> X] : FoldsPlaces(f, x0, g, n)
<1> DEFINE c == greatest(n)
           step == [p \in X \X (1..n) |-> g[p[1]]]
<1>1. \A x \in X, k \in 1..n : step[<<x, k>>] = g[x]
  OBVIOUS
<1> HIDE DEF step
<1>2. FoldsWithin(step, 1..n, X)
  BY <1>1 DEF FoldsWithin
<1>3. PICK f \in [SUBSET (1..n) -> X] : FoldOf(f, 1..n, c, x0, step)
  BY <1>2, GreatestTakesFrom, FoldExists
<1>4. ASSUME NEW s \in SUBSET (1..n) PROVE f[s] = IF s = {} THEN x0 ELSE g[f[s \ {Max(s)}]]
  <2>1. s # {} => s \ {Max(s)} \in SUBSET (1..n) /\ Max(s) \in 1..n /\ c[s] = Max(s)
    BY GreatestTakesFrom DEF TakesFrom
  <2> HIDE DEF c
  <2> QED
    BY ZenonT(60), <1>1, <1>3, <2>1 DEF FoldOf
<1> QED
  BY <1>3, <1>4 DEF FoldsPlaces

\* iter need not have its values in X: that follows.
FoldsInside(iter, x0, g, X, n) ==
    /\ iter[{}] = x0
    /\ \A s \in SUBSET (1..n) :
          s # {} /\ iter[s \ {Max(s)}] \in X => iter[s] = g[iter[s \ {Max(s)}]]

LEMMA PlacesIterate ==
    ASSUME NEW n \in Nat, NEW X, NEW x0 \in X, NEW g \in [X -> X], NEW iter,
           FoldsInside(iter, x0, g, X, n)
    PROVE  \E h : Iterated(h, x0, g, X, n) /\ h[n] = iter[1..n]
<1> DEFINE h == [k \in 0..n |-> iter[1..k]]
           Done == {k \in 0..n : iter[1..k] \in X /\ (k # 0 => iter[1..k] = g[iter[1..(k - 1)]])}
<1>1. 0 \in Done
  <2>1. 1..0 = {}
    OBVIOUS
  <2> QED
    BY <2>1 DEF FoldsInside
<1>2. ASSUME NEW k \in Nat, k < n, k \in Done PROVE k + 1 \in Done
  <2>1. /\ 1..(k + 1) \in SUBSET (1..n) /\ k + 1 \in 1..(k + 1)
        /\ (k + 1) - 1 = k /\ k + 1 \in 0..n /\ k + 1 # 0
    BY <1>2
  <2>2. Max(1..(k + 1)) = k + 1
    <3>1. 1..(k + 1) \subseteq 0..(k + 1) /\ k + 1 \in 1..(k + 1)
      OBVIOUS
    <3>2. Max(1..(k + 1)) \in 1..(k + 1) /\ k + 1 <= Max(1..(k + 1))
      BY SMTT(60), <2>1, <3>1, MaxIsGreatest
    <3> QED
      BY <3>2
  <2>3. (1..(k + 1)) \ {k + 1} = 1..k
    OBVIOUS
  <2>4. iter[1..(k + 1)] = g[iter[1..k]]
    BY <1>2, <2>1, <2>2, <2>3 DEF FoldsInside
  <2> QED
    BY <1>2, <2>1, <2>4
<1>3. \A k \in 0..n : k \in Done
  <2> HIDE DEF Done
  <2> QED
    BY <1>1, <1>2, Upto
<1>4. h \in [0..n -> X]
  BY <1>3
<1>5. h[0] = x0 /\ h[n] = iter[1..n]
  <2>1. 1..0 = {}
    OBVIOUS
  <2> QED
    BY <2>1 DEF FoldsInside
<1>6. ASSUME NEW k \in 1..n PROVE h[k] = g[h[k - 1]]
  <2>1. k \in 0..n /\ k - 1 \in 0..n /\ k # 0
    OBVIOUS
  <2>2. k \in Done
    BY <1>3, <2>1
  <2> QED
    BY <2>1, <2>2
<1> HIDE DEF h
<1> QED
  BY <1>4, <1>5, <1>6 DEF Iterated

\* Before each cluster in the levels come those it refers to.
Behind(levels, d) ==
    \E k, l \in DOMAIN levels :
        /\ k < l
        /\ \E x \in DOMAIN levels[k] : levels[k][x] = d[1]
        /\ \E y \in DOMAIN levels[l] : levels[l][y] = d[2]

\* A degree counts the references to clusters that are not in a level yet.
Pending(clusters, i, P) == {d \in dag(clusters) : d[2] = i /\ d[1] \notin P}

Peeled(acc, clusters, n) ==
    /\ acc \in Peeling(n)
    /\ Covers(acc.levels, acc.processed)
    /\ \A i \in 1..n : acc.degree[i] = Cardinality(Pending(clusters, i, acc.processed))
    /\ \A d \in dag(clusters) : d[2] \in acc.processed => Behind(acc.levels, d)

Ready(acc, n) == {i \in 1..n \ acc.processed : acc.degree[i] = 0}

LEMMA PendingIsFinite ==
    ASSUME NEW clusters, NEW n, ClustersOf(clusters, n), NEW i, NEW P
    PROVE  IsFiniteSet(Pending(clusters, i, P)) /\ Cardinality(Pending(clusters, i, P)) \in Nat
<1>1. Pending(clusters, i, P) \in SUBSET dag(clusters)
  BY DEF Pending
<1> QED
  BY <1>1, CountsAreNatural, FS_Subset, FS_CardinalityType

Freeing(clusters, i, Q) == {d \in dag(clusters) : d[1] \in Q /\ d[2] = i}

\* What a level frees a cluster of is no longer pending.
LEMMA FreedIsCounted ==
    ASSUME NEW clusters, NEW n, ClustersOf(clusters, n), NEW i, NEW P, NEW Q, P \cap Q = {}
    PROVE  Cardinality(Pending(clusters, i, P)) - Cardinality(Freeing(clusters, i, Q))
           = Cardinality(Pending(clusters, i, P \cup Q))
<1> DEFINE A == Pending(clusters, i, P)
           B == Freeing(clusters, i, Q)
<1>1. IsFiniteSet(A) /\ Cardinality(A) \in Nat
  BY PendingIsFinite
<1>2. B \in SUBSET A /\ A \ B = Pending(clusters, i, P \cup Q) /\ A \cap B = B
  BY DEF Pending, Freeing
<1> HIDE DEF A, B
<1>3. Cardinality(A \ B) = Cardinality(A) - Cardinality(B)
  BY <1>1, <1>2, FS_Difference
<1>4. Cardinality(B) \in Nat
  BY <1>1, <1>2, FS_Subset, FS_CardinalityType
<1> QED
  BY <1>1, <1>2, <1>3, <1>4 DEF A, B

LEMMA PeelPeels ==
    ASSUME NEW clusters, NEW n, ClustersOf(clusters, n),
           NEW inbound, \A i \in 1..n : inbound[i] \in Nat,
           NEW acc, Peeled(acc, clusters, n)
    PROVE  /\ Peeled(Peel(acc, clusters, inbound), clusters, n)
           /\ Peel(acc, clusters, inbound).processed = acc.processed \cup Ready(acc, n)
           /\ Ready(acc, n) = {} => Peel(acc, clusters, inbound) = acc
<1> DEFINE level == Ready(acc, n)
           Freed(i) == Cardinality(Freeing(clusters, i, level))
           after == [levels |-> Append(acc.levels, Ordered(level, inbound)),
                     processed |-> acc.processed \cup level,
                     degree |-> [i \in 1..n |-> acc.degree[i] - Freed(i)]]
           new == Peel(acc, clusters, inbound)
<1>1. DOMAIN clusters = 1..n /\ n \in Nat
  BY DEF ClustersOf
<1>2. new = IF level = {} THEN acc ELSE after
  <2>1. level = {i \in DOMAIN clusters \ acc.processed : acc.degree[i] = 0}
    BY <1>1 DEF Ready
  <2> HIDE DEF level
  <2> QED
    BY <1>1, <2>1 DEF Peel, Freeing
<1>3. acc.processed \in SUBSET (1..n) /\ level \in SUBSET (1..n) /\ acc.processed \cap level = {}
  BY DEF Peeled, Peeling, Ready
<1>4. new \in Peeling(n) /\ Covers(new.levels, new.processed)
  BY PeelCovers DEF Peeled
<1>5. CASE level = {}
  BY <1>2, <1>5
<1>6. CASE level # {}
  <2>1. new = after
    BY <1>2, <1>6
  <2>2. ASSUME NEW i \in 1..n
        PROVE  new.degree[i] = Cardinality(Pending(clusters, i, acc.processed \cup level))
    <3>1. new.degree[i] = acc.degree[i] - Freed(i)
      BY <2>1
    <3>2. acc.degree[i] = Cardinality(Pending(clusters, i, acc.processed))
      BY DEF Peeled
    <3> HIDE DEF level, new
    <3>3. Cardinality(Pending(clusters, i, acc.processed)) - Freed(i)
             = Cardinality(Pending(clusters, i, acc.processed \cup level))
      BY <1>3, FreedIsCounted
    <3> HIDE DEF Freed
    <3> QED
      BY <3>1, <3>2, <3>3
  <2>3. ASSUME NEW d \in dag(clusters), d[2] \in acc.processed \cup level
        PROVE  Behind(new.levels, d)
    <3> DEFINE L == Len(acc.levels)
    <3>1. new.levels = Append(acc.levels, Ordered(level, inbound))
      BY <2>1
    <3>2. /\ L \in Nat /\ DOMAIN acc.levels = 1..L /\ DOMAIN new.levels = 1..(L + 1)
          /\ \A k \in 1..L : new.levels[k] = acc.levels[k]
          /\ new.levels[L + 1] = Ordered(level, inbound)
      <4> DEFINE S == Seq(acc.processed)
                 T == Seq(1..n)
      <4>1. acc.levels \in Seq(T) /\ new.levels \in Seq(T)
        BY <1>4 DEF Peeled, Peeling
      <4> HIDE DEF T, new
      <4>2. L \in Nat /\ DOMAIN acc.levels = 1..L
        BY <4>1, LenProperties
      <4>3. Len(new.levels) = L + 1
        BY <3>1, <4>1, AppendProperties
      <4> QED
        BY <3>1, <4>1, <4>2, <4>3, LenProperties, AppendProperties
    <3> HIDE DEF new, L
    <3>3. CASE d[2] \in acc.processed
      <4>1. Behind(acc.levels, d)
        BY <3>3 DEF Peeled
      <4>2. 1..L \subseteq 1..(L + 1)
        BY <3>2
      <4> QED
        BY SMTT(60), <3>2, <4>1, <4>2 DEF Behind
    <3>4. CASE d[2] \in level
      <4>1. d[1] \in acc.processed
        <5> DEFINE A == Pending(clusters, d[2], acc.processed)
        <5>1. Cardinality(A) = 0
          BY <1>3, <3>4 DEF Peeled, Ready
        <5>2. IsFiniteSet(A)
          BY PendingIsFinite
        <5>3. A = {}
          <6> HIDE DEF A
          <6> QED
            BY <5>1, <5>2, FS_EmptySet
        <5> QED
          BY <5>3 DEF Pending
      <4>2. PICK k \in 1..L : \E x \in DOMAIN acc.levels[k] : acc.levels[k][x] = d[1]
        <5>1. \A x \in acc.processed : \E k \in DOMAIN acc.levels :
                  \E i \in DOMAIN acc.levels[k] : acc.levels[k][i] = x
          BY Zenon DEF Peeled, Covers
        <5> QED
          BY <3>2, <4>1, <5>1
      <4>3. \E y \in DOMAIN Ordered(level, inbound) : Ordered(level, inbound)[y] = d[2]
        <5>1. Lists(Ordered(level, inbound), level)
          BY <1>1, <1>3, OrderedLists
        <5>2. \E y \in 1..Cardinality(level) : Ordered(level, inbound)[y] = d[2]
          BY <3>4, <5>1 DEF Lists
        <5>3. DOMAIN Ordered(level, inbound) = 1..Cardinality(level)
          BY <5>1 DEF Lists
        <5> QED
          BY <5>2, <5>3
      <4>4. k \in 1..(L + 1) /\ L + 1 \in 1..(L + 1) /\ k < L + 1
        BY <3>2
      <4> QED
        BY SMTT(60), <3>2, <4>2, <4>3, <4>4 DEF Behind
    <3> QED
      BY <2>3, <3>3, <3>4
  <2>4. new.processed = acc.processed \cup level
    BY <2>1
  <2> HIDE DEF new, level
  <2> QED
    BY <1>4, <1>6, <2>2, <2>3, <2>4 DEF Peeled, level, new
<1> QED
  BY <1>5, <1>6

Kahn(clusters, inbound, start) ==
    FoldLeft(LAMBDA acc, c : Peel(acc, clusters, inbound), start, clusters)

LEMMA KahnPeels ==
    ASSUME NEW clusters, NEW n, ClustersOf(clusters, n),
           NEW inbound, \A i \in 1..n : inbound[i] \in Nat,
           NEW start, Peeled(start, clusters, n)
    PROVE  /\ Peeled(Kahn(clusters, inbound, start), clusters, n)
           /\ Ready(Kahn(clusters, inbound, start), n) = {}
<1> DEFINE X == {acc \in Peeling(n) : Peeled(acc, clusters, n)}
           E(f) == [s \in SUBSET (1..n) |->
                       IF s = {} THEN start ELSE Peel(f[s \ {Max(s)}], clusters, inbound)]
           iter == CHOOSE f : f = E(f)
           g == [acc \in X |-> Peel(acc, clusters, inbound)]
<1>0. n \in Nat /\ DOMAIN clusters = 1..n
  BY DEF ClustersOf
<1>1. Kahn(clusters, inbound, start) = iter[1..n]
  BY <1>0, Zenon DEF Kahn, FoldLeft, MapThenFoldSet
<1>2. /\ start \in X /\ g \in [X -> X] /\ \A acc \in X : g[acc] = Peel(acc, clusters, inbound)
      /\ \A acc \in X : Peeled(acc, clusters, n)
  BY PeelPeels DEF Peeled
<1> HIDE DEF X, g
<1>3. iter = E(iter)
  <2>1. PICK f \in [SUBSET (1..n) -> X] : FoldsPlaces(f, start, g, n)
    BY <1>0, <1>2, PlacesFold
  <2>2. ASSUME NEW s \in SUBSET (1..n)
        PROVE  f[s] = IF s = {} THEN start ELSE Peel(f[s \ {Max(s)}], clusters, inbound)
    <3>1. f[s \ {Max(s)}] \in X
      BY <2>1
    <3> QED
      BY <1>2, <2>1, <3>1 DEF FoldsPlaces
  <2>3. f = E(f)
    BY <2>1, <2>2
  <2> HIDE DEF E
  <2> QED
    BY <2>3
<1> HIDE DEF iter
<1>4. PICK h : Iterated(h, start, g, X, n) /\ h[n] = iter[1..n]
  <2>1. iter[{}] = start
    BY <1>3
  <2>2. ASSUME NEW s \in SUBSET (1..n), s # {}, iter[s \ {Max(s)}] \in X
        PROVE  iter[s] = g[iter[s \ {Max(s)}]]
    BY <1>2, <1>3, <2>2
  <2>3. FoldsInside(iter, start, g, X, n)
    BY <2>1, <2>2 DEF FoldsInside
  <2> QED
    BY <1>0, <1>2, <2>3, PlacesIterate
\* A level takes a cluster at least, until there is none ready.
<1> DEFINE Stuck == {k \in 0..n : Ready(h[k], n) = {} \/ Cardinality(h[k].processed) >= k}
<1>5. \A k \in 0..n : h[k] \in X /\ Peeled(h[k], clusters, n) /\ h[k].processed \in SUBSET (1..n)
                      /\ IsFiniteSet(h[k].processed) /\ Cardinality(h[k].processed) \in Nat
  <2>1. ASSUME NEW k \in 0..n PROVE h[k] \in X /\ Peeled(h[k], clusters, n)
    BY <1>2, <1>4 DEF Iterated
  <2>2. ASSUME NEW k \in 0..n PROVE h[k].processed \in SUBSET (1..n)
    BY <2>1 DEF Peeled, Peeling
  <2>3. IsFiniteSet(1..n)
    BY <1>0, FS_Interval
  <2> QED
    BY <2>1, <2>2, <2>3, FS_Subset, FS_CardinalityType
<1>6. \A k \in 0..n : k \in Stuck
  <2>1. 0 \in Stuck
    BY <1>0, <1>5
  <2>2. ASSUME NEW k \in Nat, k < n, k \in Stuck PROVE k + 1 \in Stuck
    <3> DEFINE P == h[k].processed
               R == Ready(h[k], n)
    <3>1. /\ k \in 0..n /\ k + 1 \in 0..n /\ k + 1 \in 1..n /\ (k + 1) - 1 = k
      BY <1>0, <2>2
    <3>2. h[k + 1] = Peel(h[k], clusters, inbound)
      <4>1. h[k + 1] = g[h[(k + 1) - 1]]
        BY <1>4, <3>1 DEF Iterated
      <4> QED
        BY <1>2, <1>5, <3>1, <4>1
    <3>3. h[k + 1].processed = P \cup R /\ (R = {} => h[k + 1] = h[k])
      BY <1>5, <3>1, <3>2, PeelPeels
    <3>4. CASE R = {}
      BY <3>1, <3>3, <3>4
    <3>5. CASE R # {}
      <4>1. PICK i \in R : i \notin P
        BY <3>5 DEF Ready
      <4>2. /\ Cardinality(P) \in Nat /\ IsFiniteSet(P) /\ IsFiniteSet(P \cup R) /\ Cardinality(P) >= k
            /\ Cardinality(P \cup R) \in Nat
        BY <1>5, <2>2, <3>1, <3>3, <3>5
      <4>3. P \cup {i} \in SUBSET (P \cup R)
        BY <4>1
      <4> HIDE DEF P, R
      <4>4. Cardinality(P \cup {i}) = Cardinality(P) + 1
        BY <4>1, <4>2, FS_AddElement
      <4>5. Cardinality(P \cup {i}) <= Cardinality(P \cup R)
        BY <4>2, <4>3, FS_Subset
      <4>6. Cardinality(h[k + 1].processed) >= k + 1
        BY <3>3, <4>2, <4>4, <4>5
      <4> QED
        BY <3>1, <4>6
    <3> QED
      BY <3>4, <3>5
  <2> HIDE DEF Stuck
  <2> QED
    BY <1>0, <2>1, <2>2, Upto
<1>7. Ready(h[n], n) = {}
  <2>1. n \in 0..n
    BY <1>0
  <2>2. SUFFICES ASSUME Cardinality(h[n].processed) >= n PROVE h[n].processed = 1..n
    BY <1>6, <2>1 DEF Ready
  <2>3. IsFiniteSet(1..n) /\ Cardinality(1..n) = n
    BY <1>0, FS_Interval
  <2>4. Cardinality(h[n].processed) <= n
    BY <1>5, <2>1, <2>3, FS_Subset
  <2>5. Cardinality(h[n].processed) = n
    BY <1>0, <1>5, <2>1, <2>2, <2>4
  <2> QED
    BY <1>5, <2>1, <2>3, <2>5, FS_Subset
<1>8. n \in 0..n
  BY <1>0
<1> QED
  BY <1>1, <1>4, <1>5, <1>7, <1>8

\* The levels have every cluster once, and only those from which a cycle is
\* reached do not come behind all that they refer to.
LEMMA LevelsFollow ==
    ASSUME NEW clusters, NEW n, ClustersOf(clusters, n), dag(clusters) \subseteq (1..n) \X (1..n)
    PROVE  /\ Covers(compute_parallel_levels(clusters), 1..n)
           /\ \E R \in SUBSET (1..n) :
                 /\ \A i \in R : \E j \in R : <<j, i>> \in dag(clusters)
                 /\ \A d \in dag(clusters) :
                       d[2] \in R \/ Behind(compute_parallel_levels(clusters), d)
<1> DEFINE inbound == [i \in DOMAIN clusters |-> inbound_cross_count(clusters, i)]
           start == [levels |-> <<>>, processed |-> {},
                     degree |-> [i \in DOMAIN clusters |-> in_degree(clusters, i)]]
           kahn == Kahn(clusters, inbound, start)
           remaining == 1..n \ kahn.processed
           levels == compute_parallel_levels(clusters)
<1>1. n \in Nat /\ DOMAIN clusters = 1..n /\ DOMAIN inbound = 1..n
  BY DEF ClustersOf
<1>2. \A i \in 1..n : inbound[i] \in Nat
  BY <1>1, CountsAreNatural
<1>3. Peeled(start, clusters, n)
  <2>1. start.degree \in [1..n -> Int]
    BY <1>1, CountsAreNatural
  <2>2. start.levels \in Seq(Seq(1..n)) /\ start.processed \in SUBSET (1..n)
    BY EmptySeq
  <2>3. start \in Peeling(n)
    BY <2>1, <2>2 DEF Peeling
  <2>4. <<>> \in Seq(Seq({})) /\ DOMAIN <<>> = {}
    BY EmptySeq
  <2>5. Covers(<<>>, {})
    BY <2>4 DEF Covers
  <2>6. ASSUME NEW i \in 1..n PROVE start.degree[i] = Cardinality(Pending(clusters, i, {}))
    <3>1. Pending(clusters, i, {}) = {d \in dag(clusters) : d[2] = i}
      BY DEF Pending
    <3> QED
      BY <1>1, <3>1 DEF in_degree
  <2> QED
    BY <2>3, <2>5, <2>6 DEF Peeled
<1>4. levels = WithRemaining(kahn, inbound)
  BY DEF compute_parallel_levels, Kahn
<1> HIDE DEF inbound, start
<1>5. Peeled(kahn, clusters, n) /\ Ready(kahn, n) = {}
  BY <1>2, <1>3, KahnPeels
<1> HIDE DEF kahn, levels
<1>6. kahn.processed \in SUBSET (1..n) /\ Covers(kahn.levels, kahn.processed)
  BY <1>5 DEF Peeled, Peeling
<1>7. Covers(levels, 1..n) /\ \A d \in dag(clusters) : Behind(kahn.levels, d) => Behind(levels, d)
  <2>1. CASE remaining = {}
    <3>1. levels = kahn.levels /\ kahn.processed = 1..n
      BY <1>1, <1>4, <1>6, <2>1 DEF WithRemaining
    <3> QED
      BY <1>6, <3>1
  <2>2. CASE remaining # {}
    <3>1. levels = Append(kahn.levels, Ordered(remaining, inbound))
      BY <1>1, <1>4, <2>2 DEF WithRemaining
    <3>2. Lists(Ordered(remaining, inbound), remaining)
      BY <1>1, <1>2, OrderedLists
    <3>3. kahn.processed \cap remaining = {} /\ kahn.processed \cup remaining = 1..n
      BY <1>6
    <3> HIDE DEF remaining
    <3>4. Covers(levels, kahn.processed \cup remaining)
      BY <1>6, <2>2, <3>1, <3>2, <3>3, AppendedLevelCovers
    <3>5. DOMAIN kahn.levels \subseteq DOMAIN levels
          /\ \A k \in DOMAIN kahn.levels : levels[k] = kahn.levels[k]
          /\ DOMAIN kahn.levels \subseteq Int
      <4> DEFINE T == Seq(kahn.processed)
      <4>1. kahn.levels \in Seq(T)
        BY <1>6 DEF Covers
      <4> HIDE DEF T
      <4>2. /\ Len(kahn.levels) \in Nat /\ DOMAIN kahn.levels = 1..Len(kahn.levels)
        BY <4>1, LenProperties
      <4>3. \A m : /\ DOMAIN Append(kahn.levels, m) = 1..(Len(kahn.levels) + 1)
                   /\ \A k \in 1..Len(kahn.levels) : Append(kahn.levels, m)[k] = kahn.levels[k]
        BY <4>1, <4>2
      <4> QED
        BY <3>1, <4>2, <4>3
    <3>6. ASSUME NEW d \in dag(clusters), Behind(kahn.levels, d) PROVE Behind(levels, d)
      BY <3>5, <3>6 DEF Behind
    <3> QED
      BY <3>3, <3>4, <3>6
  <2> QED
    BY <2>1, <2>2
<1>8. ASSUME NEW i \in remaining PROVE \E j \in remaining : <<j, i>> \in dag(clusters)
  <2> DEFINE A == Pending(clusters, i, kahn.processed)
  <2>1. kahn.degree[i] # 0 /\ kahn.degree[i] = Cardinality(A)
    BY <1>5, <1>8 DEF Ready, Peeled
  <2>2. A # {}
    <3> HIDE DEF A
    <3> QED
      BY <2>1, FS_EmptySet
  <2>3. PICK d \in dag(clusters) : d[2] = i /\ d[1] \notin kahn.processed
    BY <2>2 DEF Pending
  <2>4. d[1] \in remaining /\ d = <<d[1], i>>
    BY <2>3
  <2> QED
    BY <2>3, <2>4
<1>9. ASSUME NEW d \in dag(clusters) PROVE d[2] \in remaining \/ Behind(levels, d)
  <2>1. d[2] \in 1..n
    OBVIOUS
  <2> QED
    BY <1>5, <1>7, <2>1 DEF Peeled
<1>10. remaining \in SUBSET (1..n)
  OBVIOUS
<1> HIDE DEF remaining
<1> QED
  BY <1>7, <1>8, <1>9, <1>10 DEF levels

-----------------------------------------------------------------------------
(* What a plan refers to.                                                   *)

Closed(plan, T) == \A i \in T : References(plan, i) \subseteq T

\* Reached is the smallest closed set: as many steps as there are clusters
\* are enough.
LEMMA ReachedCloses ==
    ASSUME NEW plan, NEW n \in Nat, DOMAIN plan.clusters = 1..n, NEW S \in SUBSET (1..n)
    PROVE  /\ Reached(plan, S) \in SUBSET (1..n) /\ S \subseteq Reached(plan, S)
           /\ Closed(plan, Reached(plan, S))
           /\ \A T : S \subseteq T /\ Closed(plan, T) => Reached(plan, S) \subseteq T
<1> DEFINE Refs(i) == References(plan, i)
           Wider(T) == T \cup UNION {Refs(i) : i \in T}
           X == SUBSET (1..n)
           E(f) == [s \in SUBSET (1..n) |-> IF s = {} THEN S ELSE Wider(f[s \ {Max(s)}])]
           iter == CHOOSE f : f = E(f)
           g == [T \in X |-> Wider(T)]
<1>1. Reached(plan, S) = iter[1..n]
  BY Zenon DEF Reached, FoldLeft, MapThenFoldSet
<1>2. \A i : Refs(i) \subseteq 1..n
  BY DEF References
<1> HIDE DEF Refs
<1>3. /\ S \in X /\ g \in [X -> X] /\ \A T \in X : g[T] = Wider(T)
      /\ \A T \in X : T \subseteq Wider(T)
  BY <1>2
<1>closed. \A T : Closed(plan, T) <=> \A i \in T : Refs(i) \subseteq T
  BY DEF Closed, Refs
<1>4. \A T : (Closed(plan, T) <=> Wider(T) = T) /\ (Closed(plan, T) => \A s \in SUBSET T : Wider(s) \subseteq T)
  BY <1>closed
<1> HIDE DEF g, Wider
<1>5. iter = E(iter)
  <2>1. PICK f \in [SUBSET (1..n) -> X] : FoldsPlaces(f, S, g, n)
    BY <1>3, PlacesFold
  <2>2. ASSUME NEW s \in SUBSET (1..n)
        PROVE  f[s] = IF s = {} THEN S ELSE Wider(f[s \ {Max(s)}])
    <3>1. f[s \ {Max(s)}] \in X
      BY <2>1
    <3> QED
      BY <1>3, <2>1, <3>1 DEF FoldsPlaces
  <2>3. f = E(f)
    BY <2>1, <2>2
  <2> HIDE DEF E
  <2> QED
    BY <2>3
<1> HIDE DEF iter
<1>6. PICK h : Iterated(h, S, g, X, n) /\ h[n] = iter[1..n]
  <2>1. iter[{}] = S
    BY <1>5
  <2>2. ASSUME NEW s \in SUBSET (1..n), s # {}, iter[s \ {Max(s)}] \in X
        PROVE  iter[s] = g[iter[s \ {Max(s)}]]
    <3>1. iter[s] = Wider(iter[s \ {Max(s)}])
      BY <1>5, <2>2
    <3> HIDE DEF X
    <3> QED
      BY <1>3, <2>2, <3>1
  <2> HIDE DEF X
  <2>3. FoldsInside(iter, S, g, X, n)
    BY <2>1, <2>2 DEF FoldsInside
  <2> QED
    BY <1>3, <2>3, PlacesIterate
<1> HIDE DEF X
<1>7. /\ \A k \in 0..n : h[k] \in X
      /\ h[0] = S
      /\ \A k \in Nat : k < n => h[k + 1] = Wider(h[k])
  <2>1. h \in [0..n -> X] /\ h[0] = S /\ \A k \in 1..n : h[k] = g[h[k - 1]]
    BY <1>6 DEF Iterated
  <2>2. ASSUME NEW k \in Nat, k < n PROVE h[k + 1] = Wider(h[k])
    <3>1. k + 1 \in 1..n /\ (k + 1) - 1 = k /\ k \in 0..n
      BY <2>2
    <3> QED
      BY <1>3, <2>1, <3>1
  <2> QED
    BY <2>1, <2>2
<1>8. \A k \in 0..n : /\ h[k] \in SUBSET (1..n) /\ IsFiniteSet(h[k]) /\ Cardinality(h[k]) \in Nat
                      /\ Cardinality(h[k]) <= n
  <2>1. IsFiniteSet(1..n) /\ Cardinality(1..n) = n
    BY FS_Interval
  <2>2. \A k \in 0..n : h[k] \in SUBSET (1..n)
    BY <1>7 DEF X
  <2> QED
    BY <2>1, <2>2, FS_Subset, FS_CardinalityType
<1>9. ASSUME NEW T, S \subseteq T, Closed(plan, T) PROVE h[n] \subseteq T
  <2> DEFINE In == {k \in 0..n : h[k] \subseteq T}
  <2>1. 0 \in In
    <3>1. h[0] \subseteq T /\ 0 \in 0..n
      BY <1>7, <1>9
    <3> QED
      BY <3>1
  <2>2. ASSUME NEW k \in Nat, k < n, k \in In PROVE k + 1 \in In
    BY <1>4, <1>7, <1>9, <2>2
  <2>3. \A k \in 0..n : k \in In
    <3> HIDE DEF In
    <3> QED
      BY <2>1, <2>2, Upto
  <2> QED
    BY <2>3
<1>10. S \subseteq h[n]
  <2> DEFINE In == {k \in 0..n : S \subseteq h[k]}
  <2>1. 0 \in In
    BY <1>7
  <2>2. ASSUME NEW k \in Nat, k < n, k \in In PROVE k + 1 \in In
    <3>1. h[k] \subseteq h[k + 1]
      BY <1>3, <1>7, <2>2
    <3> QED
      BY <2>2, <3>1
  <2>3. \A k \in 0..n : k \in In
    <3> HIDE DEF In
    <3> QED
      BY <2>1, <2>2, Upto
  <2> QED
    BY <2>3
\* Every step adds a cluster, until there is none to add.
<1>11. Closed(plan, h[n])
  <2> DEFINE Grown == {k \in 0..n : Closed(plan, h[k]) \/ Cardinality(h[k]) >= k}
  <2>1. 0 \in Grown
    BY <1>8
  <2>2. ASSUME NEW k \in Nat, k < n, k \in Grown PROVE k + 1 \in Grown
    <3>1. k \in 0..n /\ k + 1 \in 0..n /\ h[k + 1] = Wider(h[k])
      BY <1>7, <2>2
    <3>2. CASE Closed(plan, h[k])
      BY <1>4, <3>1, <3>2
    <3>3. CASE ~ Closed(plan, h[k])
      <4>1. h[k] \in SUBSET h[k + 1] /\ h[k] # h[k + 1]
        <5>1. h[k] \in X /\ h[k + 1] = Wider(h[k])
          BY <1>7, <3>1
        <5>2. h[k] \subseteq Wider(h[k])
          BY <1>3, <5>1
        <5>3. Wider(h[k]) # h[k]
          BY <1>4, <3>3
        <5> QED
          BY <5>1, <5>2, <5>3
      <4>2. Cardinality(h[k]) <= Cardinality(h[k + 1]) /\ Cardinality(h[k]) # Cardinality(h[k + 1])
        BY <1>8, <3>1, <4>1, FS_Subset
      <4>3. Cardinality(h[k]) >= k /\ Cardinality(h[k]) \in Nat /\ Cardinality(h[k + 1]) \in Nat
        BY <1>8, <2>2, <3>1, <3>3
      <4>4. Cardinality(h[k + 1]) >= k + 1
        BY <4>2, <4>3
      <4> QED
        BY <3>1, <4>4
    <3> QED
      BY <3>2, <3>3
  <2>3. \A k \in 0..n : k \in Grown
    <3> HIDE DEF Grown
    <3> QED
      BY <2>1, <2>2, Upto
  <2>4. CASE Cardinality(h[n]) >= n
    <3>1. IsFiniteSet(1..n) /\ Cardinality(1..n) = n /\ n \in 0..n
      BY FS_Interval
    <3>2. h[n] \in SUBSET (1..n) /\ Cardinality(h[n]) = n
      BY <1>8, <2>4, <3>1
    <3>3. h[n] = 1..n
      BY <3>1, <3>2, FS_Subset
    <3> QED
      BY <1>2, <1>closed, <3>3
  <2> QED
    BY <2>3, <2>4
<1>12. Reached(plan, S) = h[n] /\ h[n] \in SUBSET (1..n)
  <2>1. n \in 0..n
    OBVIOUS
  <2> QED
    BY <1>1, <1>6, <1>8, <2>1
<1> QED
  BY <1>9, <1>10, <1>11, <1>12

\* From a set every member of which refers to another a cycle is reached.
LEMMA EndlessLeadsIntoCycle ==
    ASSUME NEW plan, NEW n \in Nat, DOMAIN plan.clusters = 1..n,
           NEW R \in SUBSET (1..n), \A i \in R : \E j \in R : j \in References(plan, i),
           NEW i \in R
    PROVE  \E k \in Reached(plan, {i}) : k \in Reached(plan, References(plan, k))
<1> DEFINE from(k) == Reached(plan, {k})
           size(k) == Cardinality(from(k))
           met == from(i) \cap R
           sizes == {size(k) : k \in met}
<1>1. ASSUME NEW k \in 1..n
      PROVE  /\ from(k) \in SUBSET (1..n) /\ k \in from(k) /\ Closed(plan, from(k))
             /\ \A T : k \in T /\ Closed(plan, T) => from(k) \subseteq T
             /\ IsFiniteSet(from(k)) /\ size(k) \in Nat
  <2>1. {k} \in SUBSET (1..n)
    OBVIOUS
  <2>2. /\ from(k) \in SUBSET (1..n) /\ {k} \subseteq from(k) /\ Closed(plan, from(k))
        /\ \A T : {k} \subseteq T /\ Closed(plan, T) => from(k) \subseteq T
    BY <2>1, ReachedCloses
  <2>3. IsFiniteSet(from(k)) /\ size(k) \in Nat
    <3>1. IsFiniteSet(1..n)
      BY FS_Interval
    <3>2. IsFiniteSet(from(k))
      BY <2>2, <3>1, FS_Subset
    <3> QED
      BY <3>2, FS_CardinalityType
  <2> QED
    BY <2>2, <2>3
<1> HIDE DEF from
<1>2. PICK k \in met : \A m \in met : size(k) <= size(m)
  <2>1. i \in met /\ met \subseteq 1..n
    BY <1>1
  <2>2. sizes \subseteq Nat /\ sizes # {}
    <3>1. \A m \in met : size(m) \in Nat
      BY <1>1, <2>1
    <3> HIDE DEF size, met
    <3> QED
      BY <2>1, <3>1
  <2>3. \E x \in sizes : \A y \in sizes : x <= y
    <3> HIDE DEF sizes
    <3> QED
      BY <2>2, Least
  <2> HIDE DEF size, met
  <2> QED
    BY <2>3
<1>3. PICK j \in R : j \in References(plan, k)
  BY <1>2
<1>4. k \in 1..n /\ j \in 1..n
  BY <1>2
<1>5. j \in from(k) /\ j \in met
  BY <1>1, <1>2, <1>3, <1>4 DEF Closed
<1>6. from(j) \subseteq from(k)
  BY <1>1, <1>4, <1>5
<1>7. from(j) = from(k)
  <2>1. size(j) <= size(k)
    BY <1>1, <1>4, <1>6, FS_Subset
  <2>2. size(k) <= size(j)
    BY <1>2, <1>5
  <2>3. size(j) = size(k)
    BY SMTT(60), <1>1, <1>4, <2>1, <2>2
  <2> QED
    BY <1>1, <1>4, <1>6, <2>3, FS_Subset
<1>8. from(j) \subseteq Reached(plan, References(plan, k))
  <2> DEFINE T == Reached(plan, References(plan, k))
  <2>1. References(plan, k) \in SUBSET (1..n)
    BY DEF References
  <2>2. References(plan, k) \subseteq T /\ Closed(plan, T)
    BY <2>1, ReachedCloses
  <2> HIDE DEF T
  <2>3. j \in T
    BY <1>3, <2>2
  <2>4. \A U : j \in U /\ Closed(plan, U) => from(j) \subseteq U
    BY <1>1, <1>4
  <2> QED
    BY <2>2, <2>3, <2>4 DEF T
<1> QED
  BY <1>1, <1>2, <1>4, <1>7, <1>8 DEF from

-----------------------------------------------------------------------------
(* The parts have every table once, and keys hold each of them together.    *)

Links(fk, u, v) == {fk.from, fk.to} = {u, v}

\* The keys of s hold g together.
Connected(s, g) ==
    \A X \in (SUBSET g) \ {{}, g} : \E fk \in Known(s) : \E u \in X, v \in g \ X : Links(fk, u, v)

LEMMA OneTableIsConnected ==
    ASSUME NEW s, NEW t
    PROVE  Connected(s, {t})
  BY DEF Connected

LEMMA ConnectedTogether ==
    ASSUME NEW s, NEW g, NEW h, Connected(s, g), Connected(s, h),
           NEW fk \in Known(s), NEW u \in g, NEW v \in h, Links(fk, u, v)
    PROVE  Connected(s, g \cup h)
<1>1. SUFFICES ASSUME NEW X \in (SUBSET (g \cup h)) \ {{}, g \cup h}
               PROVE  \E k \in Known(s) : \E x \in X, y \in (g \cup h) \ X : Links(k, x, y)
  BY DEF Connected
<1>2. CASE X \cap g \notin {{}, g}
  <2>1. PICK k \in Known(s) : \E x \in X \cap g, y \in g \ (X \cap g) : Links(k, x, y)
    BY <1>2 DEF Connected
  <2> QED
    BY <2>1
<1>3. CASE X \cap h \notin {{}, h}
  <2>1. PICK k \in Known(s) : \E x \in X \cap h, y \in h \ (X \cap h) : Links(k, x, y)
    BY <1>3 DEF Connected
  <2> QED
    BY <2>1
<1>4. CASE X \cap g \in {{}, g} /\ X \cap h \in {{}, h}
  <2>1. (u \in X /\ v \in h \ X) \/ (v \in X /\ u \in g \ X)
    BY <1>4
  <2>2. Links(fk, v, u)
    BY DEF Links
  <2> QED
    BY <2>1, <2>2
<1> QED
  BY <1>2, <1>3, <1>4

\* Groups that share no table and leave none out, each held together.
Parted(s, G, tables) ==
    /\ G \in SUBSET SUBSET tables
    /\ UNION G = tables
    /\ {} \notin G
    /\ \A g, h \in G : g # h => g \cap h = {}
    /\ \A g \in G : Connected(s, g)

LEMMA JoinedIsParted ==
    ASSUME NEW s, NEW G, Parted(s, G, s.tables), NEW e \in collect_all_fks(s)
    PROVE  Parted(s, Joined(e, G), s.tables)
<1>1. PICK fk \in Known(s) : e = <<fk.from, fk.to>>
  BY DEF collect_all_fks
<1> DEFINE u == fk.from
           v == fk.to
           touched == {g \in G : g \cap {u, v} # {}}
<1>2. u \in s.tables /\ v \in s.tables /\ Links(fk, u, v)
  BY DEF Known, Links
<1>3. Joined(e, G) = (G \ touched) \cup {UNION touched}
  BY <1>1 DEF Joined
<1>4. PICK g \in G, h \in G : u \in g /\ v \in h
  BY <1>2 DEF Parted
<1>5. UNION touched = g \cup h
  <2>1. touched = {g, h}
    BY <1>4 DEF Parted
  <2> QED
    BY <2>1
<1>6. Connected(s, g \cup h)
  <2>1. Connected(s, g) /\ Connected(s, h)
    BY DEF Parted
  <2> QED
    BY <1>2, <1>4, <2>1, ConnectedTogether
<1>7. \A k \in G \ touched : k \cap (g \cup h) = {}
  <2>1. \A k \in G \ touched : k # g /\ k # h
    BY <1>4
  <2> QED
    BY <2>1 DEF Parted
<1>8. (UNION (G \ touched)) \cup (g \cup h) = s.tables
  BY <1>5 DEF Parted
<1> DEFINE rest == G \ touched
           both == g \cup h
<1>9. /\ Joined(e, G) = rest \cup {both} /\ rest \subseteq G
      /\ \A k \in rest : k \cap both = {}
      /\ (UNION rest) \cup both = s.tables /\ both # {} /\ both \subseteq s.tables
  BY <1>3, <1>4, <1>5, <1>7, <1>8
<1> HIDE DEF rest, both
<1>10. /\ Joined(e, G) \in SUBSET SUBSET s.tables
       /\ UNION Joined(e, G) = s.tables
       /\ {} \notin Joined(e, G)
  BY <1>9 DEF Parted
<1>11. \A k, l \in Joined(e, G) : k # l => k \cap l = {}
  BY <1>9 DEF Parted
<1>12. \A k \in Joined(e, G) : Connected(s, k)
  BY <1>6, <1>9 DEF Parted, both
<1> QED
  BY <1>10, <1>11, <1>12 DEF Parted

SchemaIsFinite(s) == IsFiniteSet(s.tables) /\ s.tables \subseteq Nat /\ IsFiniteSet(s.fks)

LEMMA ComponentsAreParted ==
    ASSUME NEW s, SchemaIsFinite(s)
    PROVE  Parted(s, components(s), s.tables)
<1> DEFINE D == collect_all_fks(s)
           K == {k \in Known(s) : k.from # k.to}
           pair == [fk \in K |-> <<fk.from, fk.to>>]
           X == {G \in SUBSET SUBSET s.tables : Parted(s, G, s.tables)}
           start == {{t} : t \in s.tables}
           c == [r \in SUBSET D |-> CHOOSE x \in r : TRUE]
           g == [p \in X \X D |-> Joined(p[2], p[1])]
           E(f) == [r \in SUBSET D |->
                       IF r = {} THEN start
                       ELSE Joined(CHOOSE x \in r : TRUE, f[r \ {CHOOSE x \in r : TRUE}])]
           iter == CHOOSE f : f = E(f)
<1>1. IsFiniteSet(D)
  <2>1. IsFiniteSet(K)
    <3>1. K \in SUBSET s.fks
      BY DEF Known
    <3> HIDE DEF K
    <3> QED
      BY <3>1, FS_Subset DEF SchemaIsFinite
  <2>2. pair \in Surjection(K, D)
    BY DEF Surjection, collect_all_fks
  <2> HIDE DEF pair, K, D
  <2> QED
    BY <2>1, <2>2, FS_Surjection
<1>2. components(s) = iter[D]
  BY Zenon DEF components, FoldSet, MapThenFoldSet
<1>3. start \in X
  <2>1. Parted(s, start, s.tables)
    <3>1. \A h \in start : Connected(s, h)
      BY OneTableIsConnected
    <3> QED
      BY <3>1 DEF Parted
  <2> QED
    BY <2>1
<1>4. \A G \in X, e \in D : Joined(e, G) \in X
  BY JoinedIsParted DEF Parted
<1>5. TakesFrom(c, D) /\ \A r \in SUBSET D : c[r] = CHOOSE x \in r : TRUE
  BY DEF TakesFrom
<1> HIDE DEF X, start, D
<1>6. \E f : f = E(f)
  <2>1. \A x \in X, k \in D : g[<<x, k>>] = Joined(k, x)
    OBVIOUS
  <2> HIDE DEF g, c
  <2>2. FoldsWithin(g, D, X)
    BY <1>4, <2>1 DEF FoldsWithin
  <2>3. PICK f \in [SUBSET D -> X] : FoldOf(f, D, c, start, g)
    BY ZenonT(60), <1>1, <1>3, <1>5, <2>2, FoldExists
  <2>4. ASSUME NEW r \in SUBSET D
        PROVE  f[r] = IF r = {} THEN start
                      ELSE Joined(CHOOSE x \in r : TRUE, f[r \ {CHOOSE x \in r : TRUE}])
    <3>1. r # {} => r \ {c[r]} \in SUBSET D /\ c[r] \in D
      BY <1>5 DEF TakesFrom
    <3>2. r # {} => f[r] = Joined(c[r], f[r \ {c[r]}])
      BY <2>1, <2>3, <3>1 DEF FoldOf
    <3>3. r = {} => f[r] = start
      BY <2>3 DEF FoldOf
    <3> QED
      BY <1>5, <3>2, <3>3
  <2>5. f = E(f)
    BY <2>3, <2>4
  <2> QED
    BY <2>5
<1>7. iter = E(iter)
  <2> HIDE DEF E
  <2> QED
    BY <1>6
<1> HIDE DEF iter
<1>8. \A r \in SUBSET D : iter[r] = IF r = {} THEN start ELSE Joined(c[r], iter[r \ {c[r]}])
  BY <1>5, <1>7
<1>9. iter[D] \in X
  <2> DEFINE T == {r \in SUBSET D : iter[r] \in X}
  <2> HIDE DEF c
  <2>1. {} \in T
    BY <1>3, <1>8
  <2>2. ASSUME NEW r \in SUBSET D, r # {}, r \ {c[r]} \in T PROVE r \in T
    <3>1. c[r] \in D
      BY <1>5, <2>2 DEF TakesFrom
    <3> QED
      BY <1>4, <1>8, <2>2, <3>1
  <2> HIDE DEF T
  <2>3. Hereditary(T, D, c)
    BY <2>1, <2>2 DEF Hereditary
  <2>4. D \in T
    BY <1>1, <1>5, <2>3, OverSubsets
  <2> QED
    BY <2>4 DEF T
<1> QED
  BY <1>2, <1>9 DEF X

LEMMA GroupsAreListed ==
    ASSUME NEW s, SchemaIsFinite(s)
    PROVE  IsFiniteSet(components(s)) /\ Lists(component_groups(s), components(s))
<1> DEFINE S == components(s)
           R == {p \in S \X S : Min(p[1]) < Min(p[2])}
<1>1. Parted(s, S, s.tables)
  BY ComponentsAreParted
<1>2. IsFiniteSet(S)
  <2>1. IsFiniteSet(SUBSET s.tables) /\ S \in SUBSET SUBSET s.tables
    BY <1>1, FS_SUBSET DEF SchemaIsFinite, Parted
  <2> HIDE DEF S
  <2> QED
    BY <2>1, FS_Subset
<1>3. component_groups(s) = SortedBy(S, R)
  BY DEF component_groups
<1> HIDE DEF S
<1>4. \A g \in S : Min(g) \in Nat /\ Min(g) \in g
  <2>1. \A g \in S : g # {} /\ g \subseteq Nat
    BY <1>1 DEF Parted, SchemaIsFinite
  <2> QED
    BY <2>1, MinIsLeast
<1>5. \A g, h \in S : g # h => Min(g) # Min(h)
  BY <1>1, <1>4 DEF Parted
<1>6. \A g, h \in S : <<g, h>> \in R <=> Min(g) < Min(h)
  OBVIOUS
<1> HIDE DEF R
<1>7. StrictOrder(S, R)
  BY <1>4, <1>5, <1>6 DEF StrictOrder
<1> QED
  BY <1>2, <1>3, <1>7, SortedByLists DEF S

LEMMA AscendingLists ==
    ASSUME NEW S, IsFiniteSet(S), S \subseteq Nat
    PROVE  Lists(Ascending(S), S)
<1> DEFINE R == {p \in S \X S : p[1] < p[2]}
<1>1. \A x, y \in S : <<x, y>> \in R <=> x < y
  OBVIOUS
<1>2. Ascending(S) = SortedBy(S, R)
  BY DEF Ascending
<1> HIDE DEF R
<1>3. StrictOrder(S, R)
  BY <1>1 DEF StrictOrder
<1> QED
  BY <1>2, <1>3, SortedByLists

\* What a walk through group that began at start has collected; before is
\* what earlier walks took.
Growing(s, group, max, before, start) ==
    {acc \in [assigned : SUBSET group, part : SUBSET group, queue : Seq(group)] :
        /\ acc.assigned = before \cup acc.part
        /\ acc.part \cap before = {}
        /\ start \in acc.part
        /\ acc.queue \in Seq(acc.part)
        /\ Connected(s, acc.part)
        /\ Cardinality(acc.part) <= max}

LEMMA TakeGrows ==
    ASSUME NEW s, NEW group, IsFiniteSet(group), NEW max \in Nat, NEW before, NEW start,
           NEW acc \in Growing(s, group, max, before, start), NEW h \in acc.part,
           NEW t \in adj(s, h) \cap group
    PROVE  /\ Take(acc, t, max) \in Growing(s, group, max, before, start)
           /\ h \in Take(acc, t, max).part
<1> DEFINE after == [assigned |-> acc.assigned \cup {t}, part |-> acc.part \cup {t},
                     queue |-> Append(acc.queue, t)]
<1>1. CASE Cardinality(acc.part) >= max \/ t \in acc.assigned
  BY <1>1 DEF Take
<1>2. CASE ~ (Cardinality(acc.part) >= max \/ t \in acc.assigned)
  <2>1. Take(acc, t, max) = after
    BY <1>2 DEF Take
  <2>2. /\ acc.assigned \in SUBSET group /\ acc.part \in SUBSET group /\ acc.queue \in Seq(group)
        /\ acc.assigned = before \cup acc.part /\ acc.part \cap before = {} /\ start \in acc.part
        /\ acc.queue \in Seq(acc.part) /\ Connected(s, acc.part)
    BY DEF Growing
  <2>3. PICK fk \in Known(s) : Links(fk, h, t)
    BY DEF adj, collect_all_fks, Links
  <2>4. Connected(s, acc.part \cup {t})
    BY <2>2, <2>3, OneTableIsConnected, ConnectedTogether
  <2>5. Cardinality(acc.part \cup {t}) <= max
    <3>1. IsFiniteSet(acc.part) /\ Cardinality(acc.part) \in Nat
      BY <2>2, FS_Subset, FS_CardinalityType
    <3>2. Cardinality(acc.part \cup {t}) <= Cardinality(acc.part) + 1
          /\ Cardinality(acc.part \cup {t}) \in Nat
      <4> DEFINE P == acc.part
      <4>1. IsFiniteSet(P) /\ Cardinality(P) \in Nat
        BY <3>1
      <4> HIDE DEF P
      <4>2. IsFiniteSet(P \cup {t})
            /\ Cardinality(P \cup {t}) = IF t \in P THEN Cardinality(P) ELSE Cardinality(P) + 1
        BY <4>1, FS_AddElement
      <4>3. Cardinality(P \cup {t}) <= Cardinality(P) + 1 /\ Cardinality(P \cup {t}) \in Nat
        BY <4>1, <4>2
      <4> QED
        BY <4>3 DEF P
    <3> QED
      BY <1>2, <3>1, <3>2
  <2>6. Append(acc.queue, t) \in Seq(acc.part \cup {t}) /\ Append(acc.queue, t) \in Seq(group)
    <3>1. acc.queue \in Seq(acc.part \cup {t})
      BY <2>2, SeqMonotonic
    <3> QED
      BY <2>2, <3>1, AppendProperties
  <2>7. after \in Growing(s, group, max, before, start) /\ h \in after.part
    BY <1>2, <2>2, <2>4, <2>5, <2>6 DEF Growing
  <2> QED
    BY <2>1, <2>7
<1> QED
  BY <1>1, <1>2

TakeAll(base, seq, max) == FoldLeft(LAMBDA a, t : Take(a, t, max), base, seq)

LEMMA TakeAllStays ==
    ASSUME NEW n \in Nat, NEW seq, DOMAIN seq = 1..n, NEW max, NEW X, NEW base \in X,
           \A acc \in X, k \in 1..n : Take(acc, seq[k], max) \in X
    PROVE  TakeAll(base, seq, max) \in X
<1> DEFINE E(f) == [s \in SUBSET (1..n) |->
                       IF s = {} THEN base ELSE Take(f[s \ {Max(s)}], seq[Max(s)], max)]
           iter == CHOOSE f : f = E(f)
           g == [p \in X \X (1..n) |-> Take(p[1], seq[p[2]], max)]
           c == greatest(n)
<1>1. TakeAll(base, seq, max) = iter[1..n]
  BY Zenon DEF TakeAll, FoldLeft, MapThenFoldSet
<1>2. IsFiniteSet(1..n) /\ TakesFrom(c, 1..n) /\ \A s \in SUBSET (1..n) : c[s] = Max(s)
  BY GreatestTakesFrom
<1>3. \A s \in SUBSET (1..n) : s # {} => s \ {c[s]} \in SUBSET (1..n) /\ c[s] \in 1..n
  BY <1>2 DEF TakesFrom
<1> HIDE DEF c
<1>4. \E f : f = E(f)
  <2>1. \A x \in X, k \in 1..n : g[<<x, k>>] = Take(x, seq[k], max)
    OBVIOUS
  <2> HIDE DEF g
  <2>2. FoldsWithin(g, 1..n, X)
    BY <2>1 DEF FoldsWithin
  <2>3. PICK f \in [SUBSET (1..n) -> X] : FoldOf(f, 1..n, c, base, g)
    BY <1>2, <2>2, FoldExists
  <2>4. ASSUME NEW s \in SUBSET (1..n)
        PROVE  f[s] = IF s = {} THEN base ELSE Take(f[s \ {Max(s)}], seq[Max(s)], max)
    BY ZenonT(60), <1>2, <1>3, <2>1, <2>3 DEF FoldOf
  <2>5. f = E(f)
    BY <2>3, <2>4
  <2> QED
    BY <2>5
<1>5. iter = E(iter)
  <2> HIDE DEF E
  <2> QED
    BY <1>4
<1> HIDE DEF iter
<1>6. \A s \in SUBSET (1..n) : iter[s] = IF s = {} THEN base ELSE Take(iter[s \ {c[s]}], seq[c[s]], max)
  BY <1>2, <1>5
<1>7. iter[1..n] \in X
  <2> DEFINE T == {s \in SUBSET (1..n) : iter[s] \in X}
  <2>1. {} \in T
    BY <1>6
  <2>2. ASSUME NEW s \in SUBSET (1..n), s # {}, s \ {c[s]} \in T PROVE s \in T
    BY <1>3, <1>6, <2>2
  <2> HIDE DEF T
  <2>3. Hereditary(T, 1..n, c)
    BY <2>1, <2>2 DEF Hereditary
  <2>4. 1..n \in T
    BY <1>2, <2>3, OverSubsets
  <2> QED
    BY <2>4 DEF T
<1> QED
  BY <1>1, <1>7

Visit(s, group, max, acc) ==
    IF acc.queue = <<>> \/ Cardinality(acc.part) >= max THEN acc
    ELSE TakeAll([acc EXCEPT !.queue = Tail(@)], Ascending(adj(s, Head(acc.queue)) \cap group), max)

LEMMA VisitGrows ==
    ASSUME NEW s, NEW group, IsFiniteSet(group), group \subseteq Nat, NEW max \in Nat,
           NEW before, NEW start, NEW acc \in Growing(s, group, max, before, start)
    PROVE  Visit(s, group, max, acc) \in Growing(s, group, max, before, start)
<1> DEFINE h == Head(acc.queue)
           near == adj(s, h) \cap group
           base == [acc EXCEPT !.queue = Tail(@)]
           X == {a \in Growing(s, group, max, before, start) : h \in a.part}
           seq == Ascending(near)
           m == Cardinality(near)
<1>1. CASE acc.queue = <<>> \/ Cardinality(acc.part) >= max
  BY <1>1 DEF Visit
<1>2. CASE ~ (acc.queue = <<>> \/ Cardinality(acc.part) >= max)
  <2>1. Visit(s, group, max, acc) = TakeAll(base, seq, max)
    BY <1>2 DEF Visit
  <2>2. /\ acc.assigned \in SUBSET group /\ acc.part \in SUBSET group /\ acc.queue \in Seq(group)
        /\ acc.assigned = before \cup acc.part /\ acc.part \cap before = {} /\ start \in acc.part
        /\ acc.queue \in Seq(acc.part) /\ Connected(s, acc.part) /\ Cardinality(acc.part) <= max
        /\ acc = [assigned |-> acc.assigned, part |-> acc.part, queue |-> acc.queue]
    BY DEF Growing
  <2>3. h \in acc.part /\ Tail(acc.queue) \in Seq(acc.part) /\ Tail(acc.queue) \in Seq(group)
    BY <1>2, <2>2, HeadTailProperties
  <2>4. /\ base \in [assigned : SUBSET group, part : SUBSET group, queue : Seq(group)]
        /\ base.assigned = acc.assigned /\ base.part = acc.part /\ base.queue = Tail(acc.queue)
    <3> DEFINE q == Tail(acc.queue)
    <3>1. acc \in [assigned : SUBSET group, part : SUBSET group, queue : Seq(group)] /\ q \in Seq(group)
      BY <2>3 DEF Growing
    <3> HIDE DEF q
    <3>2. LET b == [acc EXCEPT !.queue = q]
          IN  /\ b \in [assigned : SUBSET group, part : SUBSET group, queue : Seq(group)]
              /\ b.assigned = acc.assigned /\ b.part = acc.part /\ b.queue = q
      BY <3>1
    <3> QED
      BY <3>2 DEF q
  <2>5. base \in X
    <3> HIDE DEF base, h
    <3> QED
      BY <2>2, <2>3, <2>4 DEF Growing
  <2>6. near \subseteq Nat /\ IsFiniteSet(near) /\ near \subseteq group
    <3>1. near \in SUBSET group
      OBVIOUS
    <3> HIDE DEF near
    <3> QED
      BY <3>1, FS_Subset
  <2>7. m \in Nat /\ seq \in [1..m -> near]
    <3> HIDE DEF near
    <3> QED
      BY <2>6, AscendingLists DEF Lists
  <2>8. ASSUME NEW a \in X, NEW k \in 1..m PROVE Take(a, seq[k], max) \in X
    <3>1. seq[k] \in adj(s, h) \cap group
      <4> HIDE DEF seq, m
      <4>1. seq[k] \in near
        BY <2>7
      <4> QED
        BY <4>1
    <3> HIDE DEF h, seq
    <3> QED
      BY <3>1, TakeGrows
  <2> HIDE DEF X, base, seq, m
  <2>9. DOMAIN seq = 1..m
    BY <2>7
  <2>10. TakeAll(base, seq, max) \in X
    BY <2>5, <2>7, <2>8, <2>9, TakeAllStays
  <2> QED
    BY <2>1, <2>10 DEF X
<1> QED
  BY <1>1, <1>2

VisitAll(s, group, max, base, seq) ==
    FoldLeft(LAMBDA acc, i : Visit(s, group, max, acc), base, seq)

LEMMA VisitAllStays ==
    ASSUME NEW n \in Nat, NEW seq, DOMAIN seq = 1..n, NEW s, NEW group, NEW max, NEW X, NEW base \in X,
           \A acc \in X : Visit(s, group, max, acc) \in X
    PROVE  VisitAll(s, group, max, base, seq) \in X
<1> DEFINE E(f) == [r \in SUBSET (1..n) |->
                       IF r = {} THEN base ELSE Visit(s, group, max, f[r \ {Max(r)}])]
           iter == CHOOSE f : f = E(f)
           g == [p \in X \X (1..n) |-> Visit(s, group, max, p[1])]
           c == greatest(n)
<1>1. VisitAll(s, group, max, base, seq) = iter[1..n]
  BY Zenon DEF VisitAll, FoldLeft, MapThenFoldSet
<1>2. IsFiniteSet(1..n) /\ TakesFrom(c, 1..n) /\ \A r \in SUBSET (1..n) : c[r] = Max(r)
  BY GreatestTakesFrom
<1>3. \A r \in SUBSET (1..n) : r # {} => r \ {c[r]} \in SUBSET (1..n) /\ c[r] \in 1..n
  BY <1>2 DEF TakesFrom
<1> HIDE DEF c
<1>4. \E f : f = E(f)
  <2>1. \A x \in X, k \in 1..n : g[<<x, k>>] = Visit(s, group, max, x)
    OBVIOUS
  <2> HIDE DEF g
  <2>2. FoldsWithin(g, 1..n, X)
    BY <2>1 DEF FoldsWithin
  <2>3. PICK f \in [SUBSET (1..n) -> X] : FoldOf(f, 1..n, c, base, g)
    BY <1>2, <2>2, FoldExists
  <2>4. ASSUME NEW r \in SUBSET (1..n)
        PROVE  f[r] = IF r = {} THEN base ELSE Visit(s, group, max, f[r \ {Max(r)}])
    BY <1>2, <1>3, <2>1, <2>3 DEF FoldOf
  <2>5. f = E(f)
    BY <2>3, <2>4
  <2> QED
    BY <2>5
<1>5. iter = E(iter)
  <2> HIDE DEF E
  <2> QED
    BY <1>4
<1> HIDE DEF iter
<1>6. \A r \in SUBSET (1..n) : iter[r] = IF r = {} THEN base ELSE Visit(s, group, max, iter[r \ {c[r]}])
  BY <1>2, <1>5
<1>7. iter[1..n] \in X
  <2> DEFINE T == {r \in SUBSET (1..n) : iter[r] \in X}
  <2>1. {} \in T
    BY <1>6
  <2>2. ASSUME NEW r \in SUBSET (1..n), r # {}, r \ {c[r]} \in T PROVE r \in T
    BY <1>6, <2>2
  <2> HIDE DEF T
  <2>3. Hereditary(T, 1..n, c)
    BY <2>1, <2>2 DEF Hereditary
  <2>4. 1..n \in T
    BY <1>2, <2>3, OverSubsets
  <2> QED
    BY <2>4 DEF T
<1> QED
  BY <1>1, <1>7

\* One part of a split: its tables are free, linked, and not too many.
LEMMA GrowIsPart ==
    ASSUME NEW s, NEW group, IsFiniteSet(group), group \subseteq Nat, NEW max \in Nat \ {0},
           NEW before \in SUBSET group, NEW start \in group \ before
    PROVE  \E queue : [assigned |-> Grow(s, group, max, before, start).assigned,
                       part |-> Grow(s, group, max, before, start).part, queue |-> queue]
                           \in Growing(s, group, max, before, start)
<1> DEFINE base == [assigned |-> before \cup {start}, part |-> {start}, queue |-> <<start>>]
           seq == Ascending(group)
           n == Cardinality(group)
           X == Growing(s, group, max, before, start)
<1>1. Grow(s, group, max, before, start) = VisitAll(s, group, max, base, seq)
  BY Zenon DEF Grow, VisitAll, Visit, TakeAll
<1>2. base \in X
  <2>1. Cardinality({start}) = 1 /\ Connected(s, {start})
    BY FS_Singleton, OneTableIsConnected
  <2>2. <<start>> \in Seq({start}) /\ <<start>> \in Seq(group)
    OBVIOUS
  <2>3. before \cup {start} \in SUBSET group /\ {start} \in SUBSET group /\ {start} \cap before = {}
        /\ 1 <= max
    OBVIOUS
  <2>4. base \in [assigned : SUBSET group, part : SUBSET group, queue : Seq(group)]
    BY <2>2, <2>3
  <2>5. /\ base.assigned = before \cup base.part /\ base.part \cap before = {}
        /\ start \in base.part /\ base.queue \in Seq(base.part)
        /\ Connected(s, base.part) /\ Cardinality(base.part) <= max
    BY <2>1, <2>2, <2>3
  <2> HIDE DEF base
  <2> QED
    BY <2>4, <2>5 DEF Growing
<1>3. n \in Nat /\ DOMAIN seq = 1..n
  BY AscendingLists DEF Lists
<1> HIDE DEF base, seq, n
<1>4. \A acc \in X : Visit(s, group, max, acc) \in X
  BY VisitGrows
<1>5. VisitAll(s, group, max, base, seq) \in X
  <2> HIDE DEF X
  <2> QED
    BY <1>2, <1>3, <1>4, VisitAllStays
<1> QED
  BY <1>1, <1>5 DEF Growing

\* Non-empty parts of the tables in A that share none and leave none out,
\* each of at most max tables and held together.
SplitOf(s, max, parts, A) ==
    /\ parts \in Seq(SUBSET A)
    /\ \A i \in DOMAIN parts : parts[i] # {} /\ Connected(s, parts[i]) /\ Cardinality(parts[i]) <= max
    /\ \A i, j \in DOMAIN parts : i # j => parts[i] \cap parts[j] = {}
    /\ \A t \in A : \E i \in DOMAIN parts : t \in parts[i]

LEMMA AppendedPartSplits ==
    ASSUME NEW s, NEW max, NEW parts, NEW A, SplitOf(s, max, parts, A),
           NEW part, part # {}, Connected(s, part), Cardinality(part) <= max, part \cap A = {}
    PROVE  SplitOf(s, max, Append(parts, part), A \cup part)
<1> DEFINE all == Append(parts, part)
           n == Len(parts)
           S == SUBSET A
           T == SUBSET (A \cup part)
<1>1. parts \in Seq(S) /\ S \subseteq T /\ part \in T
  BY DEF SplitOf
<1>2. \A i \in DOMAIN parts : parts[i] \subseteq A
  BY <1>1, LenProperties, ElementOfSeq
<1> HIDE DEF S, T
<1>3. parts \in Seq(T) /\ n \in Nat /\ DOMAIN parts = 1..n
  BY <1>1, SeqMonotonic, LenProperties
<1>4. all \in Seq(T) /\ DOMAIN all = 1..(n + 1) /\ (\A i \in 1..n : all[i] = parts[i]) /\ all[n + 1] = part
  BY <1>1, <1>3, AppendProperties, LenProperties
<1> HIDE DEF all
<1>5. \A i \in DOMAIN all : (i \in 1..n /\ all[i] = parts[i]) \/ (i = n + 1 /\ all[i] = part)
  BY <1>3, <1>4
<1>6. \A i \in DOMAIN all : all[i] # {} /\ Connected(s, all[i]) /\ Cardinality(all[i]) <= max
  BY <1>3, <1>5 DEF SplitOf
<1>7. ASSUME NEW i \in DOMAIN all, NEW j \in DOMAIN all, i # j PROVE all[i] \cap all[j] = {}
  BY <1>2, <1>3, <1>5, <1>7 DEF SplitOf
<1>8. ASSUME NEW t \in A \cup part PROVE \E i \in DOMAIN all : t \in all[i]
  <2>1. CASE t \in A
    <3>1. PICK i \in 1..n : t \in parts[i]
      BY <1>3, <2>1 DEF SplitOf
    <3>2. i \in DOMAIN all /\ all[i] = parts[i]
      BY <1>3, <1>4
    <3> QED
      BY <3>1, <3>2
  <2>2. CASE t \in part
    <3>1. n + 1 \in DOMAIN all
      BY <1>3, <1>4
    <3> QED
      BY <1>4, <2>2, <3>1
  <2> QED
    BY <2>1, <2>2
<1> QED
  BY <1>4, <1>6, <1>7, <1>8 DEF SplitOf, all, T

StartAt(s, group, max, acc, t) ==
    IF t \in acc.assigned THEN acc
    ELSE [assigned |-> Grow(s, group, max, acc.assigned, t).assigned,
          parts |-> Append(acc.parts, Grow(s, group, max, acc.assigned, t).part)]

Splitting(s, group, max) ==
    {acc \in [assigned : SUBSET group, parts : Seq(SUBSET group)] :
        SplitOf(s, max, acc.parts, acc.assigned)}

LEMMA StartSplits ==
    ASSUME NEW s, NEW group, IsFiniteSet(group), group \subseteq Nat, NEW max \in Nat \ {0},
           NEW acc \in Splitting(s, group, max), NEW t \in group
    PROVE  /\ StartAt(s, group, max, acc, t) \in Splitting(s, group, max)
           /\ acc.assigned \cup {t} \subseteq StartAt(s, group, max, acc, t).assigned
<1>1. CASE t \in acc.assigned
  BY <1>1 DEF StartAt
<1>2. CASE t \notin acc.assigned
  <2> DEFINE grown == Grow(s, group, max, acc.assigned, t)
             a == grown.assigned
             p == grown.part
  <2>1. /\ acc.assigned \in SUBSET group /\ acc.parts \in Seq(SUBSET group)
        /\ SplitOf(s, max, acc.parts, acc.assigned)
    BY DEF Splitting
  <2>2. StartAt(s, group, max, acc, t) = [assigned |-> a, parts |-> Append(acc.parts, p)]
    BY <1>2 DEF StartAt
  <2>3. PICK queue : [assigned |-> a, part |-> p, queue |-> queue]
                         \in Growing(s, group, max, acc.assigned, t)
    BY <1>2, <2>1, GrowIsPart
  <2> HIDE DEF a, p
  <2>4. /\ a = acc.assigned \cup p /\ p \cap acc.assigned = {} /\ t \in p /\ p \in SUBSET group
        /\ a \in SUBSET group /\ Connected(s, p) /\ Cardinality(p) <= max
    BY <2>3 DEF Growing
  <2>5. SplitOf(s, max, Append(acc.parts, p), a)
    BY <2>1, <2>4, AppendedPartSplits
  <2>6. Append(acc.parts, p) \in Seq(SUBSET group)
    <3> DEFINE S == SUBSET group
    <3>1. acc.parts \in Seq(S) /\ p \in S
      BY <2>1, <2>4
    <3> HIDE DEF S
    <3>2. Append(acc.parts, p) \in Seq(S)
      BY <3>1, AppendProperties
    <3> QED
      BY <3>2 DEF S
  <2> DEFINE ps == Append(acc.parts, p)
  <2> HIDE DEF ps
  <2>7. [assigned |-> a, parts |-> ps] \in Splitting(s, group, max)
    BY <2>4, <2>5, <2>6 DEF Splitting, ps
  <2>8. acc.assigned \cup {t} \subseteq a
    BY <2>4
  <2> QED
    BY <2>2, <2>7, <2>8 DEF ps
<1> QED
  BY <1>1, <1>2

SplitAt(s, group, max, base, seq) == FoldLeft(LAMBDA acc, t : StartAt(s, group, max, acc, t), base, seq)

LEMMA SplitAtReaches ==
    ASSUME NEW n \in Nat, NEW s, NEW group, IsFiniteSet(group), group \subseteq Nat,
           NEW max \in Nat \ {0}, NEW seq \in [1..n -> group],
           NEW base \in Splitting(s, group, max)
    PROVE  /\ SplitAt(s, group, max, base, seq) \in Splitting(s, group, max)
           /\ \A i \in 1..n : seq[i] \in SplitAt(s, group, max, base, seq).assigned
<1> DEFINE X == Splitting(s, group, max)
           E(f) == [r \in SUBSET (1..n) |->
                       IF r = {} THEN base ELSE StartAt(s, group, max, f[r \ {Max(r)}], seq[Max(r)])]
           iter == CHOOSE f : f = E(f)
           g == [p \in X \X (1..n) |-> StartAt(s, group, max, p[1], seq[p[2]])]
           c == greatest(n)
<1>1. SplitAt(s, group, max, base, seq) = iter[1..n]
  BY Zenon DEF SplitAt, FoldLeft, MapThenFoldSet
<1>2. IsFiniteSet(1..n) /\ TakesFrom(c, 1..n) /\ \A r \in SUBSET (1..n) : c[r] = Max(r)
  BY GreatestTakesFrom
<1>3. \A r \in SUBSET (1..n) : r # {} => r \ {c[r]} \in SUBSET (1..n) /\ c[r] \in 1..n /\ c[r] \in r
  BY <1>2 DEF TakesFrom
<1>4. \A acc \in X, k \in 1..n : /\ StartAt(s, group, max, acc, seq[k]) \in X
                                 /\ acc.assigned \cup {seq[k]}
                                        \subseteq StartAt(s, group, max, acc, seq[k]).assigned
  BY StartSplits
<1> HIDE DEF c, X
<1>5. \E f : f = E(f)
  <2>1. \A x \in X, k \in 1..n : g[<<x, k>>] = StartAt(s, group, max, x, seq[k])
    OBVIOUS
  <2> HIDE DEF g
  <2>2. FoldsWithin(g, 1..n, X)
    BY <1>4, <2>1 DEF FoldsWithin
  <2>3. PICK f \in [SUBSET (1..n) -> X] : FoldOf(f, 1..n, c, base, g)
    BY <1>2, <2>2, FoldExists DEF X
  <2>4. ASSUME NEW r \in SUBSET (1..n)
        PROVE  f[r] = IF r = {} THEN base ELSE StartAt(s, group, max, f[r \ {Max(r)}], seq[Max(r)])
    BY ZenonT(60), <1>2, <1>3, <2>1, <2>3 DEF FoldOf
  <2>5. f = E(f)
    BY <2>3, <2>4
  <2> QED
    BY <2>5
<1>6. iter = E(iter)
  <2> HIDE DEF E
  <2> QED
    BY <1>5
<1> HIDE DEF iter
<1>7. \A r \in SUBSET (1..n) :
         iter[r] = IF r = {} THEN base ELSE StartAt(s, group, max, iter[r \ {c[r]}], seq[c[r]])
  BY <1>2, <1>6
<1>8. iter[1..n] \in X /\ \A i \in 1..n : seq[i] \in iter[1..n].assigned
  <2> DEFINE T == {r \in SUBSET (1..n) : iter[r] \in X /\ \A i \in r : seq[i] \in iter[r].assigned}
  <2>1. {} \in T
    BY <1>7 DEF X
  <2>2. ASSUME NEW r \in SUBSET (1..n), r # {}, r \ {c[r]} \in T PROVE r \in T
    <3> DEFINE rest == r \ {c[r]}
               last == iter[rest]
    <3>1. last \in X /\ \A i \in rest : seq[i] \in last.assigned
      BY <2>2
    <3>2. iter[r] = StartAt(s, group, max, last, seq[c[r]]) /\ c[r] \in 1..n
      BY <1>3, <1>7, <2>2
    <3> HIDE DEF last
    <3>3. iter[r] \in X /\ last.assigned \cup {seq[c[r]]} \subseteq iter[r].assigned
      BY <1>4, <3>1, <3>2
    <3>4. \A i \in r : i \in rest \/ i = c[r]
      OBVIOUS
    <3> HIDE DEF rest
    <3> QED
      BY <3>1, <3>3, <3>4
  <2> HIDE DEF T
  <2>3. Hereditary(T, 1..n, c)
    BY <2>1, <2>2 DEF Hereditary
  <2>4. 1..n \in T
    BY <1>2, <2>3, OverSubsets
  <2> QED
    BY <2>4 DEF T
<1> QED
  BY <1>1, <1>8 DEF X

LEMMA BfsSplits ==
    ASSUME NEW s, NEW group, IsFiniteSet(group), group \subseteq Nat, NEW max \in Nat \ {0},
           SchemaIsFinite(s)
    PROVE  SplitOf(s, max, bfs_split(s, group, max), group)
<1> DEFINE degree(t) == Cardinality(adj(s, t) \cap group)
           R == {p \in group \X group :
                    \/ degree(p[1]) > degree(p[2])
                    \/ degree(p[1]) = degree(p[2]) /\ p[1] < p[2]}
           by_degree == SortedBy(group, R)
           n == Cardinality(group)
           base == [assigned |-> {}, parts |-> <<>>]
           all == SplitAt(s, group, max, base, by_degree)
<1>1. bfs_split(s, group, max) = all.parts
  BY Zenon DEF bfs_split, SplitAt, StartAt
<1>2. \A t \in group : degree(t) \in Nat
  <2>1. ASSUME NEW t \in group PROVE degree(t) \in Nat
    <3>1. IsFiniteSet(adj(s, t) \cap group)
      BY FS_Intersection
    <3> QED
      BY <3>1, FS_CardinalityType
  <2> QED
    BY <2>1
<1>3. \A x, y \in group : <<x, y>> \in R <=> \/ degree(x) > degree(y)
                                             \/ degree(x) = degree(y) /\ x < y
  OBVIOUS
<1> HIDE DEF R, degree
<1>4. StrictOrder(group, R)
  <2>1. \A x \in group : x \in Nat /\ degree(x) \in Nat
    BY <1>2
  <2>2. \A x \in group : <<x, x>> \notin R
    BY <1>3, <2>1
  <2>3. \A x, y \in group : x # y => <<x, y>> \in R \/ <<y, x>> \in R
    BY <1>3, <2>1
  <2>4. \A x, y, z \in group : <<x, y>> \in R /\ <<y, z>> \in R => <<x, z>> \in R
    BY <1>3, <2>1
  <2> QED
    BY <2>2, <2>3, <2>4 DEF StrictOrder
<1>5. n \in Nat /\ by_degree \in [1..n -> group] /\ \A t \in group : \E i \in 1..n : by_degree[i] = t
  BY <1>4, SortedByLists DEF Lists
<1> HIDE DEF by_degree, n
<1>6. base \in Splitting(s, group, max)
  <2>1. <<>> \in Seq(SUBSET group) /\ <<>> \in Seq(SUBSET {}) /\ DOMAIN <<>> = {}
    BY EmptySeq
  <2>2. SplitOf(s, max, <<>>, {})
    BY <2>1 DEF SplitOf
  <2> QED
    BY <2>1, <2>2 DEF Splitting
<1> HIDE DEF base
<1>7. all \in Splitting(s, group, max) /\ \A i \in 1..n : by_degree[i] \in all.assigned
  BY <1>5, <1>6, SplitAtReaches
<1> HIDE DEF all
<1>8. SplitOf(s, max, all.parts, all.assigned) /\ all.assigned \subseteq group
  BY <1>7 DEF Splitting
<1>9. all.assigned = group
  BY ZenonT(60), <1>5, <1>7, <1>8
<1> QED
  BY <1>1, <1>8, <1>9

SplitGroup(s, group, max) ==
    IF Cardinality(group) <= max THEN <<group>> ELSE bfs_split(s, group, max)

LEMMA GroupSplits ==
    ASSUME NEW s, SchemaIsFinite(s), NEW max \in Nat \ {0}, NEW g \in components(s)
    PROVE  SplitOf(s, max, SplitGroup(s, g, max), g)
<1>1. /\ g \subseteq s.tables /\ g # {} /\ Connected(s, g)
      /\ IsFiniteSet(g) /\ g \subseteq Nat
  BY ZenonT(60), ComponentsAreParted, FS_Subset DEF Parted, SchemaIsFinite
<1>2. CASE Cardinality(g) <= max
  <2>1. SplitGroup(s, g, max) = <<g>>
    BY <1>2 DEF SplitGroup
  <2>2. <<g>> \in Seq(SUBSET g) /\ DOMAIN <<g>> = {1} /\ <<g>>[1] = g
    OBVIOUS
  <2> QED
    BY <1>1, <1>2, <2>1, <2>2 DEF SplitOf
<1>3. CASE ~ (Cardinality(g) <= max)
  BY <1>1, <1>3, BfsSplits DEF SplitGroup
<1> QED
  BY <1>2, <1>3

LEMMA PartitionsSplit ==
    ASSUME NEW s, SchemaIsFinite(s), NEW max \in Nat \ {0}
    PROVE  SplitOf(s, max, partitions(s, max), s.tables)
<1> DEFINE groups == component_groups(s)
           G == components(s)
           n == Cardinality(G)
           splits == [i \in DOMAIN groups |-> SplitGroup(s, groups[i], max)]
           S == SUBSET s.tables
           parts == FlattenSeq(splits)
<1>1. n \in Nat /\ groups \in [1..n -> G]
      /\ (\A i, j \in 1..n : groups[i] = groups[j] => i = j)
      /\ \A g \in G : \E i \in 1..n : groups[i] = g
  BY GroupsAreListed DEF Lists
<1>2. Parted(s, G, s.tables)
  BY ComponentsAreParted
<1>3. partitions(s, max) = parts
  BY Zenon DEF partitions, SplitGroup
<1> HIDE DEF groups
<1>4. \A i \in 1..n : SplitOf(s, max, splits[i], groups[i]) /\ groups[i] \in G /\ groups[i] \subseteq s.tables
  <2>1. \A i \in 1..n : groups[i] \in G /\ splits[i] = SplitGroup(s, groups[i], max)
    BY <1>1
  <2> HIDE DEF splits
  <2> QED
    BY <1>2, <2>1, GroupSplits DEF Parted
<1>5. splits \in [1..n -> Seq(S)]
  <2>1. \A i \in 1..n : splits[i] \in Seq(S)
    <3>1. ASSUME NEW i \in 1..n PROVE splits[i] \in Seq(S)
      <4> DEFINE T == SUBSET groups[i]
      <4>1. splits[i] \in Seq(T) /\ T \subseteq S
        BY <1>4 DEF SplitOf
      <4> HIDE DEF T, S, splits
      <4> QED
        BY <4>1, SeqMonotonic
    <3> QED
      BY <3>1
  <2>2. splits = [i \in 1..n |-> splits[i]]
    BY <1>1
  <2> HIDE DEF splits, S
  <2> QED
    BY <2>1, <2>2
<1> HIDE DEF splits, G, n
<1>6. PICK off : Offsets(off, splits, n)
  <2> HIDE DEF S
  <2> QED
    BY <1>1, <1>5, OffsetsExist
<1>7. /\ parts \in Seq(S) /\ Len(parts) = off[n]
      /\ \A k \in 1..n : \A j \in 1..Len(splits[k]) : parts[off[k - 1] + j] = splits[k][j]
  <2>1. n \in Nat
    BY <1>1
  <2> HIDE DEF S
  <2>2. FlattenSeq(splits) \in Seq(S) /\ Concatenates(FlattenSeq(splits), off, splits, n)
    BY <1>5, <1>6, <2>1, FlattenSeqConcatenates
  <2> QED
    BY <2>2 DEF Concatenates
<1> HIDE DEF parts
<1>8. DOMAIN parts = 1..off[n]
  BY <1>7, LenProperties
<1>9. \A m \in DOMAIN parts : \E k \in 1..n : \E j \in DOMAIN splits[k] :
         m = off[k - 1] + j /\ parts[m] = splits[k][j]
  <2>1. \A k \in 1..n : DOMAIN splits[k] = 1..Len(splits[k])
    <3>1. \A k \in 1..n : splits[k] \in Seq(S)
      BY <1>5
    <3> HIDE DEF S
    <3> QED
      BY <3>1, LenProperties
  <2>2. SUFFICES ASSUME NEW m \in 1..off[n]
                 PROVE  \E k \in 1..n : \E j \in DOMAIN splits[k] :
                            m = off[k - 1] + j /\ parts[m] = splits[k][j]
    BY <1>8
  <2>3. PICK k \in 1..n : \E j \in 1..Len(splits[k]) : m = off[k - 1] + j
    BY <1>6 DEF Offsets
  <2>4. PICK j \in 1..Len(splits[k]) : m = off[k - 1] + j
    BY <2>3
  <2> QED
    BY <1>7, <2>1, <2>4
<1>10. ASSUME NEW k \in 1..n, NEW j \in DOMAIN splits[k]
       PROVE  /\ splits[k][j] \subseteq groups[k]
              /\ splits[k][j] # {} /\ Connected(s, splits[k][j]) /\ Cardinality(splits[k][j]) <= max
  <2> DEFINE T == SUBSET groups[k]
             one == splits[k]
  <2>1. one \in Seq(T) /\ j \in DOMAIN one
    BY <1>4 DEF SplitOf
  <2> HIDE DEF T, one
  <2>2. one[j] \in T
    BY <2>1, LenProperties, ElementOfSeq
  <2>3. one[j] # {} /\ Connected(s, one[j]) /\ Cardinality(one[j]) <= max
    BY <1>4 DEF SplitOf, one
  <2> QED
    BY <2>2, <2>3 DEF T, one
<1>11. ASSUME NEW i \in DOMAIN parts
       PROVE  parts[i] # {} /\ Connected(s, parts[i]) /\ Cardinality(parts[i]) <= max
  <2>1. PICK k \in 1..n : \E j \in DOMAIN splits[k] : i = off[k - 1] + j /\ parts[i] = splits[k][j]
    BY <1>9
  <2>2. PICK j \in DOMAIN splits[k] : parts[i] = splits[k][j]
    BY <2>1
  <2> QED
    BY <1>10, <2>2
<1>12. ASSUME NEW a \in DOMAIN parts, NEW b \in DOMAIN parts, a # b
       PROVE  parts[a] \cap parts[b] = {}
  <2>ofA. PICK k \in 1..n : \E i \in DOMAIN splits[k] : a = off[k - 1] + i /\ parts[a] = splits[k][i]
    BY <1>9
  <2>1. PICK i \in DOMAIN splits[k] : a = off[k - 1] + i /\ parts[a] = splits[k][i]
    BY <2>ofA
  <2>ofB. PICK l \in 1..n : \E j \in DOMAIN splits[l] : b = off[l - 1] + j /\ parts[b] = splits[l][j]
    BY <1>9
  <2>2. PICK j \in DOMAIN splits[l] : b = off[l - 1] + j /\ parts[b] = splits[l][j]
    BY <2>ofB
  <2>3. CASE k = l
    <3>1. i # j
      BY <1>12, <2>1, <2>2, <2>3
    <3>2. i \in DOMAIN splits[k] /\ j \in DOMAIN splits[k] /\ parts[b] = splits[k][j]
      BY <2>1, <2>2, <2>3
    <3>3. splits[k][i] \cap splits[k][j] = {}
      BY <1>4, <3>1, <3>2 DEF SplitOf
    <3> QED
      BY <2>1, <3>2, <3>3
  <2>4. CASE k # l
    <3>1. groups[k] \cap groups[l] = {}
      BY <1>1, <1>2, <1>4, <2>4 DEF Parted
    <3> QED
      BY <1>10, <2>1, <2>2, <3>1
  <2> QED
    BY <2>3, <2>4
<1>13. ASSUME NEW t \in s.tables PROVE \E i \in DOMAIN parts : t \in parts[i]
  <2>1. PICK k \in 1..n : t \in groups[k]
    BY <1>1, <1>2 DEF Parted
  <2>2. PICK j \in DOMAIN splits[k] : t \in splits[k][j]
    BY <1>4, <2>1 DEF SplitOf
  <2>3. j \in 1..Len(splits[k]) /\ Len(splits[k]) \in Nat
    BY <1>5, <2>2, LenProperties
  <2>4. off[k - 1] + j \in 1..off[n]
    <3>1. k \in 0..n /\ n \in 0..n /\ k - 1 \in 0..n /\ k <= n
      BY <1>1
    <3>2. off[k - 1] \in Nat /\ off[k] = off[k - 1] + Len(splits[k]) /\ off[k] <= off[n] /\ off[n] \in Nat
          /\ off[k] \in Nat
      BY <1>6, <3>1 DEF Offsets
    <3> QED
      BY SMTT(60), <2>3, <3>2
  <2> QED
    BY <1>7, <1>8, <2>2, <2>3, <2>4
<1> QED
  BY <1>3, <1>7, <1>11, <1>12, <1>13 DEF SplitOf

-----------------------------------------------------------------------------
(* The plan.                                                                *)

\* The levels are consecutive runs of the clusters.
LevelsAreRuns(plan, off, K, N) ==
    /\ K \in Nat /\ N \in Nat
    /\ DOMAIN plan.clusters = 1..N
    /\ DOMAIN plan.levels = 1..K
    /\ \A k \in 1..K : plan.levels[k] # <<>> /\ plan.levels[k] \in Seq(1..N)
    /\ Offsets(off, plan.levels, K) /\ off[K] = N
    /\ \A k \in 1..K : \A j \in 1..Len(plan.levels[k]) : plan.levels[k][j] = off[k - 1] + j

\* order lists the n clusters by level, and the plan has them in that order.
InOrder(plan, clusters, levels, n, order, off, K, N) ==
    /\ LevelsAreRuns(plan, off, K, N)
    /\ K = Len(levels) /\ plan.levels \in [1..K -> Seq(1..N)]
    /\ \A k \in 1..K : /\ Len(plan.levels[k]) = Len(levels[k])
                       /\ \A j \in 1..Len(levels[k]) : order[plan.levels[k][j]] = levels[k][j]
    /\ order \in [1..N -> 1..n]
    /\ \A i, j \in 1..N : order[i] = order[j] => i = j
    /\ \A x \in 1..n : \E i \in 1..N : order[i] = x
    /\ \A i \in 1..N : plan.clusters[i] = clusters[order[i]]

Reordered(plan, clusters, levels, n) ==
    \E order, off, K, N : InOrder(plan, clusters, levels, n, order, off, K, N)

LEMMA RenumberedLevelsAreRuns ==
    ASSUME NEW clusters, NEW n \in Nat, NEW levels, Covers(levels, 1..n)
    PROVE  Reordered(Renumbered(clusters, levels, FlattenSeq(levels)), clusters, levels, n)
<1> DEFINE K == Len(levels)
           order == FlattenSeq(levels)
           plan == Renumbered(clusters, levels, order)
           S == Seq(1..n)
<1>1. levels \in Seq(S) /\ K \in Nat /\ DOMAIN levels = 1..K /\ levels \in [1..K -> S]
  <2>1. levels \in Seq(S)
    BY DEF Covers
  <2> HIDE DEF S
  <2> QED
    BY <2>1, LenProperties
<1>2. \A k \in 1..K : /\ levels[k] \in Seq(1..n) /\ Len(levels[k]) \in Nat
                      /\ DOMAIN levels[k] = 1..Len(levels[k]) /\ levels[k] # <<>>
  BY <1>1, LenProperties DEF Covers
<1> HIDE DEF K
<1>3. PICK off : Offsets(off, levels, K)
  BY <1>1, <1>2, OffsetsExist
<1> DEFINE N == off[K]
<1>4. order \in Seq(1..n) /\ Concatenates(order, off, levels, K)
  BY <1>1, <1>3, FlattenSeqConcatenates
<1> HIDE DEF order
<1>5. N \in Nat /\ order \in [1..N -> 1..n] /\ DOMAIN order = 1..N
  BY <1>4, LenProperties DEF Concatenates
<1>6. ASSUME NEW m \in 1..N
      PROVE  \E k \in 1..K : \E j \in 1..Len(levels[k]) : m = off[k - 1] + j /\ order[m] = levels[k][j]
  <2>1. PICK k \in 1..K : \E j \in 1..Len(levels[k]) : m = off[k - 1] + j
    BY <1>3 DEF Offsets
  <2>2. PICK j \in 1..Len(levels[k]) : m = off[k - 1] + j
    BY <2>1
  <2> QED
    BY <1>4, <2>2 DEF Concatenates
<1>7. ASSUME NEW k \in 1..K, NEW j \in 1..Len(levels[k])
      PROVE  off[k - 1] + j \in 1..N /\ order[off[k - 1] + j] = levels[k][j]
  <2>1. k \in 0..K /\ K \in 0..K /\ k - 1 \in 0..K /\ k <= K
    BY <1>1
  <2>2. off[k - 1] \in Nat /\ off[k] = off[k - 1] + Len(levels[k]) /\ off[k] <= N /\ off[k] \in Nat
    BY <1>3, <2>1 DEF Offsets
  <2>3. Len(levels[k]) \in Nat
    BY <1>2
  <2>4. off[k - 1] + j \in 1..N
    <3> HIDE DEF N
    <3> QED
      BY SMTT(60), <1>5, <2>2, <2>3
  <2> QED
    BY <1>4, <2>4 DEF Concatenates
<1>8. \A a, b \in 1..N : order[a] = order[b] => a = b
  <2>1. SUFFICES ASSUME NEW a \in 1..N, NEW b \in 1..N, order[a] = order[b] PROVE a = b
    OBVIOUS
  <2>2. PICK k \in 1..K : \E j \in 1..Len(levels[k]) : a = off[k - 1] + j /\ order[a] = levels[k][j]
    BY <1>6
  <2>3. PICK i \in 1..Len(levels[k]) : a = off[k - 1] + i /\ order[a] = levels[k][i]
    BY <2>2
  <2>4. PICK l \in 1..K : \E j \in 1..Len(levels[l]) : b = off[l - 1] + j /\ order[b] = levels[l][j]
    BY <1>6
  <2>5. PICK j \in 1..Len(levels[l]) : b = off[l - 1] + j /\ order[b] = levels[l][j]
    BY <2>4
  <2>6. /\ k \in DOMAIN levels /\ l \in DOMAIN levels /\ i \in DOMAIN levels[k] /\ j \in DOMAIN levels[l]
        /\ levels[k][i] = levels[l][j]
    BY <1>1, <1>2, <2>1, <2>3, <2>5
  <2>7. k = l /\ i = j
    BY <2>6 DEF Covers
  <2> QED
    BY <2>3, <2>5, <2>7
<1>9. ASSUME NEW x \in 1..n PROVE \E i \in 1..N : order[i] = x
  <2>1. PICK k \in 1..K : \E j \in DOMAIN levels[k] : levels[k][j] = x
    BY <1>1 DEF Covers
  <2>2. PICK j \in 1..Len(levels[k]) : levels[k][j] = x
    BY <1>2, <2>1
  <2> QED
    BY <1>7, <2>2
<1>10. /\ DOMAIN plan.clusters = 1..N
       /\ \A i \in 1..N : plan.clusters[i] = clusters[order[i]]
       /\ DOMAIN plan.levels = 1..K
       /\ \A k \in 1..K : plan.levels[k] = [j \in 1..Len(levels[k]) |->
                              CHOOSE m \in 1..N : order[m] = levels[k][j]]
  <2> HIDE DEF N
  <2>1. plan.clusters = [m \in 1..N |-> clusters[order[m]]]
    BY <1>5 DEF Renumbered
  <2>2. plan.levels = [k \in 1..K |-> [j \in DOMAIN levels[k] |->
                              CHOOSE m \in 1..N : order[m] = levels[k][j]]]
    BY <1>1, <1>5 DEF Renumbered
  <2>3. \A k \in 1..K : DOMAIN levels[k] = 1..Len(levels[k])
    BY <1>2
  <2> HIDE DEF plan
  <2> QED
    BY <2>1, <2>2, <2>3
<1> HIDE DEF plan
<1>11. ASSUME NEW k \in 1..K
       PROVE  /\ plan.levels[k] \in Seq(1..N) /\ Len(plan.levels[k]) = Len(levels[k])
              /\ plan.levels[k] # <<>>
              /\ \A j \in 1..Len(plan.levels[k]) : plan.levels[k][j] = off[k - 1] + j
  <2> DEFINE level == [j \in 1..Len(levels[k]) |-> CHOOSE m \in 1..N : order[m] = levels[k][j]]
             len == Len(levels[k])
  <2>1. plan.levels[k] = level
    BY <1>10
  <2>2. ASSUME NEW j \in 1..len PROVE level[j] = off[k - 1] + j /\ level[j] \in 1..N
    <3> DEFINE p == off[k - 1] + j
    <3>1. p \in 1..N /\ order[p] = levels[k][j]
      BY <1>7
    <3> HIDE DEF p, N
    <3>2. \A m \in 1..N : order[m] = levels[k][j] <=> m = p
      BY <1>8, <3>1
    <3>3. (CHOOSE m \in 1..N : order[m] = levels[k][j]) = p
      BY <3>1, <3>2
    <3>4. level[j] = p
      BY <3>3
    <3> QED
      BY <3>1, <3>4 DEF p
  <2>3. len \in Nat /\ len # 0
    BY <1>2, EmptySeq
  <2>4. level \in [1..len -> 1..N]
    <3>1. level = [j \in 1..len |-> level[j]]
      OBVIOUS
    <3> HIDE DEF level, N
    <3> QED
      BY <2>2, <3>1
  <2> HIDE DEF level, N, len
  <2>5. level \in Seq(1..N) /\ Len(level) = len
    BY <2>3, <2>4, ListsAreSeqs
  <2>6. level # <<>>
    BY <2>3, <2>5, EmptySeq
  <2> QED
    BY <2>1, <2>2, <2>5, <2>6 DEF len
<1>12. Offsets(off, plan.levels, K)
  <2> DEFINE ss == plan.levels
  <2>1. \A k \in 1..K : Len(ss[k]) = Len(levels[k])
    BY <1>11
  <2> HIDE DEF ss, N
  <2>2. off \in [0..K -> Nat] /\ off[0] = 0 /\ \A i, k \in 0..K : i <= k => off[i] <= off[k]
    BY <1>3 DEF Offsets
  <2>3. \A k \in 1..K : off[k] = off[k - 1] + Len(ss[k])
    BY <1>3, <2>1 DEF Offsets
  <2>4. ASSUME NEW m \in 1..off[K] PROVE \E k \in 1..K : \E j \in 1..Len(ss[k]) : m = off[k - 1] + j
    <3>1. PICK k \in 1..K : \E j \in 1..Len(levels[k]) : m = off[k - 1] + j
      BY <1>3 DEF Offsets
    <3> QED
      BY <2>1, <3>1
  <2> QED
    BY <2>2, <2>3, <2>4 DEF Offsets, ss
<1>13. LevelsAreRuns(plan, off, K, N)
  BY <1>1, <1>5, <1>10, <1>11, <1>12 DEF LevelsAreRuns
<1>14. plan.levels \in [1..K -> Seq(1..N)]
  <2> DEFINE T == Seq(1..N)
  <2>1. plan.levels = [k \in DOMAIN plan.levels |-> plan.levels[k]]
    BY Zenon DEF plan, Renumbered
  <2>2. \A k \in 1..K : plan.levels[k] \in T
    BY <1>11
  <2> HIDE DEF T
  <2>3. plan.levels \in [1..K -> T]
    BY <1>10, <2>1, <2>2
  <2> QED
    BY <2>3 DEF T
<1>15. ASSUME NEW k \in 1..K
       PROVE  /\ Len(plan.levels[k]) = Len(levels[k])
              /\ \A j \in 1..Len(levels[k]) : order[plan.levels[k][j]] = levels[k][j]
  BY <1>7, <1>11
<1> HIDE DEF N
<1>16. K = Len(levels)
  BY DEF K
<1>17. \A i \in 1..N : plan.clusters[i] = clusters[order[i]]
  BY <1>10
<1>18. order \in [1..N -> 1..n]
  BY <1>5
<1>19. InOrder(plan, clusters, levels, n, order, off, K, N)
  <2> HIDE DEF K
  <2> QED
    BY <1>8, <1>9, <1>13, <1>14, <1>15, <1>16, <1>17, <1>18 DEF InOrder
<1>20. Reordered(plan, clusters, levels, n)
  BY <1>19 DEF Reordered
<1> QED
  BY <1>20 DEF plan, order

Unlevelled(s, parts) == [i \in DOMAIN parts |-> TableCluster(s, parts[i])]

LEMMA DagIsReferences ==
    ASSUME NEW s, NEW max, NEW parts, SplitOf(s, max, parts, s.tables),
           NEW n, DOMAIN parts = 1..n, \A i \in 1..n : parts[i] \subseteq s.tables
    PROVE  /\ dag(Unlevelled(s, parts)) \subseteq (1..n) \X (1..n)
           /\ \A i, j \in 1..n : <<j, i>> \in dag(Unlevelled(s, parts))
                                 <=> j \in References([clusters |-> Unlevelled(s, parts)], i)
<1> DEFINE clusters == Unlevelled(s, parts)
           plan == [clusters |-> clusters]
<1>1. /\ DOMAIN clusters = 1..n
      /\ \A i \in 1..n : /\ clusters[i].tables = parts[i]
                         /\ clusters[i].cross_fks =
                               {fk \in Known(s) : (fk.from \in parts[i]) # (fk.to \in parts[i])}
  BY DEF Unlevelled, TableCluster
<1> HIDE DEF clusters
<1>2. ASSUME NEW t \in s.tables
      PROVE  /\ Part(clusters, t) \in 1..n /\ t \in parts[Part(clusters, t)]
             /\ \A i \in 1..n : t \in parts[i] => Part(clusters, t) = i
  <2>1. \E i \in 1..n : t \in clusters[i].tables
    BY <1>1 DEF SplitOf
  <2>2. Part(clusters, t) \in 1..n /\ t \in clusters[Part(clusters, t)].tables
    BY <1>1, <2>1, Zenon DEF Part
  <2>3. \A i, j \in 1..n : t \in parts[i] /\ t \in parts[j] => i = j
    BY DEF SplitOf
  <2> QED
    BY <1>1, <2>2, <2>3
<1>3. \A fk \in Known(s) : fk.from \in s.tables /\ fk.to \in s.tables
  BY DEF Known
<1>4. ASSUME NEW d \in dag(clusters)
      PROVE  \E fk \in Known(s) : /\ d = <<Part(clusters, fk.to), Part(clusters, fk.from)>>
                                  /\ Part(clusters, fk.to) # Part(clusters, fk.from)
  <2>1. PICK x \in Listed(clusters) : d = <<Part(clusters, x[2].to), Part(clusters, x[2].from)>>
    BY DEF dag
  <2>2. PICK i \in 1..n : x \in {i} \X clusters[i].cross_fks
    BY <1>1, <2>1 DEF Listed
  <2> DEFINE fk == x[2]
  <2>3. fk \in Known(s) /\ ((fk.from \in parts[i]) # (fk.to \in parts[i]))
    BY <1>1, <2>2
  <2>4. fk.from \in s.tables /\ fk.to \in s.tables
    BY <1>3, <2>3
  <2> HIDE DEF fk
  <2>5. Part(clusters, fk.to) # Part(clusters, fk.from)
    BY <1>2, <2>3, <2>4
  <2> QED
    BY <2>1, <2>3, <2>5 DEF fk
<1>5. dag(clusters) \subseteq (1..n) \X (1..n)
  BY <1>2, <1>3, <1>4
<1>6. ASSUME NEW i \in 1..n, NEW j \in 1..n, <<j, i>> \in dag(clusters)
      PROVE  j \in References(plan, i)
  <2>1. PICK fk \in Known(s) : /\ <<j, i>> = <<Part(clusters, fk.to), Part(clusters, fk.from)>>
                               /\ Part(clusters, fk.to) # Part(clusters, fk.from)
    BY <1>4, <1>6
  <2>2. j = Part(clusters, fk.to) /\ i = Part(clusters, fk.from) /\ i # j
    BY <2>1
  <2>3. fk.from \in parts[i] /\ fk.to \in parts[j] /\ fk.to \notin parts[i]
    BY <1>2, <1>3, <2>2
  <2> QED
    BY <1>1, <2>2, <2>3 DEF References
<1>7. ASSUME NEW i \in 1..n, NEW j \in 1..n, j \in References(plan, i)
      PROVE  <<j, i>> \in dag(clusters)
  <2>1. PICK fk \in clusters[i].cross_fks : fk.from \in parts[i] /\ fk.to \in parts[j]
    BY <1>1, <1>7 DEF References
  <2>2. fk \in Known(s)
    BY <1>1, <2>1
  <2>3. i = Part(clusters, fk.from) /\ j = Part(clusters, fk.to)
    BY <1>2, <1>3, <2>1, <2>2
  <2>4. <<i, fk>> \in Listed(clusters)
    BY <1>1, <2>1 DEF Listed
  <2>5. <<Part(clusters, <<i, fk>>[2].to), Part(clusters, <<i, fk>>[2].from)>> \in dag(clusters)
    BY <2>4 DEF dag
  <2> QED
    BY <2>3, <2>5
<1> QED
  BY <1>5, <1>6, <1>7 DEF clusters

\* A plan has the clusters of the parts in the order of their levels.
Levelled(s, max, parts, n) ==
    LET clusters == Unlevelled(s, parts)
        levels == compute_parallel_levels(clusters)
    IN  /\ n \in Nat /\ DOMAIN parts = 1..n
        /\ SplitOf(s, max, parts, s.tables)
        /\ \A i \in 1..n : parts[i] # {} /\ Cardinality(parts[i]) <= max /\ parts[i] \subseteq s.tables
        /\ Covers(levels, 1..n)
        /\ \E R \in SUBSET (1..n) :
              /\ \A i \in R : \E j \in R : <<j, i>> \in dag(clusters)
              /\ \A d \in dag(clusters) : d[2] \in R \/ Behind(levels, d)
        /\ Reordered(cluster_tables(s, max), clusters, levels, n)

LEMMA PlansAreLevelled ==
    ASSUME NEW s, SchemaIsFinite(s), NEW max \in Nat \ {0}
    PROVE  \E parts, n : Levelled(s, max, parts, n)
<1> DEFINE parts == partitions(s, max)
           n == Len(parts)
           clusters == Unlevelled(s, parts)
           levels == compute_parallel_levels(clusters)
           plan == Renumbered(clusters, levels, FlattenSeq(levels))
<1>1. SplitOf(s, max, parts, s.tables)
  BY PartitionsSplit
<1>2. cluster_tables(s, max) = plan
  BY Zenon DEF cluster_tables, Unlevelled
<1> HIDE DEF parts
<1>3. n \in Nat /\ DOMAIN parts = 1..n /\ \A i \in 1..n : parts[i] \subseteq s.tables
  <2> DEFINE S == SUBSET s.tables
  <2>1. parts \in Seq(S)
    BY <1>1 DEF SplitOf
  <2> HIDE DEF S
  <2>2. n \in Nat /\ DOMAIN parts = 1..n /\ \A i \in 1..n : parts[i] \in S
    BY <2>1, LenProperties, ElementOfSeq
  <2> QED
    BY <2>2 DEF S
<1>4. \A i \in 1..n : parts[i] # {} /\ Cardinality(parts[i]) <= max /\ parts[i] \subseteq s.tables
  BY <1>1, <1>3 DEF SplitOf
<1>5. ClustersOf(clusters, n)
  <2>1. ASSUME NEW part PROVE IsFiniteSet(TableCluster(s, part).cross_fks)
    <3> DEFINE T == {fk \in Known(s) : (fk.from \in part) # (fk.to \in part)}
    <3>1. T \in SUBSET s.fks
      BY DEF Known
    <3>2. TableCluster(s, part).cross_fks = T
      BY DEF TableCluster
    <3> HIDE DEF T
    <3> QED
      BY <3>1, <3>2, FS_Subset DEF SchemaIsFinite
  <2>2. DOMAIN clusters = 1..n /\ \A i \in 1..n : clusters[i] = TableCluster(s, parts[i])
    BY <1>3 DEF Unlevelled
  <2> HIDE DEF clusters
  <2> QED
    BY <1>3, <2>1, <2>2 DEF ClustersOf
<1>6. dag(clusters) \subseteq (1..n) \X (1..n)
  <2> HIDE DEF n
  <2> QED
    BY <1>1, <1>3, DagIsReferences
<1> HIDE DEF clusters, n
<1>7. /\ Covers(levels, 1..n)
      /\ \E R \in SUBSET (1..n) :
            /\ \A i \in R : \E j \in R : <<j, i>> \in dag(clusters)
            /\ \A d \in dag(clusters) : d[2] \in R \/ Behind(levels, d)
  BY <1>5, <1>6, LevelsFollow
<1> HIDE DEF levels
<1>8. Reordered(plan, clusters, levels, n)
  BY <1>3, <1>7, RenumberedLevelsAreRuns
<1> HIDE DEF plan
<1>9. Levelled(s, max, parts, n)
  BY <1>1, <1>2, <1>3, <1>4, <1>7, <1>8 DEF Levelled, clusters, levels
<1> QED
  BY <1>9

\* A plan follows the levels, and its clusters have tables.
WellPlanned(s, max, plan) ==
    /\ WellClustered(s, max, plan)
    /\ \A i \in DOMAIN plan.clusters : plan.clusters[i].tables # {}
    /\ \E off, K, N : LevelsAreRuns(plan, off, K, N)

LEMMA PlansAreWell ==
    ASSUME NEW s, SchemaIsFinite(s), NEW max \in Nat \ {0}
    PROVE  WellPlanned(s, max, cluster_tables(s, max))
<1> DEFINE plan == cluster_tables(s, max)
<1>1. PICK parts, n : Levelled(s, max, parts, n)
  BY PlansAreLevelled
<1> DEFINE clusters == Unlevelled(s, parts)
<1>3. /\ n \in Nat /\ DOMAIN parts = 1..n
      /\ SplitOf(s, max, parts, s.tables)
      /\ \A i \in 1..n : parts[i] # {} /\ Cardinality(parts[i]) <= max /\ parts[i] \subseteq s.tables
      /\ \E levels : Reordered(plan, clusters, levels, n)
  BY <1>1, Zenon DEF Levelled
<1>4. \A i \in 1..n : clusters[i] = TableCluster(s, parts[i])
  BY <1>3 DEF Unlevelled
<1> HIDE DEF plan, clusters
<1>picked. PICK levels, order, off, K, N : InOrder(plan, clusters, levels, n, order, off, K, N)
  BY <1>3 DEF Reordered
<1>7. /\ LevelsAreRuns(plan, off, K, N)
      /\ order \in [1..N -> 1..n]
      /\ \A i, j \in 1..N : order[i] = order[j] => i = j
      /\ \A x \in 1..n : \E i \in 1..N : order[i] = x
      /\ \A i \in 1..N : plan.clusters[i] = clusters[order[i]]
  BY <1>picked, Zenon DEF InOrder
<1>8. DOMAIN plan.clusters = 1..N
  BY <1>7 DEF LevelsAreRuns
<1>9. ASSUME NEW i \in 1..N
      PROVE  /\ order[i] \in 1..n
             /\ plan.clusters[i].tables = parts[order[i]]
             /\ plan.clusters[i].internal_fks = {fk \in Known(s) : {fk.from, fk.to} \subseteq parts[order[i]]}
  <2>1. order[i] \in 1..n
    BY <1>7
  <2>2. plan.clusters[i] = TableCluster(s, parts[order[i]])
    BY <1>4, <1>7, <2>1
  <2> QED
    BY <2>1, <2>2 DEF TableCluster
<1>10. \A i \in 1..N : /\ plan.clusters[i].tables # {}
                       /\ plan.clusters[i].tables \subseteq s.tables
                       /\ Cardinality(plan.clusters[i].tables) <= max
  BY <1>3, <1>9
<1>11. UNION {plan.clusters[i].tables : i \in 1..N} = s.tables
  <2>1. ASSUME NEW t \in s.tables PROVE \E i \in 1..N : t \in plan.clusters[i].tables
    <3>1. PICK x \in 1..n : t \in parts[x]
      BY <1>3 DEF SplitOf
    <3>2. PICK i \in 1..N : order[i] = x
      BY <1>7
    <3> QED
      BY <1>9, <3>1, <3>2
  <2> QED
    BY <1>10, <2>1
<1>12. ASSUME NEW i \in 1..N, NEW j \in 1..N, i # j
       PROVE  plan.clusters[i].tables \cap plan.clusters[j].tables = {}
  <2>1. order[i] # order[j] /\ order[i] \in DOMAIN parts /\ order[j] \in DOMAIN parts
    BY <1>3, <1>7, <1>9, <1>12
  <2> QED
    BY ZenonT(60), <1>3, <1>9, <2>1 DEF SplitOf
<1>13. ASSUME NEW i \in 1..N,
              NEW X \in (SUBSET plan.clusters[i].tables) \ {{}, plan.clusters[i].tables}
       PROVE  \E fk \in plan.clusters[i].internal_fks : (fk.from \in X) # (fk.to \in X)
  <2> DEFINE part == parts[order[i]]
  <2>1. X \in (SUBSET part) \ {{}, part} /\ Connected(s, part)
    BY <1>3, <1>9 DEF SplitOf
  <2>2. PICK fk \in Known(s) : \E u \in X, v \in part \ X : Links(fk, u, v)
    BY <2>1 DEF Connected
  <2>3. fk.from \in part /\ fk.to \in part /\ ((fk.from \in X) # (fk.to \in X))
    <3>1. PICK u \in X, v \in part \ X : {fk.from, fk.to} = {u, v}
      BY <2>2 DEF Links
    <3>2. (fk.from = u /\ fk.to = v) \/ (fk.from = v /\ fk.to = u)
      BY <3>1
    <3> QED
      BY <2>1, <3>1, <3>2
  <2> QED
    BY <1>9, <2>2, <2>3
<1>14. WellClustered(s, max, plan)
  BY <1>8, <1>10, <1>11, <1>12, <1>13 DEF WellClustered
<1> QED
  BY <1>7, <1>8, <1>10, <1>14 DEF WellPlanned, plan

\* Along the order of the levels a plan keeps what its clusters refer to.
LEMMA PlansAreOrdered ==
    ASSUME NEW s, SchemaIsFinite(s), NEW max \in Nat \ {0}
    PROVE  WellOrdered(cluster_tables(s, max))
<1> DEFINE plan == cluster_tables(s, max)
<1>1. PICK parts, n : Levelled(s, max, parts, n)
  BY PlansAreLevelled
<1> DEFINE clusters == Unlevelled(s, parts)
           levels == compute_parallel_levels(clusters)
<1>2. /\ n \in Nat /\ DOMAIN parts = 1..n
      /\ SplitOf(s, max, parts, s.tables)
      /\ \A i \in 1..n : parts[i] \subseteq s.tables
      /\ Covers(levels, 1..n)
      /\ Reordered(plan, clusters, levels, n)
  BY <1>1, Zenon DEF Levelled
<1>3. PICK R \in SUBSET (1..n) :
          /\ \A i \in R : \E j \in R : <<j, i>> \in dag(clusters)
          /\ \A d \in dag(clusters) : d[2] \in R \/ Behind(levels, d)
  BY <1>1, Zenon DEF Levelled
<1>4. \A i, j \in 1..n : <<j, i>> \in dag(clusters) <=> j \in References([clusters |-> clusters], i)
  BY <1>2, DagIsReferences
<1>clusters. DOMAIN clusters = 1..n
  BY <1>2 DEF Unlevelled
<1> HIDE DEF plan, clusters, levels
<1>picked. PICK order, off, K, N : InOrder(plan, clusters, levels, n, order, off, K, N)
  BY <1>2 DEF Reordered
<1>5. /\ LevelsAreRuns(plan, off, K, N)
      /\ K = Len(levels) /\ plan.levels \in [1..K -> Seq(1..N)]
      /\ \A k \in 1..K : /\ Len(plan.levels[k]) = Len(levels[k])
                         /\ \A j \in 1..Len(levels[k]) : order[plan.levels[k][j]] = levels[k][j]
      /\ order \in [1..N -> 1..n]
      /\ \A i, j \in 1..N : order[i] = order[j] => i = j
      /\ \A x \in 1..n : \E i \in 1..N : order[i] = x
      /\ \A i \in 1..N : plan.clusters[i] = clusters[order[i]]
  BY <1>picked, Zenon DEF InOrder
<1>6. /\ K \in Nat /\ N \in Nat /\ DOMAIN plan.clusters = 1..N /\ DOMAIN plan.levels = 1..K
      /\ Offsets(off, plan.levels, K) /\ off[K] = N
      /\ \A k \in 1..K : \A j \in 1..Len(plan.levels[k]) : plan.levels[k][j] = off[k - 1] + j
  BY <1>5 DEF LevelsAreRuns
<1>7. FlattenSeq(plan.levels) = [i \in 1..N |-> i]
  <2> DEFINE flat == FlattenSeq(plan.levels)
  <2>1. flat \in Seq(1..N) /\ Concatenates(flat, off, plan.levels, K)
    BY <1>5, <1>6, FlattenSeqConcatenates
  <2> HIDE DEF flat
  <2>2. flat \in [1..N -> 1..N]
    BY <1>6, <2>1, LenProperties DEF Concatenates
  <2>3. ASSUME NEW m \in 1..N PROVE flat[m] = m
    <3>1. PICK k \in 1..K : \E j \in 1..Len(plan.levels[k]) : m = off[k - 1] + j
      BY <1>6 DEF Offsets
    <3> QED
      BY <1>6, <2>1, <3>1 DEF Concatenates
  <2> QED
    BY <2>2, <2>3 DEF flat
\* Cluster i of the plan is cluster order[i] of the levels.
<1>8. ASSUME NEW i \in 1..N, NEW j \in 1..N
      PROVE  j \in References(plan, i) <=> <<order[j], order[i]>> \in dag(clusters)
  <2>1. order[i] \in 1..n /\ order[j] \in 1..n /\ (i = j <=> order[i] = order[j])
    BY <1>5
  <2>2. plan.clusters[i] = clusters[order[i]] /\ plan.clusters[j] = clusters[order[j]]
    BY <1>5
  <2> DEFINE a == order[i]
             b == order[j]
             refers == \E fk \in clusters[a].cross_fks : fk.from \in clusters[a].tables
                                                         /\ fk.to \in clusters[b].tables
  <2>3. j \in References(plan, i) <=> i # j /\ refers
    BY <1>6, <2>2 DEF References
  <2>4. b \in References([clusters |-> clusters], a) <=> a # b /\ refers
    BY <1>clusters, <2>1 DEF References
  <2>5. <<b, a>> \in dag(clusters) <=> b \in References([clusters |-> clusters], a)
    BY <1>4, <2>1
  <2> QED
    BY <2>1, <2>3, <2>4, <2>5
<1>9. \A i : References(plan, i) \subseteq 1..N
  BY <1>6 DEF References
<1>levels. DOMAIN levels = 1..K /\ \A l \in 1..K : DOMAIN levels[l] = 1..Len(levels[l])
  <2> DEFINE S == Seq(1..n)
  <2>1. levels \in Seq(S)
    BY <1>2 DEF Covers
  <2> HIDE DEF S
  <2>2. DOMAIN levels = 1..K /\ \A l \in 1..K : levels[l] \in S
    BY <1>5, <2>1, LenProperties, ElementOfSeq
  <2> QED
    BY <2>2, LenProperties DEF S
<1> DEFINE levelOf(i) == CHOOSE k \in DOMAIN plan.levels : Contains(plan.levels[k], i)
<1>10. ASSUME NEW i \in 1..N, NEW k \in 1..K, \E x \in DOMAIN levels[k] : levels[k][x] = order[i]
       PROVE  levelOf(i) = k
  <2>1. DOMAIN levels = 1..K /\ \A l \in 1..K : DOMAIN levels[l] = 1..Len(levels[l])
    BY <1>levels
  <2>2. ASSUME NEW l \in 1..K, NEW x \in DOMAIN levels[l]
        PROVE  plan.levels[l][x] = i <=> levels[l][x] = order[i]
    <3>1. plan.levels[l] \in Seq(1..N) /\ Len(plan.levels[l]) = Len(levels[l])
      BY <1>5
    <3>2. x \in 1..Len(levels[l])
      BY <2>1, <2>2
    <3>3. plan.levels[l][x] \in 1..N
      BY <3>1, <3>2, ElementOfSeq
    <3>4. order[plan.levels[l][x]] = levels[l][x]
      BY <1>5, <3>2
    <3>5. order[plan.levels[l][x]] = order[i] <=> plan.levels[l][x] = i
      BY <1>5, <3>3
    <3> QED
      BY <3>4, <3>5
  <2>3. ASSUME NEW l \in 1..K PROVE Contains(plan.levels[l], i) <=> l = k
    <3>1. 1..Len(plan.levels[l]) = DOMAIN levels[l]
      BY <1>5, <2>1
    <3>2. Contains(plan.levels[l], i) <=> \E x \in DOMAIN levels[l] : levels[l][x] = order[i]
      <4>1. Contains(plan.levels[l], i) <=> \E x \in 1..Len(plan.levels[l]) : plan.levels[l][x] = i
        BY Zenon DEF Contains
      <4> QED
        BY <2>2, <3>1, <4>1
    <3>3. ASSUME NEW x \in DOMAIN levels[l], levels[l][x] = order[i] PROVE l = k
      <4>1. PICK y \in DOMAIN levels[k] : levels[k][y] = order[i]
        BY <1>10
      <4>2. k \in DOMAIN levels /\ l \in DOMAIN levels /\ levels[l][x] = levels[k][y]
        BY <2>1, <3>3, <4>1
      <4> QED
        BY <1>2, <4>2, Zenon DEF Covers
    <3> QED
      BY <1>10, <3>2, <3>3
  <2> QED
    BY <1>6, <2>3
<1>11. ASSUME NEW i \in 1..N, NEW j \in References(plan, i), order[i] \notin R
       PROVE  levelOf(j) < levelOf(i)
  <2>1. j \in 1..N /\ <<order[j], order[i]>> \in dag(clusters)
    BY <1>8, <1>9
  <2>2. Behind(levels, <<order[j], order[i]>>)
    BY <1>3, <1>11, <2>1
  <2>3. PICK k, l \in 1..K : /\ k < l
                             /\ \E x \in DOMAIN levels[k] : levels[k][x] = order[j]
                             /\ \E y \in DOMAIN levels[l] : levels[l][y] = order[i]
    BY <1>levels, <2>2 DEF Behind
  <2>4. levelOf(j) = k /\ levelOf(i) = l
    BY <1>10, <2>1, <2>3
  <2> HIDE DEF levelOf
  <2> QED
    BY <2>3, <2>4
<1>12. ASSUME NEW i \in 1..N, order[i] \in R
       PROVE  \E k \in Reached(plan, {i}) : k \in Reached(plan, References(plan, k))
  <2> DEFINE Q == {m \in 1..N : order[m] \in R}
  <2>1. ASSUME NEW m \in Q PROVE \E j \in Q : j \in References(plan, m)
    <3>1. PICK y \in R : <<y, order[m]>> \in dag(clusters)
      BY <1>3
    <3>2. PICK j \in 1..N : order[j] = y
      BY <1>5
    <3> QED
      BY <1>8, <3>1, <3>2
  <2>2. Q \in SUBSET (1..N) /\ i \in Q
    BY <1>12
  <2> HIDE DEF Q
  <2> QED
    BY <1>6, <2>1, <2>2, EndlessLeadsIntoCycle
<1>13. \A i \in 1..N : \A j \in References(plan, i) :
           \/ levelOf(j) < levelOf(i)
           \/ \E k \in Reached(plan, {i}) : k \in Reached(plan, References(plan, k))
  <2> HIDE DEF levelOf
  <2> QED
    BY <1>11, <1>12
<1> QED
  BY <1>6, <1>7, <1>13 DEF WellOrdered, plan

-----------------------------------------------------------------------------
(* The plans of the streams.                                                *)

\* The numbers of the clusters run on from level to level, and no two
\* clusters have the same tables.
NumberedOn(plan) ==
    /\ Len(plan.clusters) \in Nat /\ DOMAIN plan.clusters = 1..Len(plan.clusters)
    /\ Len(plan.levels) \in Nat \ {0} /\ DOMAIN plan.levels = 1..Len(plan.levels)
    /\ \A k \in DOMAIN plan.levels :
          LET level == plan.levels[k]
          IN  /\ Len(level) \in Nat \ {0} /\ DOMAIN level = 1..Len(level)
              /\ \A j \in DOMAIN level : /\ level[j] \in DOMAIN plan.clusters
                                         /\ level[j] = level[1] + j - 1
              /\ k = 1 => level[1] = 1
              /\ k < Len(plan.levels) => plan.levels[k + 1][1] = level[1] + Len(level)
              /\ k = Len(plan.levels) => level[1] + Len(level) = Len(plan.clusters) + 1
    /\ \A i, j \in DOMAIN plan.clusters :
          plan.clusters[i].tables = plan.clusters[j].tables => i = j

LEMMA PlanIsWell ==
    ASSUME NEW s \in Schema
    PROVE  WellPlanned(s, MaxSize, Plan[s])
<1>1. Plan[s] = cluster_tables(s, MaxSize)
  BY DEF Plan
<1>2. SchemaIsFinite(s) /\ MaxSize \in Nat \ {0}
  BY SchemasAssumption DEF SchemaIsFinite
<1> QED
  BY <1>1, <1>2, PlansAreWell

LEMMA LengthOf ==
    ASSUME NEW f, NEW n \in Nat, DOMAIN f = 1..n, f = [i \in DOMAIN f |-> f[i]]
    PROVE  Len(f) = n
<1> DEFINE S == {f[i] : i \in 1..n}
<1>1. f \in [1..n -> S]
  OBVIOUS
<1> HIDE DEF S
<1> QED
  BY <1>1, ListsAreSeqs

LEMMA PlanIsNumberedOn ==
    ASSUME NEW s \in Schema
    PROVE  NumberedOn(Plan[s])
<1> DEFINE plan == Plan[s]
<1>1. WellPlanned(s, MaxSize, plan) /\ s.tables # {}
  BY PlanIsWell, SchemasAssumption
<1>2. \E off, K, N : LevelsAreRuns(plan, off, K, N)
  BY <1>1 DEF WellPlanned
<1>3. PICK off, K, N : LevelsAreRuns(plan, off, K, N)
  BY <1>2
<1>4. /\ plan.levels = [i \in DOMAIN plan.levels |-> plan.levels[i]]
      /\ plan.clusters = [i \in DOMAIN plan.clusters |-> plan.clusters[i]]
  <2>1. \E clusters, levels, order : cluster_tables(s, MaxSize) = Renumbered(clusters, levels, order)
    BY Zenon DEF cluster_tables
  <2>2. PICK clusters, levels, order : cluster_tables(s, MaxSize) = Renumbered(clusters, levels, order)
    BY <2>1
  <2>3. plan = Renumbered(clusters, levels, order)
    BY <2>2 DEF Plan
  <2> HIDE DEF plan
  <2>4. \E n, f : plan.levels = [i \in n |-> f[i]]
    <3> DEFINE f == [k \in DOMAIN levels |-> [j \in DOMAIN levels[k] |->
                         CHOOSE n \in DOMAIN order : order[n] = levels[k][j]]]
    <3>1. plan.levels = f
      BY <2>3 DEF Renumbered
    <3>2. f = [i \in DOMAIN levels |-> f[i]]
      OBVIOUS
    <3> HIDE DEF f
    <3>3. plan.levels = [i \in DOMAIN levels |-> f[i]]
      BY <3>1, <3>2
    <3> QED
      BY <3>3
  <2>5. plan.clusters = [i \in DOMAIN order |-> clusters[order[i]]]
    BY <2>3 DEF Renumbered
  <2> QED
    BY <2>4, <2>5
<1> HIDE DEF plan
<1>5. /\ K \in Nat /\ DOMAIN plan.levels = 1..K
      /\ N \in Nat /\ DOMAIN plan.clusters = 1..N
  BY <1>3 DEF LevelsAreRuns
<1>6. Len(plan.levels) = K /\ Len(plan.clusters) = N
  BY <1>4, <1>5, LengthOf
<1>7. K # 0
  <2>1. PICK t \in s.tables : TRUE
    BY <1>1
  <2>2. PICK i \in 1..N : t \in plan.clusters[i].tables
    BY <1>1, <1>5, <2>1 DEF WellPlanned, WellClustered
  <2>3. off[0] = 0 /\ off[K] = N
    BY <1>3 DEF LevelsAreRuns, Offsets
  <2> QED
    BY <1>5, <2>2, <2>3
<1>8. ASSUME NEW k \in 1..K
      PROVE  /\ Len(plan.levels[k]) \in Nat \ {0} /\ DOMAIN plan.levels[k] = 1..Len(plan.levels[k])
             /\ \A j \in DOMAIN plan.levels[k] : /\ plan.levels[k][j] \in 1..N
                                                /\ plan.levels[k][j] = off[k - 1] + j
             /\ plan.levels[k][1] = off[k - 1] + 1
             /\ off[k] = off[k - 1] + Len(plan.levels[k])
             /\ off[k] \in Nat /\ off[k - 1] \in Nat
  <2> DEFINE level == plan.levels[k]
  <2>1. level # <<>> /\ level \in Seq(1..N) /\ \A j \in 1..Len(level) : level[j] = off[k - 1] + j
    BY <1>3 DEF LevelsAreRuns
  <2>2. k \in 0..K /\ k - 1 \in 0..K
    BY <1>5
  <2>3. off[k] = off[k - 1] + Len(level) /\ off[k] \in Nat /\ off[k - 1] \in Nat
    BY <1>3, <2>2 DEF LevelsAreRuns, Offsets
  <2> HIDE DEF level
  <2>4. Len(level) \in Nat \ {0} /\ DOMAIN level = 1..Len(level) /\ \A j \in DOMAIN level : level[j] \in 1..N
    BY <2>1, EmptySeq, LenProperties, ElementOfSeq
  <2>5. level[1] = off[k - 1] + 1
    BY <2>1, <2>4
  <2> QED
    BY <2>1, <2>3, <2>4, <2>5 DEF level
<1>9. ASSUME NEW k \in 1..K
      PROVE  /\ k = 1 => plan.levels[k][1] = 1
             /\ k < K => plan.levels[k + 1][1] = plan.levels[k][1] + Len(plan.levels[k])
             /\ k = K => plan.levels[k][1] + Len(plan.levels[k]) = N + 1
             /\ \A j \in DOMAIN plan.levels[k] : plan.levels[k][j] = plan.levels[k][1] + j - 1
  <2> DEFINE first == plan.levels[k][1]
             len == Len(plan.levels[k])
             o == off[k - 1]
  <2>1. /\ o \in Nat /\ len \in Nat /\ first = o + 1 /\ off[k] = o + len
        /\ DOMAIN plan.levels[k] = 1..len
        /\ \A j \in 1..len : plan.levels[k][j] = o + j
    BY <1>8
  <2>2. off[0] = 0 /\ off[K] = N
    BY <1>3 DEF LevelsAreRuns, Offsets
  <2>3. k = 1 => o = 0
    BY <2>2
  <2>4. ASSUME k < K PROVE plan.levels[k + 1][1] = off[k] + 1
    <3>1. k + 1 \in 1..K /\ (k + 1) - 1 = k
      BY <1>5, <2>4
    <3> QED
      BY <1>8, <3>1
  <2> HIDE DEF first, len, o
  <2>5. /\ k = 1 => first = 1
        /\ k < K => plan.levels[k + 1][1] = first + len
        /\ k = K => first + len = N + 1
    BY <2>1, <2>2, <2>3, <2>4
  <2>6. \A j \in 1..len : plan.levels[k][j] = first + j - 1
    BY <2>1
  <2> QED
    BY <2>1, <2>5, <2>6 DEF first, len
<1>10. ASSUME NEW i \in 1..N, NEW j \in 1..N, plan.clusters[i].tables = plan.clusters[j].tables
       PROVE  i = j
  <2>1. plan.clusters[i].tables # {}
    BY <1>1, <1>5 DEF WellPlanned
  <2>2. i # j => plan.clusters[i].tables \cap plan.clusters[j].tables = {}
    BY SMTT(60), <1>1, <1>5 DEF WellPlanned, WellClustered
  <2> QED
    BY <1>10, <2>1, <2>2
<1>11. \A k \in DOMAIN plan.levels :
          LET level == plan.levels[k]
          IN  /\ Len(level) \in Nat \ {0} /\ DOMAIN level = 1..Len(level)
              /\ \A j \in DOMAIN level : /\ level[j] \in DOMAIN plan.clusters
                                         /\ level[j] = level[1] + j - 1
              /\ k = 1 => level[1] = 1
              /\ k < Len(plan.levels) => plan.levels[k + 1][1] = level[1] + Len(level)
              /\ k = Len(plan.levels) => level[1] + Len(level) = Len(plan.clusters) + 1
  BY ZenonT(60), <1>5, <1>6, <1>8, <1>9
<1>12. NumberedOn(plan)
  BY <1>5, <1>6, <1>7, <1>10, <1>11 DEF NumberedOn
<1> QED
  BY <1>12 DEF plan

-----------------------------------------------------------------------------
(* The invariant of the streams.                                            *)

Steps == {"lookup", "call", "collect", "write", "drop"}

Cluster == UNION {{Plan[s].clusters[i] : i \in DOMAIN Plan[s].clusters} : s \in Schema}
Signatures == {ClusterSignature(c, t) : c \in Cluster, t \in Template}
Outputs == [tables : {c.tables : c \in Cluster}, template : Template, name : Name,
            refs : SUBSET [tables : {c.tables : c \in Cluster}, name : Name]]

\* The output is of the tables and the prompt of the signature.
Authored(output, sig) == output.tables = sig.tables /\ output.template = sig.template

Rows == {row \in [signature : Signatures, output : Outputs] : Authored(row.output, row.signature)}

LevelResults == Seq(Nat \X Outputs)

\* The states of a request, whatever its answers are.
Requests(answers) ==
    [pc : Steps, revision : Nat, schema : Schema, template : Template, level : Nat, next : Nat,
     results : Seq(Outputs), level_results : LevelResults, answers : {answers}]

Shapes ==
    /\ draft \in [revision : Nat, schema : Schema, design : {draft.design}]
    /\ template \in [Stream -> Template]
    /\ checkpoints \in Seq(Rows)
    /\ faults \in 0..MaxFaults
    /\ disturbed \in BOOLEAN
    /\ DOMAIN run = Stream

UniqueRows ==
    \A i, j \in DOMAIN checkpoints :
        i # j => checkpoints[i].signature # checkpoints[j].signature

\* The level a request is at, the signatures of its clusters, and those of
\* them without a result.
LevelOf(r) == Plan[r.schema].levels[r.level]
SignatureOf(r, c) == ClusterSignature(Plan[r.schema].clusters[c], r.template)
Lacking(r) == {LevelOf(r)[k] : k \in DOMAIN LevelOf(r)}
                  \ {r.level_results[i][1] : i \in DOMAIN r.level_results}

\* The results are those of the clusters before the level, in the order of
\* the plan, and those of the level are of different clusters of it.
OnPlan(r) ==
    /\ r.level \in DOMAIN Plan[r.schema].levels
    /\ r.pc \in {"lookup", "call", "collect"} => Len(r.results) = LevelOf(r)[1] - 1
    /\ r.pc \in {"write", "drop"} => Len(r.results) = Len(Plan[r.schema].clusters)
    /\ \A i \in DOMAIN r.results : Authored(r.results[i], SignatureOf(r, i))
    /\ \A i \in DOMAIN r.level_results :
          /\ \E k \in DOMAIN LevelOf(r) : r.level_results[i][1] = LevelOf(r)[k]
          /\ Authored(r.level_results[i][2], SignatureOf(r, r.level_results[i][1]))
    /\ \A i, j \in DOMAIN r.level_results :
          i # j => r.level_results[i][1] # r.level_results[j][1]

\* What the steps of a level know of its clusters.
AtStep(r) ==
    /\ r.pc = "lookup" => /\ r.next \in DOMAIN LevelOf(r)
                          /\ \A i \in DOMAIN r.level_results :
                                r.level_results[i][1] < LevelOf(r)[r.next]
    /\ r.pc = "collect" => \A c \in Lacking(r) :
          /\ c \in DOMAIN r.answers
          /\ r.answers[c] # Failed => /\ r.answers[c] \in Outputs
                                      /\ Authored(r.answers[c], SignatureOf(r, c))

\* Whoever has the revision of the draft d has its schema.
Seen(r, d) == r.revision <= d.revision /\ (r.revision = d.revision => r.schema = d.schema)

\* The request is one that the handler can be at.
Fits(r, d) == r \in Requests(r.answers) /\ OnPlan(r) /\ AtStep(r) /\ Seen(r, d)

\* The output is that of the row of its signature.
Kept(output, sig, rs) == \E i \in DOMAIN rs : rs[i] = [signature |-> sig, output |-> output]

\* There is a row of the same prompt with what is referred to.
Resolves(ref, tmpl, rs) ==
    \E i \in DOMAIN rs : /\ rs[i].output.template = tmpl
                         /\ rs[i].output.tables = ref.tables
                         /\ rs[i].output.name = ref.name

\* Rows are of clusters of the schema, and refer to rows of their prompt.
RowsCohere(schema, rs) ==
    \A i \in DOMAIN rs :
        /\ \E c \in DOMAIN Plan[schema].clusters :
              rs[i].signature = ClusterSignature(Plan[schema].clusters[c], rs[i].output.template)
        /\ \A ref \in rs[i].output.refs : Resolves(ref, rs[i].output.template, rs)

\* The clusters that were looked up and have no result.
Missed(r) == {c \in Lacking(r) : r.pc = "lookup" => c < LevelOf(r)[r.next]}

\* A request has what the rows have; what it missed has no row, and what it
\* was answered refers to its results.
RunCoheres(r, schema, rs) ==
    /\ r.schema = schema
    /\ \A i \in DOMAIN r.results : Kept(r.results[i], SignatureOf(r, i), rs)
    /\ \A i \in DOMAIN r.level_results :
          Kept(r.level_results[i][2], SignatureOf(r, r.level_results[i][1]), rs)
    /\ r.pc \in {"lookup", "call", "collect"} =>
          \A c \in Missed(r) : \A i \in DOMAIN rs : rs[i].signature # SignatureOf(r, c)
    /\ r.pc = "collect" =>
          \A c \in Lacking(r) : r.answers[c] # Failed =>
              \A ref \in r.answers[c].refs : \E i \in DOMAIN r.results :
                  r.results[i].tables = ref.tables /\ r.results[i].name = ref.name

Coherent ==
    /\ \A s, o \in Stream : run[s] # Idle /\ run[o] # Idle => s = o
    /\ RowsCohere(draft.schema, checkpoints)
    /\ \A s \in Stream : run[s] # Idle => RunCoheres(run[s], draft.schema, checkpoints)

IInv ==
    /\ Shapes
    /\ UniqueRows
    /\ DesignedUnderOneTemplate
    /\ \A s \in Stream : run[s] # Idle => Fits(run[s], draft)
    /\ ~disturbed => Coherent

-----------------------------------------------------------------------------
(* Steps of one request.                                                    *)

\* The clusters of the level of a request are numbered on from the first.
LevelRuns(r) ==
    /\ Len(LevelOf(r)) \in Nat \ {0} /\ DOMAIN LevelOf(r) = 1..Len(LevelOf(r))
    /\ \A j \in DOMAIN LevelOf(r) : /\ LevelOf(r)[j] \in DOMAIN Plan[r.schema].clusters
                                    /\ LevelOf(r)[j] \in Nat
                                    /\ LevelOf(r)[j] = LevelOf(r)[1] + j - 1

LEMMA LevelsRun ==
    ASSUME NEW r, r.schema \in Schema, r.level \in DOMAIN Plan[r.schema].levels
    PROVE  LevelRuns(r)
<1> DEFINE plan == Plan[r.schema]
           level == plan.levels[r.level]
<1>1. NumberedOn(plan)
  BY PlanIsNumberedOn
<1> HIDE DEF plan
<1>2. /\ Len(level) \in Nat \ {0} /\ DOMAIN level = 1..Len(level)
      /\ \A j \in DOMAIN level : /\ level[j] \in DOMAIN plan.clusters
                                 /\ level[j] = level[1] + j - 1
      /\ DOMAIN plan.clusters = 1..Len(plan.clusters) /\ Len(plan.clusters) \in Nat
  BY <1>1 DEF NumberedOn, plan
<1>3. \A j \in DOMAIN level : level[j] \in Nat
  BY <1>2
<1> QED
  BY SMTT(60), <1>2, <1>3 DEF LevelRuns, LevelOf, plan

LEMMA SignaturesAreTyped ==
    ASSUME NEW r, r.schema \in Schema, r.template \in Template,
           NEW c \in DOMAIN Plan[r.schema].clusters
    PROVE  /\ SignatureOf(r, c) \in Signatures
           /\ SignatureOf(r, c).tables = Plan[r.schema].clusters[c].tables
           /\ SignatureOf(r, c).template = r.template
           /\ Plan[r.schema].clusters[c] \in Cluster
<1>1. Plan[r.schema].clusters[c] \in Cluster
  BY DEF Cluster
<1>2. SignatureOf(r, c) \in Signatures
  BY <1>1 DEF SignatureOf, Signatures
<1> QED
  BY <1>1, <1>2 DEF SignatureOf, ClusterSignature

\* The request stays at its level, with its results.
Stays(r, q) ==
    /\ q.schema = r.schema /\ q.template = r.template /\ q.revision = r.revision
    /\ q.level = r.level /\ q.results = r.results
    /\ r.pc \in {"lookup", "call", "collect"} /\ q.pc \in {"lookup", "call", "collect"}

LEMMA StayingKeepsLevel ==
    ASSUME NEW r, NEW q, Stays(r, q)
    PROVE  /\ LevelOf(q) = LevelOf(r)
           /\ \A c : SignatureOf(q, c) = SignatureOf(r, c)
  BY DEF Stays, LevelOf, SignatureOf

LEMMA StayingOnPlan ==
    ASSUME NEW r, NEW q, Stays(r, q), OnPlan(r), q.level_results = r.level_results
    PROVE  OnPlan(q) /\ Lacking(q) = Lacking(r)
<1>1. LevelOf(q) = LevelOf(r) /\ \A c : SignatureOf(q, c) = SignatureOf(r, c)
  BY StayingKeepsLevel
<1>2. Lacking(q) = Lacking(r)
  BY <1>1 DEF Lacking
<1>3. OnPlan(q)
  BY <1>1 DEF OnPlan, Stays
<1> QED
  BY <1>2, <1>3

\* One more result of the level.
LEMMA PushedOnPlan ==
    ASSUME NEW r, NEW q, Stays(r, q), OnPlan(r),
           r.schema \in Schema,
           r.level_results \in LevelResults,
           NEW c \in Lacking(r), NEW output \in Outputs,
           Authored(output, SignatureOf(r, c)),
           q.level_results = Append(r.level_results, <<c, output>>)
    PROVE  /\ OnPlan(q)
           /\ q.level_results \in LevelResults
           /\ Lacking(q) = Lacking(r) \ {c}
           /\ DOMAIN q.level_results = DOMAIN r.level_results \cup {Len(r.level_results) + 1}
           /\ \A i \in DOMAIN r.level_results : q.level_results[i] = r.level_results[i]
           /\ q.level_results[Len(r.level_results) + 1] = <<c, output>>
<1> DEFINE n == Len(r.level_results)
           T == Nat \X Outputs
           new == <<c, output>>
<1>1. LevelOf(q) = LevelOf(r) /\ \A d : SignatureOf(q, d) = SignatureOf(r, d)
  BY StayingKeepsLevel
<1>2. LevelRuns(r)
  BY LevelsRun DEF OnPlan
<1>3. PICK k \in DOMAIN LevelOf(r) : c = LevelOf(r)[k]
  BY DEF Lacking
<1>4. new \in T /\ c \in Nat
  BY <1>2, <1>3 DEF LevelRuns
<1>5. new[1] = c /\ new[2] = output
  OBVIOUS
<1> HIDE DEF T, new
<1>6. n \in Nat /\ DOMAIN r.level_results = 1..n
  BY LenProperties DEF T, LevelResults
<1>7. /\ q.level_results \in Seq(T) /\ Len(q.level_results) = n + 1
      /\ \A i \in 1..n : q.level_results[i] = r.level_results[i]
      /\ q.level_results[n + 1] = new
  <2>1. r.level_results \in Seq(T) /\ q.level_results = Append(r.level_results, new)
    BY DEF T, new, LevelResults
  <2> QED
    BY <1>4, <2>1, AppendProperties
<1>8. DOMAIN q.level_results = 1..(n + 1)
  BY <1>7, LenProperties
<1> HIDE DEF n
<1>9. DOMAIN q.level_results = DOMAIN r.level_results \cup {n + 1} /\ n + 1 \notin DOMAIN r.level_results
  BY <1>6, <1>8
<1>10. {q.level_results[i][1] : i \in DOMAIN q.level_results}
          = {r.level_results[i][1] : i \in DOMAIN r.level_results} \cup {c}
  BY <1>5, <1>6, <1>7, <1>9
<1>11. Lacking(q) = Lacking(r) \ {c}
  BY <1>1, <1>10 DEF Lacking
<1>12. \A i \in DOMAIN r.level_results : r.level_results[i][1] # c
  BY DEF Lacking
<1>13. OnPlan(q)
  <2>1. /\ q.level \in DOMAIN Plan[q.schema].levels
        /\ q.pc \in {"lookup", "call", "collect"} => Len(q.results) = LevelOf(q)[1] - 1
        /\ q.pc \in {"write", "drop"} => Len(q.results) = Len(Plan[q.schema].clusters)
        /\ \A i \in DOMAIN q.results : Authored(q.results[i], SignatureOf(q, i))
    BY <1>1 DEF OnPlan, Stays
  <2>2. ASSUME NEW i \in DOMAIN q.level_results
        PROVE  /\ \E j \in DOMAIN LevelOf(q) : q.level_results[i][1] = LevelOf(q)[j]
               /\ Authored(q.level_results[i][2], SignatureOf(q, q.level_results[i][1]))
    <3>1. CASE i \in DOMAIN r.level_results
      BY <1>1, <1>6, <1>7, <3>1 DEF OnPlan
    <3>2. CASE i = n + 1
      BY <1>1, <1>3, <1>5, <1>7, <3>2
    <3> QED
      BY <1>9, <3>1, <3>2
  <2>3. ASSUME NEW i \in DOMAIN q.level_results, NEW j \in DOMAIN q.level_results, i # j
        PROVE  q.level_results[i][1] # q.level_results[j][1]
    <3>1. CASE i \in DOMAIN r.level_results /\ j \in DOMAIN r.level_results
      BY <1>6, <1>7, <2>3, <3>1 DEF OnPlan
    <3>2. CASE i = n + 1 /\ j \in DOMAIN r.level_results
      BY <1>5, <1>6, <1>7, <1>12, <3>2
    <3>3. CASE j = n + 1 /\ i \in DOMAIN r.level_results
      BY <1>5, <1>6, <1>7, <1>12, <3>3
    <3> QED
      BY <1>9, <2>3, <3>1, <3>2, <3>3
  <2> QED
    BY <2>1, <2>2, <2>3 DEF OnPlan
<1> QED
  BY <1>6, <1>7, <1>9, <1>11, <1>13 DEF n, T, new, LevelResults

LEMMA FirstLevelOnPlan ==
    ASSUME NEW r, r.schema \in Schema, r.pc = "lookup", r.level = 1, r.next = 1,
           r.results = <<>>, r.level_results = <<>>
    PROVE  OnPlan(r) /\ AtStep(r) /\ Missed(r) = {}
<1> DEFINE plan == Plan[r.schema]
           level == plan.levels[1]
<1>1. NumberedOn(plan)
  BY PlanIsNumberedOn
<1> HIDE DEF plan
<1>2. /\ 1 \in DOMAIN plan.levels /\ 1 \in DOMAIN level /\ level[1] = 1
      /\ \A j \in DOMAIN level : j \in Nat /\ j >= 1 /\ level[j] = level[1] + j - 1
  <2>1. 1 \in DOMAIN plan.levels
    BY <1>1 DEF NumberedOn
  <2>2. /\ Len(level) \in Nat \ {0} /\ DOMAIN level = 1..Len(level) /\ level[1] = 1
        /\ \A j \in DOMAIN level : level[j] = level[1] + j - 1
    BY <1>1, <2>1 DEF NumberedOn
  <2> HIDE DEF level
  <2> QED
    BY <2>1, <2>2
<1>3. LevelOf(r) = level
  BY DEF LevelOf, plan
<1> HIDE DEF level
<1>4. Len(r.results) = 0 /\ DOMAIN r.results = {} /\ DOMAIN r.level_results = {}
  OBVIOUS
<1>5. OnPlan(r)
  BY <1>2, <1>3, <1>4 DEF OnPlan, plan
<1>6. AtStep(r)
  BY <1>2, <1>3, <1>4 DEF AtStep
<1>7. Missed(r) = {}
  BY <1>2, <1>3 DEF Missed, Lacking
<1> QED
  BY <1>5, <1>6, <1>7

\* The next cluster of a level was looked up.
LEMMA LookedUpAtStep ==
    ASSUME NEW r, NEW q, Stays(r, q), OnPlan(r), AtStep(r), r.schema \in Schema,
           r.pc = "lookup", q.next = r.next + 1,
           q.pc = IF r.next < Len(LevelOf(r)) THEN "lookup" ELSE "call",
           \A i \in DOMAIN q.level_results :
              \/ q.level_results[i][1] = LevelOf(r)[r.next]
              \/ \E j \in DOMAIN r.level_results : q.level_results[i][1] = r.level_results[j][1]
    PROVE  /\ AtStep(q)
           /\ r.next \in DOMAIN LevelOf(r)
           /\ \A c \in Missed(q) : c = LevelOf(r)[r.next] \/ c < LevelOf(r)[r.next]
<1> DEFINE level == LevelOf(r)
           k == r.next
<1>1. LevelOf(q) = level
  BY StayingKeepsLevel
<1>2. /\ Len(level) \in Nat \ {0} /\ DOMAIN level = 1..Len(level)
      /\ \A j \in DOMAIN level : level[j] \in Nat /\ level[j] = level[1] + j - 1
  BY LevelsRun DEF OnPlan, LevelRuns
<1>3. k \in DOMAIN level
  BY DEF AtStep
<1>4. \A i \in DOMAIN r.level_results : r.level_results[i][1] < level[k]
  BY DEF AtStep
<1>5. \A i \in DOMAIN r.level_results : r.level_results[i][1] \in Nat
  BY <1>2 DEF OnPlan
<1> HIDE DEF level, k
<1>6. 1 \in DOMAIN level /\ level[1] \in Nat
  BY <1>2
<1>7. CASE k < Len(level)
  <2>1. q.pc = "lookup" /\ q.next = k + 1
    BY <1>7 DEF k, level
  <2>2. k + 1 \in DOMAIN level /\ level[k + 1] = level[k] + 1 /\ level[k] \in Nat
    <3>1. k + 1 \in DOMAIN level
      BY <1>2, <1>3, <1>7
    <3>2. level[k + 1] = level[1] + (k + 1) - 1 /\ level[k] = level[1] + k - 1 /\ level[k] \in Nat
      BY <1>2, <1>3, <3>1
    <3> QED
      BY <1>2, <1>3, <1>6, <3>1, <3>2
  <2>3. ASSUME NEW i \in DOMAIN q.level_results PROVE q.level_results[i][1] < level[k + 1]
    <3>1. CASE q.level_results[i][1] = level[k]
      BY <2>2, <3>1
    <3>2. ASSUME NEW j \in DOMAIN r.level_results, q.level_results[i][1] = r.level_results[j][1]
          PROVE  q.level_results[i][1] < level[k + 1]
      BY <1>4, <1>5, <2>2, <3>2
    <3> QED
      BY <3>1, <3>2 DEF k, level
  <2>4. AtStep(q)
    BY <1>1, <2>1, <2>2, <2>3 DEF AtStep
  <2>5. ASSUME NEW c \in Missed(q) PROVE c = level[k] \/ c < level[k]
    <3>1. c < level[k + 1] /\ \E j \in DOMAIN level : c = level[j]
      BY <1>1, <2>1 DEF Missed, Lacking
    <3>2. c \in Nat
      BY <1>2, <3>1
    <3> QED
      BY <2>2, <3>1, <3>2
  <2> QED
    BY <1>3, <2>4, <2>5 DEF k, level
<1>8. CASE ~(k < Len(level))
  <2>1. q.pc = "call"
    BY <1>8 DEF k, level
  <2>2. k = Len(level)
    BY <1>2, <1>3, <1>8
  <2>3. AtStep(q)
    BY <2>1 DEF AtStep
  <2>4. ASSUME NEW c \in Missed(q) PROVE c = level[k] \/ c < level[k]
    <3>1. PICK j \in DOMAIN level : c = level[j]
      BY <1>1 DEF Missed, Lacking
    <3>2. level[j] = level[1] + j - 1 /\ level[k] = level[1] + k - 1 /\ level[j] \in Nat
      BY <1>2, <1>3
    <3>3. j <= k /\ j \in Nat /\ k \in Nat
      BY <1>2, <2>2
    <3> QED
      BY <1>6, <3>1, <3>2, <3>3
  <2> QED
    BY <1>3, <2>3, <2>4 DEF k, level
<1> QED
  BY <1>7, <1>8

\* g increases and takes the m values from first on.
RisesOver(g, n, first, m) ==
    /\ g \in [1..n -> Nat]
    /\ \A i, j \in 1..n : i < j => g[i] < g[j]
    /\ \A k \in 1..n : first <= g[k] /\ g[k] < first + m
    /\ \A v \in Nat : first <= v /\ v < first + m => \E k \in 1..n : g[k] = v

LEMMA RisesByOne ==
    ASSUME NEW n \in Nat, NEW m \in Nat, NEW first \in Nat, NEW g, RisesOver(g, n, first, m)
    PROVE  n = m /\ \A k \in 1..n : g[k] = first + k - 1
<1> USE DEF RisesOver
<1> DEFINE T == {k \in Nat : \A j \in 1..n : j <= k => g[j] = first + j - 1}
<1>1. 0 \in T
  OBVIOUS
<1>2. ASSUME NEW k \in Nat, k < n, k \in T PROVE k + 1 \in T
  <2>1. k + 1 \in 1..n
    BY <1>2
  <2>2. g[k + 1] >= first + k
    <3>1. CASE k = 0
      BY <2>1, <3>1
    <3>2. CASE k # 0
      <4>1. k \in 1..n /\ k < k + 1 /\ g[k] = first + k - 1
        BY <1>2, <3>2
      <4>2. g[k] < g[k + 1] /\ g[k] \in Nat /\ g[k + 1] \in Nat
        BY <2>1, <4>1
      <4> QED
        BY SMTT(60), <4>1, <4>2
    <3> QED
      BY <3>1, <3>2
  <2>3. ASSUME g[k + 1] > first + k PROVE FALSE
    <3>1. first + k \in Nat /\ first <= first + k /\ first + k < first + m
      BY <2>1, <2>3
    <3>2. PICK j \in 1..n : g[j] = first + k
      BY <3>1
    <3>3. CASE j <= k
      <4>1. g[j] = first + j - 1
        BY <1>2, <3>3
      <4> QED
        BY <3>2, <3>3, <4>1
    <3>4. CASE j = k + 1
      BY <2>3, <3>2, <3>4
    <3>5. CASE k + 1 < j
      <4>1. g[k + 1] < g[j]
        BY <2>1, <3>5
      <4> QED
        BY <2>1, <2>3, <3>2, <4>1
    <3> QED
      BY <3>3, <3>4, <3>5
  <2>4. g[k + 1] = first + (k + 1) - 1
    BY SMTT(60), <2>1, <2>2, <2>3
  <2>5. ASSUME NEW j \in 1..n, j <= k + 1 PROVE g[j] = first + j - 1
    <3>1. CASE j <= k
      BY <1>2, <3>1
    <3>2. CASE j = k + 1
      BY <2>4, <3>2
    <3> QED
      BY <2>5, <3>1, <3>2
  <2> HIDE DEF RisesOver
  <2> QED
    BY <2>5
<1>3. n \in T
  <2> HIDE DEF T
  <2>1. n \in 0..n
    OBVIOUS
  <2> QED
    BY <1>1, <1>2, <2>1, Upto
<1>4. \A k \in 1..n : g[k] = first + k - 1
  BY <1>3
<1>5. n <= m
  <2>1. CASE n = 0
    BY <2>1
  <2>2. CASE n # 0
    <3>1. n \in 1..n
      BY <2>2
    <3>2. g[n] = first + n - 1 /\ g[n] < first + m
      BY <1>4, <3>1
    <3> QED
      BY <3>2
  <2> QED
    BY <2>1, <2>2
<1>6. ~(n < m)
  <2>1. SUFFICES ASSUME n < m PROVE FALSE
    OBVIOUS
  <2>2. PICK k \in 1..n : g[k] = first + n
    BY <2>1
  <2>3. g[k] = first + k - 1
    BY <1>4
  <2> QED
    BY <2>2, <2>3
<1> QED
  BY <1>4, <1>5, <1>6

\* The results of a level, in the order of its clusters.
Gathered(r, seq) ==
    /\ seq \in Seq(Outputs)
    /\ Len(seq) = Len(LevelOf(r))
    /\ \A k \in DOMAIN LevelOf(r) : \E i \in DOMAIN r.level_results :
          r.level_results[i] = <<LevelOf(r)[k], seq[k]>>

LEMMA SortedIsGathered ==
    ASSUME NEW r, OnPlan(r), r.schema \in Schema, Lacking(r) = {},
           r.level_results \in LevelResults
    PROVE  Gathered(r, sort_by_cluster_id(r.level_results))
<1> DEFINE lr == r.level_results
           n == Len(lr)
           level == LevelOf(r)
           m == Len(level)
           places == DOMAIN lr
           id(i) == lr[i][1]
           R == {p \in places \X places : \/ id(p[1]) < id(p[2])
                                          \/ id(p[1]) = id(p[2]) /\ p[1] < p[2]}
           sorted == SortedBy(places, R)
           seq == [k \in places |-> lr[sorted[k]][2]]
           P == Nat \X Outputs
<1>1. sort_by_cluster_id(lr) = seq
  BY Zenon DEF sort_by_cluster_id
<1>2. n \in Nat /\ places = 1..n /\ \A i \in places : lr[i] \in P
  <2>1. lr \in Seq(P)
    BY DEF LevelResults
  <2> HIDE DEF P, lr
  <2> QED
    BY <2>1, LenProperties, ElementOfSeq
<1>3. \A i \in places : id(i) \in Nat /\ lr[i][2] \in Outputs /\ lr[i] = <<id(i), lr[i][2]>>
  <2> HIDE DEF lr
  <2> QED
    BY <1>2
<1>4. /\ m \in Nat \ {0} /\ DOMAIN level = 1..m
      /\ \A j \in DOMAIN level : level[j] \in Nat /\ level[j] = level[1] + j - 1
  BY LevelsRun DEF OnPlan, LevelRuns
<1>5. \A i, j \in places : i # j => id(i) # id(j)
  BY DEF OnPlan
<1>6. \A i \in places : \E k \in DOMAIN level : id(i) = level[k]
  BY DEF OnPlan
<1>7. \A k \in DOMAIN level : \E i \in places : id(i) = level[k]
  BY DEF Lacking
<1> HIDE DEF lr, level, m, n
<1>8. \A i, j \in places : <<i, j>> \in R <=> id(i) < id(j)
  BY <1>2, <1>3, <1>5
<1>9. StrictOrder(places, R)
  <2> HIDE DEF R, places
  <2> QED
    BY <1>3, <1>5, <1>8 DEF StrictOrder
<1>10. IsFiniteSet(places) /\ Cardinality(places) = n
  BY <1>2, FS_Interval
<1>11. /\ sorted \in [1..n -> places]
       /\ \A i \in places : \E k \in 1..n : sorted[k] = i
       /\ \A j, k \in 1..n : j < k => <<sorted[j], sorted[k]>> \in R
  <2> HIDE DEF R, places
  <2> QED
    BY <1>9, <1>10, SortedByLists DEF Lists
<1> HIDE DEF R, sorted, places
<1> DEFINE g == [k \in 1..n |-> id(sorted[k])]
           first == level[1]
<1>12. first \in Nat
  BY <1>4
<1>13. g \in [1..n -> Nat] /\ \A k \in 1..n : g[k] = id(sorted[k])
  BY <1>3, <1>11
<1>14. \A j, k \in 1..n : j < k => g[j] < g[k]
  BY <1>8, <1>11, <1>13
<1>15. \A k \in 1..n : first <= g[k] /\ g[k] < first + m
  <2>1. SUFFICES ASSUME NEW k \in 1..n PROVE first <= g[k] /\ g[k] < first + m
    OBVIOUS
  <2>2. PICK j \in 1..m : g[k] = level[j]
    BY <1>4, <1>6, <1>11, <1>13
  <2>3. level[j] = first + j - 1
    BY <1>4
  <2> HIDE DEF first
  <2> QED
    BY <1>4, <1>12, <2>2, <2>3
<1>16. ASSUME NEW v \in Nat, first <= v, v < first + m PROVE \E k \in 1..n : g[k] = v
  <2>1. v - first + 1 \in 1..m /\ first + (v - first + 1) - 1 = v
    <3> HIDE DEF first
    <3> QED
      BY <1>4, <1>12, <1>16
  <2>2. level[v - first + 1] = v
    BY <1>4, <2>1
  <2>3. PICK i \in places : id(i) = v
    BY <1>4, <1>7, <2>1, <2>2
  <2>4. PICK k \in 1..n : sorted[k] = i
    BY <1>11
  <2> QED
    BY <1>13, <2>3, <2>4
<1>17. n = m /\ \A k \in 1..n : g[k] = first + k - 1
  <2> HIDE DEF g, first
  <2>1. n \in Nat /\ m \in Nat /\ first \in Nat /\ g \in [1..n -> Nat]
    BY <1>2, <1>4, <1>12, <1>13
  <2>2. \A v \in Nat : first <= v /\ v < first + m => \E k \in 1..n : g[k] = v
    BY <1>16
  <2>3. RisesOver(g, n, first, m)
    BY <1>14, <1>15, <2>1, <2>2 DEF RisesOver
  <2> QED
    BY <2>1, <2>3, RisesByOne
<1>18. seq = [k \in 1..n |-> lr[sorted[k]][2]]
  BY <1>2 DEF places
<1>19. seq \in Seq(Outputs) /\ Len(seq) = n
  <2>1. seq \in [1..n -> Outputs]
    BY <1>3, <1>11, <1>18
  <2> HIDE DEF seq
  <2> QED
    BY <1>2, <2>1, ListsAreSeqs
<1>20. ASSUME NEW k \in DOMAIN level
       PROVE  \E i \in places : lr[i] = <<level[k], seq[k]>>
  <2>1. k \in 1..n /\ level[k] = first + k - 1
    BY <1>4, <1>17
  <2>2. id(sorted[k]) = level[k]
    BY <1>13, <1>17, <2>1
  <2>3. seq[k] = lr[sorted[k]][2]
    BY <1>18, <2>1
  <2>4. sorted[k] \in places
    BY <1>11, <2>1
  <2> QED
    BY <1>3, <2>2, <2>3, <2>4
<1> HIDE DEF seq
<1> QED
  BY <1>1, <1>17, <1>19, <1>20 DEF Gathered, lr, level, m, places

\* The request q has ended the level of r.
EndsLevel(r, q) ==
    LET last == r.level = Len(Plan[r.schema].levels)
    IN  /\ q.schema = r.schema /\ q.template = r.template /\ q.revision = r.revision
        /\ q.pc = IF last THEN "write" ELSE "lookup"
        /\ q.level = IF last THEN r.level ELSE r.level + 1
        /\ q.next = 1 /\ q.level_results = <<>>
        /\ q.results = r.results \o sort_by_cluster_id(r.level_results)

\* A result was one before or is one of the level.
Follows(r, q) ==
    \A i \in DOMAIN q.results :
        \/ i \in DOMAIN r.results /\ q.results[i] = r.results[i]
        \/ \E j \in DOMAIN r.level_results : r.level_results[j] = <<i, q.results[i]>>

LEMMA EndedLevelOnPlan ==
    ASSUME NEW r, NEW q, EndsLevel(r, q), OnPlan(r), r.schema \in Schema,
           r.pc \in {"call", "collect"}, Lacking(r) = {},
           r.results \in Seq(Outputs), r.level_results \in LevelResults
    PROVE  /\ OnPlan(q) /\ AtStep(q) /\ Follows(r, q)
           /\ q.results \in Seq(Outputs)
           /\ q.pc = "lookup" => Missed(q) = {}
<1> DEFINE plan == Plan[r.schema]
           level == LevelOf(r)
           new == sort_by_cluster_id(r.level_results)
           n == Len(r.results)
           m == Len(level)
           last == r.level = Len(plan.levels)
<1>1. Gathered(r, new)
  BY SortedIsGathered
<1>2. NumberedOn(plan)
  BY PlanIsNumberedOn
<1> HIDE DEF plan
<1>3. r.level \in DOMAIN plan.levels /\ level = plan.levels[r.level]
  BY DEF OnPlan, plan, LevelOf
<1> HIDE DEF level
<1>4. /\ m \in Nat \ {0} /\ DOMAIN level = 1..m
      /\ \A j \in DOMAIN level : level[j] = level[1] + j - 1
      /\ r.level < Len(plan.levels) => plan.levels[r.level + 1][1] = level[1] + m
      /\ r.level = Len(plan.levels) => level[1] + m = Len(plan.clusters) + 1
      /\ Len(plan.levels) \in Nat /\ DOMAIN plan.levels = 1..Len(plan.levels)
  BY <1>2, <1>3 DEF NumberedOn
<1>5. level[1] \in Nat
  <2>1. level[1] \in DOMAIN plan.clusters /\ DOMAIN plan.clusters = 1..Len(plan.clusters)
    BY <1>2, <1>3, <1>4 DEF NumberedOn
  <2> QED
    BY <2>1
<1>6. n \in Nat /\ DOMAIN r.results = 1..n /\ level[1] = n + 1
  <2>1. n = level[1] - 1
    BY DEF OnPlan, level
  <2> QED
    BY <1>5, <2>1, LenProperties
<1> HIDE DEF m, new
<1>7. new \in Seq(Outputs) /\ Len(new) = m
  BY <1>1 DEF Gathered, m, level
<1>8. q.results = r.results \o new
  BY DEF EndsLevel, new
<1>9. /\ q.results \in Seq(Outputs) /\ Len(q.results) = n + m
      /\ \A i \in 1..(n + m) : q.results[i] = IF i <= n THEN r.results[i] ELSE new[i - n]
  <2> DEFINE old == r.results
  <2>1. old \in Seq(Outputs) /\ q.results = old \o new
    BY <1>8
  <2> HIDE DEF old
  <2>2. /\ old \o new \in Seq(Outputs) /\ Len(old \o new) = Len(old) + Len(new)
        /\ \A i \in 1..(Len(old) + Len(new)) :
              (old \o new)[i] = IF i <= Len(old) THEN old[i] ELSE new[i - Len(old)]
    BY <1>7, <2>1, ConcatProperties
  <2> QED
    BY <1>7, <2>1, <2>2 DEF old
<1>10. DOMAIN q.results = 1..(n + m)
  BY <1>9, LenProperties
<1>11. ASSUME NEW i \in DOMAIN q.results
       PROVE  \/ i \in DOMAIN r.results /\ q.results[i] = r.results[i]
              \/ \E j \in DOMAIN r.level_results : r.level_results[j] = <<i, q.results[i]>>
  <2>1. CASE i <= n
    <3>1. i \in 1..n /\ i \in 1..(n + m)
      BY <1>4, <1>6, <1>10, <2>1
    <3> QED
      BY <1>6, <1>9, <2>1, <3>1
  <2>2. CASE ~(i <= n)
    <3>1. i - n \in 1..m /\ q.results[i] = new[i - n] /\ i \in Nat
      BY SMTT(60), <1>4, <1>6, <1>9, <1>10, <2>2
    <3>2. level[i - n] = i
      <4>1. level[i - n] = level[1] + (i - n) - 1
        BY <1>4, <3>1
      <4> QED
        BY <1>6, <3>1, <4>1
    <3>3. \E j \in DOMAIN r.level_results : r.level_results[j] = <<level[i - n], new[i - n]>>
      BY <1>1, <1>4, <3>1 DEF Gathered, level
    <3> QED
      BY <3>1, <3>2, <3>3
  <2> QED
    BY <2>1, <2>2
<1>12. Follows(r, q)
  BY <1>11 DEF Follows
<1>13. \A c : SignatureOf(q, c) = SignatureOf(r, c)
  BY DEF SignatureOf, EndsLevel
<1>14. ASSUME NEW i \in DOMAIN q.results PROVE Authored(q.results[i], SignatureOf(q, i))
  <2>1. CASE i \in DOMAIN r.results /\ q.results[i] = r.results[i]
    BY <1>13, <2>1 DEF OnPlan
  <2>2. ASSUME NEW j \in DOMAIN r.level_results, r.level_results[j] = <<i, q.results[i]>>
        PROVE  Authored(q.results[i], SignatureOf(q, i))
    <3>1. r.level_results[j][1] = i /\ r.level_results[j][2] = q.results[i]
      BY <2>2
    <3>2. Authored(r.level_results[j][2], SignatureOf(r, r.level_results[j][1]))
      BY DEF OnPlan
    <3> QED
      BY <1>13, <3>1, <3>2
  <2> QED
    BY <1>11, <2>1, <2>2
<1>15. q.schema = r.schema /\ q.level_results = <<>> /\ q.next = 1
  BY DEF EndsLevel
<1>16. CASE last
  <2>1. q.pc = "write" /\ q.level = r.level
    BY <1>16 DEF EndsLevel, plan
  <2>2. Len(q.results) = Len(plan.clusters)
    <3>1. level[1] + m = Len(plan.clusters) + 1 /\ Len(plan.clusters) \in Nat
      BY <1>2, <1>4, <1>16 DEF NumberedOn
    <3> QED
      BY <1>4, <1>6, <1>9, <3>1
  <2>3. OnPlan(q)
    BY <1>3, <1>14, <1>15, <2>1, <2>2 DEF OnPlan, plan
  <2>4. AtStep(q)
    BY <2>1 DEF AtStep
  <2> QED
    BY <1>9, <1>12, <2>1, <2>3, <2>4
<1>17. CASE ~last
  <2>1. q.pc = "lookup" /\ q.level = r.level + 1
    BY <1>17 DEF EndsLevel, plan
  <2>2. q.level \in DOMAIN plan.levels /\ r.level < Len(plan.levels)
    BY <1>3, <1>4, <1>17, <2>1
  <2>3. LevelOf(q) = plan.levels[q.level]
    BY <1>15 DEF LevelOf, plan
  <2>4. LevelOf(q)[1] = level[1] + m
    BY <1>4, <2>1, <2>2, <2>3
  <2>5. LevelRuns(q)
    BY <1>15, <2>2, LevelsRun DEF plan
  <2>6. /\ 1 \in DOMAIN LevelOf(q)
        /\ \A j \in DOMAIN LevelOf(q) : LevelOf(q)[j] >= LevelOf(q)[1]
    BY <2>5 DEF LevelRuns
  <2>7. Len(q.results) = LevelOf(q)[1] - 1
    BY <1>4, <1>6, <1>9, <2>4
  <2>8. OnPlan(q)
    BY <1>14, <1>15, <2>1, <2>2, <2>7 DEF OnPlan, plan
  <2>9. AtStep(q)
    BY <1>15, <2>1, <2>6 DEF AtStep
  <2>10. Missed(q) = {}
    <3>1. \A j \in DOMAIN LevelOf(q) : LevelOf(q)[j] \in Nat
      BY <2>5 DEF LevelRuns
    <3>2. \A c \in Lacking(q) : ~(c < LevelOf(q)[q.next])
      BY <1>15, <2>6, <3>1 DEF Lacking
    <3> QED
      BY <2>1, <3>2 DEF Missed
  <2> QED
    BY <1>9, <1>12, <2>8, <2>9, <2>10
<1> QED
  BY <1>16, <1>17

-----------------------------------------------------------------------------
(* Steps of the streams.                                                    *)

\* Only the request of stream s changes.
Changes(s) == DOMAIN run' = Stream /\ \A o \in Stream \ {s} : run'[o] = run[o]

LEMMA InitIInv == Init => IInv
<1> SUFFICES ASSUME Init PROVE IInv
  OBVIOUS
<1> USE DEF Init
<1>1. Shapes
  <2>1. checkpoints \in Seq(Rows)
    BY EmptySeq
  <2>2. template \in [Stream -> Template]
    BY ConstantsAssumption
  <2>3. draft \in [revision : Nat, schema : Schema, design : {draft.design}]
    OBVIOUS
  <2>4. 0 \in 0..MaxFaults
    BY BoundsAssumption
  <2> QED
    BY <2>1, <2>2, <2>3, <2>4 DEF Shapes
<1>2. UniqueRows /\ DesignedUnderOneTemplate
  BY DEF UniqueRows, DesignedUnderOneTemplate
<1>3. \A s \in Stream : run[s] = Idle
  OBVIOUS
<1>4. Coherent
  BY <1>3 DEF Coherent, RowsCohere
<1> QED
  BY <1>1, <1>2, <1>3, <1>4 DEF IInv

LEMMA FaultsAreBounded ==
    ASSUME faults \in 0..MaxFaults, Fault
    PROVE  faults' \in 0..MaxFaults
  BY BoundsAssumption DEF Fault

\* A step of one request that leaves the draft and the rows alone.
LEMMA RequestSteps ==
    ASSUME IInv, NEW s \in Stream, Changes(s), draft' = draft, checkpoints' = checkpoints,
           template' \in [Stream -> Template], faults' \in 0..MaxFaults,
           disturbed' \in BOOLEAN, ~disturbed' => ~disturbed,
           run'[s] # Idle => Fits(run'[s], draft),
           ~disturbed' /\ run'[s] # Idle =>
              RunCoheres(run'[s], draft.schema, checkpoints) /\ (run[s] # Idle \/ Alone(s))
    PROVE  IInv'
<1> USE DEF IInv
<1>1. Shapes'
  BY DEF Shapes, Changes
<1>2. UniqueRows' /\ DesignedUnderOneTemplate'
  BY DEF UniqueRows, DesignedUnderOneTemplate
<1>3. \A o \in Stream : run'[o] # Idle => Fits(run'[o], draft')
  BY DEF Changes
<1>4. ASSUME ~disturbed' PROVE Coherent'
  <2>1. Coherent
    BY <1>4
  <2>2. RowsCohere(draft'.schema, checkpoints')
    BY <2>1 DEF Coherent
  <2>3. \A o \in Stream : run'[o] # Idle => RunCoheres(run'[o], draft'.schema, checkpoints')
    BY <1>4, <2>1 DEF Coherent, Changes
  <2>4. \A o, u \in Stream : run'[o] # Idle /\ run'[u] # Idle => o = u
    BY <1>4, <2>1 DEF Coherent, Changes, Alone
  <2> QED
    BY <2>2, <2>3, <2>4 DEF Coherent
<1> QED
  BY <1>1, <1>2, <1>3, <1>4

LEMMA HandlerRuns ==
    ASSUME IInv, NEW s \in Stream, run[s].pc \in Steps
    PROVE  /\ run[s] # Idle /\ Fits(run[s], draft)
           /\ ~disturbed => RunCoheres(run[s], draft.schema, checkpoints)
<1>1. run[s] # Idle
  BY DEF Idle, Steps
<1> QED
  BY <1>1 DEF IInv, Coherent

LEMMA OfTheRequest ==
    ASSUME NEW s \in Stream
    PROVE  /\ Clusters(s) = Plan[run[s].schema].clusters
           /\ Level(s) = LevelOf(run[s])
           /\ Missing(s) = Lacking(run[s])
           /\ \A c : Signature(s, c) = SignatureOf(run[s], c)
  BY DEF Clusters, Level, LevelOf, Missing, Misses, Lacking, Signature, SignatureOf

LEMMA StartPreserves ==
    ASSUME IInv, NEW s \in Stream, Start(s)
    PROVE  IInv'
<1> DEFINE q == [pc |-> "lookup", revision |-> draft.revision, schema |-> draft.schema,
                 template |-> template[s], level |-> 1, next |-> 1,
                 results |-> <<>>, level_results |-> <<>>, answers |-> <<>>]
<1>1. run'[s] = q /\ Changes(s) /\ run[s] = Idle
  BY DEF IInv, Shapes, Start, Changes
<1>2. /\ draft' = draft /\ checkpoints' = checkpoints /\ template' = template
      /\ template \in [Stream -> Template]
  BY DEF IInv, Shapes, Start
<1>3. \/ Alone(s) /\ UNCHANGED <<faults, disturbed>>
      \/ Fault /\ disturbed' = TRUE
  BY DEF Start
<1>4. /\ faults' \in 0..MaxFaults /\ disturbed' \in BOOLEAN
      /\ ~disturbed' => ~disturbed /\ Alone(s)
  BY <1>3, FaultsAreBounded DEF IInv, Shapes
<1>5. q \in Requests(q.answers)
  <2>1. <<>> \in Seq(Outputs) /\ <<>> \in LevelResults
    BY EmptySeq DEF LevelResults
  <2>2. draft.revision \in Nat /\ draft.schema \in Schema
    BY DEF IInv, Shapes
  <2> QED
    BY <1>2, <2>1, <2>2 DEF Requests, Steps
<1>6. /\ q.schema = draft.schema /\ q.schema \in Schema /\ q.revision = draft.revision /\ q.revision \in Nat
      /\ q.pc = "lookup" /\ q.level = 1 /\ q.next = 1 /\ q.results = <<>> /\ q.level_results = <<>>
  BY DEF IInv, Shapes
<1> HIDE DEF q
<1>7. OnPlan(q) /\ AtStep(q) /\ Missed(q) = {}
  BY <1>6, FirstLevelOnPlan
<1>8. Fits(q, draft)
  BY <1>5, <1>6, <1>7 DEF Fits, Seen
<1>9. RunCoheres(q, draft.schema, checkpoints)
  BY <1>6, <1>7 DEF RunCoheres
<1> QED
  BY <1>1, <1>2, <1>4, <1>8, <1>9, RequestSteps

LEMMA LosePreserves ==
    ASSUME IInv, NEW s \in Stream, Lose(s)
    PROVE  IInv'
<1>1. run'[s] = Idle /\ Changes(s)
  BY DEF IInv, Shapes, Lose, End, Changes
<1>2. draft' = draft /\ checkpoints' = checkpoints /\ disturbed' = disturbed
  BY DEF Lose
<1>3. template' \in [Stream -> Template] /\ faults' \in 0..MaxFaults /\ disturbed' \in BOOLEAN
  BY <1>2, FaultsAreBounded DEF IInv, Shapes, Lose
<1> QED
  BY <1>1, <1>2, <1>3, RequestSteps

\* What is found is the output of a row.
LEMMA FoundIsKept ==
    ASSUME checkpoints \in Seq(Rows), NEW sig, NEW output \in find_by_signature(sig)
    PROVE  output \in Outputs /\ Authored(output, sig) /\ Kept(output, sig, checkpoints)
<1>1. PICK i \in DOMAIN checkpoints : checkpoints[i].signature = sig /\ checkpoints[i].output = output
  BY DEF find_by_signature, rows
<1>2. checkpoints[i] \in Rows
  BY ElementOfSeq, LenProperties
<1>3. /\ checkpoints[i] \in [signature : Signatures, output : Outputs]
      /\ Authored(checkpoints[i].output, checkpoints[i].signature)
  BY SMTT(60), <1>2 DEF Rows
<1>4. checkpoints[i] = [signature |-> sig, output |-> output]
  BY SMTT(60), <1>1, <1>3
<1> QED
  BY <1>1, <1>3, <1>4 DEF Kept

LEMMA LookupPreserves ==
    ASSUME IInv, NEW s \in Stream, Lookup(s)
    PROVE  IInv'
<1> DEFINE r == run[s]
           q == run'[s]
           c == LevelOf(r)[r.next]
           sig == SignatureOf(r, c)
           found == find_by_signature(sig)
           To(level_results) ==
               [r EXCEPT !.level_results = level_results, !.next = @ + 1,
                         !.pc = IF r.next < Len(LevelOf(r)) THEN @ ELSE "call"]
<1>1. r # Idle /\ Fits(r, draft) /\ r.pc = "lookup" /\ (~disturbed => RunCoheres(r, draft.schema, checkpoints))
  BY ZenonT(60), HandlerRuns DEF Lookup, Steps
<1>2. /\ draft' = draft /\ checkpoints' = checkpoints /\ template' = template
      /\ template \in [Stream -> Template] /\ checkpoints \in Seq(Rows)
  BY ZenonT(60) DEF IInv, Shapes, Lookup
<1>3. Level(s) = LevelOf(r) /\ Signature(s, c) = sig
  BY SMTT(60), OfTheRequest
<1>4. \/ found = {} /\ q = To(r.level_results) /\ UNCHANGED <<faults, disturbed>>
      \/ \E output \in found : q = To(Append(r.level_results, <<c, output>>)) /\ UNCHANGED <<faults, disturbed>>
      \/ Fault /\ q = To(r.level_results) /\ disturbed' = (disturbed \/ found # {})
  BY ZenonT(60), <1>3 DEF IInv, Shapes, Lookup, Pushed
<1>5. Changes(s)
  BY DEF IInv, Shapes, Lookup, Changes
<1>6. faults' \in 0..MaxFaults /\ disturbed' \in BOOLEAN /\ (~disturbed' => ~disturbed)
  BY <1>4, FaultsAreBounded DEF IInv, Shapes
<1>7. /\ r \in Requests(r.answers) /\ r.schema \in Schema /\ r.level_results \in LevelResults
      /\ OnPlan(r) /\ AtStep(r) /\ Seen(r, draft)
  BY <1>1 DEF Fits, Requests
<1>8. ASSUME NEW level_results \in LevelResults, q = To(level_results)
      PROVE  /\ Stays(r, q) /\ q.level_results = level_results /\ q.next = r.next + 1
             /\ q.pc = IF r.next < Len(LevelOf(r)) THEN "lookup" ELSE "call"
             /\ q \in Requests(q.answers) /\ Seen(q, draft)
  <2> DEFINE pc == IF r.next < Len(LevelOf(r)) THEN r.pc ELSE "call"
             next == r.next + 1
  <2>1. pc \in Steps /\ next \in Nat
    BY <1>1, <1>7 DEF Requests, Steps
  <2>2. q = [r EXCEPT !.level_results = level_results, !.next = next, !.pc = pc]
    BY <1>8
  <2> HIDE DEF pc, next, r, q
  <2>3. q \in Requests(r.answers) /\ q.answers = r.answers
    BY <1>7, <1>8, <2>1, <2>2 DEF Requests
  <2>4. /\ q.level_results = level_results /\ q.next = next /\ q.pc = pc
        /\ q.schema = r.schema /\ q.template = r.template /\ q.revision = r.revision
        /\ q.level = r.level /\ q.results = r.results
    BY <1>7, <2>2 DEF Requests
  <2> QED
    BY <1>1, <1>7, <2>3, <2>4 DEF Stays, Seen, pc, next
<1> HIDE DEF q, r
<1>9. r.next \in DOMAIN LevelOf(r) /\ LevelRuns(r) /\ c \in Nat
  BY <1>1, <1>7, LevelsRun DEF AtStep, OnPlan, LevelRuns
<1>10. c \in Lacking(r) /\ \A d \in Lacking(r) : d < c => d \in Missed(r)
  <2>1. \A i \in DOMAIN r.level_results : r.level_results[i][1] < c
    BY <1>1, <1>7 DEF AtStep
  <2>2. c \in Lacking(r)
    BY <1>9, <2>1 DEF Lacking
  <2> QED
    BY <2>2 DEF Missed
<1>11. ASSUME q = To(r.level_results), ~disturbed' => found = {}
       PROVE  Fits(q, draft) /\ (~disturbed' => RunCoheres(q, draft.schema, checkpoints))
  <2>1. /\ Stays(r, q) /\ q.level_results = r.level_results /\ q.next = r.next + 1
        /\ q.pc = IF r.next < Len(LevelOf(r)) THEN "lookup" ELSE "call"
        /\ q \in Requests(q.answers) /\ Seen(q, draft)
    BY <1>7, <1>8, <1>11
  <2>2. OnPlan(q) /\ Lacking(q) = Lacking(r)
    BY <1>7, <2>1, StayingOnPlan
  <2>3. AtStep(q) /\ \A d \in Missed(q) : d = c \/ d < c
    BY <1>1, <1>7, <2>1, LookedUpAtStep
  <2>4. ASSUME ~disturbed' PROVE RunCoheres(q, draft.schema, checkpoints)
    <3>1. RunCoheres(r, draft.schema, checkpoints) /\ found = {}
      BY <1>1, <1>6, <1>11, <2>4
    <3>2. \A d : SignatureOf(q, d) = SignatureOf(r, d)
      BY <2>1, StayingKeepsLevel
    <3>3. \A i \in DOMAIN checkpoints : checkpoints[i].signature # sig
      BY <3>1 DEF find_by_signature, rows
    <3>4. ASSUME NEW d \in Missed(q), NEW i \in DOMAIN checkpoints
          PROVE  checkpoints[i].signature # SignatureOf(q, d)
      <4>1. CASE d = c
        BY <3>2, <3>3, <4>1
      <4>2. CASE d < c
        <5>1. d \in Missed(r)
          BY <1>10, <2>2, <4>2 DEF Missed
        <5> QED
          BY <1>1, <3>1, <3>2, <5>1 DEF RunCoheres
      <4> QED
        BY <2>3, <4>1, <4>2
    <3>5. q.pc # "collect"
      BY <2>1
    <3> QED
      BY <2>1, <3>1, <3>2, <3>4, <3>5 DEF RunCoheres, Stays
  <2> QED
    BY <2>1, <2>2, <2>3, <2>4 DEF Fits
<1>12. ASSUME NEW output \in found, q = To(Append(r.level_results, <<c, output>>)), disturbed' = disturbed
       PROVE  Fits(q, draft) /\ (~disturbed' => RunCoheres(q, draft.schema, checkpoints))
  <2> DEFINE lr == Append(r.level_results, <<c, output>>)
             n == Len(r.level_results)
  <2>1. output \in Outputs /\ Authored(output, sig) /\ Kept(output, sig, checkpoints)
    BY <1>2, FoundIsKept
  <2>2. lr \in LevelResults
    <3> DEFINE T == Nat \X Outputs
    <3>1. <<c, output>> \in T /\ r.level_results \in Seq(T)
      BY <1>7, <1>9, <2>1 DEF LevelResults
    <3>2. LevelResults = Seq(T)
      BY DEF LevelResults
    <3> HIDE DEF T
    <3> QED
      BY <3>1, <3>2, AppendProperties
  <2>3. /\ Stays(r, q) /\ q.level_results = lr /\ q.next = r.next + 1
        /\ q.pc = IF r.next < Len(LevelOf(r)) THEN "lookup" ELSE "call"
        /\ q \in Requests(q.answers) /\ Seen(q, draft)
    BY <1>8, <1>12, <2>2
  <2> HIDE DEF found, sig
  <2>4. /\ OnPlan(q) /\ Lacking(q) = Lacking(r) \ {c}
        /\ DOMAIN q.level_results = DOMAIN r.level_results \cup {n + 1}
        /\ \A i \in DOMAIN r.level_results : q.level_results[i] = r.level_results[i]
        /\ q.level_results[n + 1] = <<c, output>>
    BY <1>7, <1>10, <2>1, <2>3, PushedOnPlan DEF sig
  <2>5. \A i \in DOMAIN q.level_results :
           \/ q.level_results[i][1] = c
           \/ \E j \in DOMAIN r.level_results : q.level_results[i][1] = r.level_results[j][1]
    BY <2>4
  <2>6. AtStep(q) /\ \A d \in Missed(q) : d = c \/ d < c
    BY <1>1, <1>7, <2>3, <2>5, LookedUpAtStep
  <2>7. ASSUME ~disturbed' PROVE RunCoheres(q, draft.schema, checkpoints)
    <3>1. RunCoheres(r, draft.schema, checkpoints)
      BY <1>1, <1>6, <2>7
    <3>2. \A d : SignatureOf(q, d) = SignatureOf(r, d)
      BY <2>3, StayingKeepsLevel
    <3>3. ASSUME NEW d \in Missed(q), NEW i \in DOMAIN checkpoints
          PROVE  checkpoints[i].signature # SignatureOf(q, d)
      <4>1. d \in Lacking(r) /\ d # c
        BY <2>4 DEF Missed
      <4>2. d \in Missed(r)
        BY <1>10, <2>6, <4>1
      <4> QED
        BY <1>1, <3>1, <3>2, <4>2 DEF RunCoheres
    <3>4. ASSUME NEW i \in DOMAIN q.level_results
          PROVE  Kept(q.level_results[i][2], SignatureOf(q, q.level_results[i][1]), checkpoints)
      <4>1. CASE i \in DOMAIN r.level_results
        BY <2>4, <3>1, <3>2, <4>1 DEF RunCoheres
      <4>2. CASE i = n + 1
        <5>1. q.level_results[i][1] = c /\ q.level_results[i][2] = output
          BY <2>4, <4>2
        <5> QED
          BY <2>1, <3>2, <5>1 DEF sig
      <4> QED
        BY <2>4, <4>1, <4>2
    <3>5. q.pc # "collect"
      BY <2>3
    <3> QED
      BY <2>3, <3>1, <3>2, <3>3, <3>4, <3>5 DEF RunCoheres, Stays
  <2> QED
    BY <2>3, <2>4, <2>6, <2>7 DEF Fits
<1>13. Fits(q, draft) /\ (~disturbed' => RunCoheres(q, draft.schema, checkpoints))
  <2>1. CASE found = {} /\ q = To(r.level_results)
    BY <1>11, <2>1
  <2>2. CASE q = To(r.level_results) /\ disturbed' = (disturbed \/ found # {})
    BY <1>11, <2>2
  <2> QED
    BY <1>4, <1>12, <2>1, <2>2
<1> QED
  BY SMTT(60), <1>1, <1>2, <1>5, <1>6, <1>13, RequestSteps DEF q, r

\* What the model makes of a cluster is of its tables and under the prompt
\* of the request, and refers to results of the request.
LEMMA OutputsAreAuthored ==
    ASSUME IInv, NEW s \in Stream, run[s].pc \in Steps,
           NEW c \in Lacking(run[s]), NEW name \in Name
    PROVE  /\ Output(s, c, name) \in Outputs
           /\ Authored(Output(s, c, name), SignatureOf(run[s], c))
           /\ \A ref \in Output(s, c, name).refs : \E i \in DOMAIN run[s].results :
                 run[s].results[i].tables = ref.tables /\ run[s].results[i].name = ref.name
<1> DEFINE r == run[s]
           Ref(i) == [tables |-> r.results[i].tables, name |-> r.results[i].name]
           refs == Output(s, c, name).refs
           Tables == {d.tables : d \in Cluster}
<1>1. /\ r \in Requests(r.answers) /\ r.schema \in Schema /\ r.template \in Template
      /\ r.results \in Seq(Outputs) /\ OnPlan(r)
  BY HandlerRuns DEF Fits, Requests
<1>2. c \in DOMAIN Plan[r.schema].clusters
  BY SMTT(60), <1>1, LevelsRun DEF OnPlan, LevelRuns, Lacking
<1>3. /\ Plan[r.schema].clusters[c] \in Cluster
      /\ SignatureOf(r, c).tables = Plan[r.schema].clusters[c].tables
      /\ SignatureOf(r, c).template = r.template
  BY <1>1, <1>2, SignaturesAreTyped
<1>4. \E S : S \subseteq DOMAIN r.results
             /\ Output(s, c, name) = [tables |-> Plan[r.schema].clusters[c].tables,
                                      template |-> r.template, name |-> name,
                                      refs |-> {Ref(i) : i \in S}]
  <2> DEFINE Near(i) == \E fk \in Clusters(s)[c].cross_fks :
                           {fk.from, fk.to} \cap run[s].results[i].tables # {}
             S == {j \in DOMAIN run[s].results : Near(j)}
  <2>1. Output(s, c, name) = [tables |-> Clusters(s)[c].tables, template |-> r.template, name |-> name,
                              refs |-> {Ref(i) : i \in S}]
    BY DEF Output
  <2>2. Clusters(s) = Plan[r.schema].clusters /\ S \subseteq DOMAIN r.results
    BY OfTheRequest
  <2> HIDE DEF S, Ref
  <2> QED
    BY <2>1, <2>2
<1>5. PICK S : S \subseteq DOMAIN r.results
               /\ Output(s, c, name) = [tables |-> Plan[r.schema].clusters[c].tables,
                                        template |-> r.template, name |-> name,
                                        refs |-> {Ref(i) : i \in S}]
  BY <1>4
<1>6. refs = {Ref(i) : i \in S}
  BY <1>5
<1>7. \A i \in DOMAIN r.results : r.results[i].tables \in Tables /\ r.results[i].name \in Name
  <2>1. \A i \in DOMAIN r.results : r.results[i] \in Outputs
    BY <1>1, LenProperties, ElementOfSeq
  <2> QED
    BY <2>1 DEF Outputs
<1>8. refs \in SUBSET [tables : Tables, name : Name]
  BY <1>5, <1>6, <1>7
<1>9. Plan[r.schema].clusters[c].tables \in Tables
  BY <1>3
<1>10. Output(s, c, name) \in Outputs
  <2> HIDE DEF Tables, Ref
  <2>1. {Ref(i) : i \in S} \in SUBSET [tables : Tables, name : Name]
    BY <1>6, <1>8
  <2> HIDE DEF r
  <2>2. Output(s, c, name) \in [tables : Tables, template : Template, name : Name,
                                refs : SUBSET [tables : Tables, name : Name]]
    BY <1>1, <1>5, <1>9, <2>1
  <2> QED
    BY <2>2 DEF Outputs, Tables
<1>11. Authored(Output(s, c, name), SignatureOf(r, c))
  BY <1>3, <1>5 DEF Authored
<1>12. ASSUME NEW ref \in refs
       PROVE  \E i \in DOMAIN r.results : r.results[i].tables = ref.tables /\ r.results[i].name = ref.name
  BY <1>5, <1>6
<1> QED
  BY <1>10, <1>11, <1>12

LEMMA CallsReturnPreserves ==
    ASSUME IInv, NEW s \in Stream, CallsReturn(s)
    PROVE  IInv'
<1> DEFINE r == run[s]
           q == run'[s]
<1>1. /\ r # Idle /\ Fits(r, draft) /\ r.pc = "call" /\ r.pc \in Steps
      /\ ~disturbed => RunCoheres(r, draft.schema, checkpoints)
  BY HandlerRuns DEF CallsReturn, Steps
<1>2. /\ draft' = draft /\ checkpoints' = checkpoints /\ template' = template
      /\ faults' = faults /\ disturbed' = disturbed
      /\ template \in [Stream -> Template] /\ faults \in 0..MaxFaults /\ disturbed \in BOOLEAN
  BY DEF IInv, Shapes, CallsReturn
<1>3. Changes(s)
  BY DEF IInv, Shapes, CallsReturn, Changes
<1>4. PICK names \in [Missing(s) -> Name \cup {None}] :
          run' = [run EXCEPT ![s].pc = "collect",
                             ![s].answers = [c \in DOMAIN names |->
                                 IF names[c] = None THEN Failed ELSE Output(s, c, names[c])]]
  BY DEF CallsReturn
<1> DEFINE answers == [c \in DOMAIN names |->
                          IF names[c] = None THEN Failed ELSE Output(s, c, names[c])]
<1>5. Missing(s) = Lacking(r)
  BY OfTheRequest
<1>6. ASSUME NEW c \in Lacking(r), answers[c] # Failed
      PROVE  /\ answers[c] \in Outputs /\ Authored(answers[c], SignatureOf(r, c))
             /\ \A ref \in answers[c].refs : \E i \in DOMAIN r.results :
                   r.results[i].tables = ref.tables /\ r.results[i].name = ref.name
  <2>1. answers[c] = Output(s, c, names[c]) /\ names[c] \in Name
    BY <1>5, <1>6
  <2> HIDE DEF answers
  <2> QED
    BY <1>1, <2>1, OutputsAreAuthored
<1>7. DOMAIN answers = Lacking(r)
  BY <1>5
<1>8. q = [r EXCEPT !.pc = "collect", !.answers = answers]
  BY <1>4 DEF IInv, Shapes
<1> HIDE DEF answers, r, q
<1>9. /\ r \in Requests(r.answers) /\ OnPlan(r) /\ Seen(r, draft)
  BY <1>1 DEF Fits
<1>10. /\ q \in Requests(q.answers) /\ q.answers = answers /\ q.pc = "collect"
       /\ q.level_results = r.level_results /\ Stays(r, q) /\ Seen(q, draft)
  <2>1. q \in Requests(answers) /\ q.answers = answers
    BY <1>8, <1>9 DEF Requests, Steps
  <2>2. /\ q.pc = "collect" /\ q.level_results = r.level_results
        /\ q.schema = r.schema /\ q.template = r.template /\ q.revision = r.revision
        /\ q.level = r.level /\ q.results = r.results
    BY <1>8, <1>9 DEF Requests
  <2> QED
    BY <1>1, <1>9, <2>1, <2>2 DEF Stays, Seen
<1>11. OnPlan(q) /\ Lacking(q) = Lacking(r) /\ \A c : SignatureOf(q, c) = SignatureOf(r, c)
  BY <1>9, <1>10, StayingOnPlan, StayingKeepsLevel
<1>12. AtStep(q)
  BY <1>6, <1>7, <1>10, <1>11 DEF AtStep
<1>13. Fits(q, draft)
  BY <1>10, <1>11, <1>12 DEF Fits
<1>14. ASSUME ~disturbed PROVE RunCoheres(q, draft.schema, checkpoints)
  <2>1. RunCoheres(r, draft.schema, checkpoints) /\ q.results = r.results /\ q.schema = r.schema
    BY <1>1, <1>10, <1>14 DEF Stays
  <2>2. \A c \in Missed(q) : c \in Missed(r)
    BY <1>1, <1>10, <1>11 DEF Missed
  <2>3. \A c \in Lacking(q) : q.answers[c] # Failed =>
           \A ref \in q.answers[c].refs : \E i \in DOMAIN q.results :
              q.results[i].tables = ref.tables /\ q.results[i].name = ref.name
    BY <1>6, <1>10, <1>11, <2>1
  <2> QED
    BY <1>1, <1>10, <1>11, <2>1, <2>2, <2>3 DEF RunCoheres
<1> QED
  BY <1>1, <1>2, <1>3, <1>13, <1>14, RequestSteps DEF q, r

LEMMA EndLevelPreserves ==
    ASSUME IInv, NEW s \in Stream, EndLevel(s)
    PROVE  IInv'
<1> DEFINE r == run[s]
           q == run'[s]
           last == r.level = Len(Plan[r.schema].levels)
           results == r.results \o sort_by_cluster_id(r.level_results)
           pc == IF last THEN "write" ELSE "lookup"
           level == IF last THEN r.level ELSE r.level + 1
<1>1. /\ r # Idle /\ Fits(r, draft) /\ r.pc \in {"call", "collect"}
      /\ ~disturbed => RunCoheres(r, draft.schema, checkpoints)
  BY HandlerRuns DEF EndLevel, Steps
<1>2. /\ draft' = draft /\ checkpoints' = checkpoints /\ template' = template
      /\ faults' = faults /\ disturbed' = disturbed
      /\ template \in [Stream -> Template] /\ faults \in 0..MaxFaults /\ disturbed \in BOOLEAN
  BY DEF IInv, Shapes, EndLevel
<1>3. Changes(s)
  BY DEF IInv, Shapes, EndLevel, Changes
<1>4. q = [r EXCEPT !.pc = pc, !.level = level, !.next = 1, !.results = results,
                    !.level_results = <<>>, !.answers = <<>>]
  BY DEF IInv, Shapes, EndLevel
<1>5. Lacking(r) = {}
  BY OfTheRequest DEF EndLevel
<1> HIDE DEF r, q, results, last
<1>6. /\ r \in Requests(r.answers) /\ OnPlan(r) /\ Seen(r, draft) /\ r.schema \in Schema
      /\ r.results \in Seq(Outputs) /\ r.level_results \in LevelResults /\ r.level \in Nat
  BY <1>1 DEF Fits, Requests
<1>7. pc \in Steps /\ level \in Nat
  BY <1>6 DEF Steps
<1> HIDE DEF pc, level
<1>8. /\ q.pc = pc /\ q.level = level /\ q.next = 1 /\ q.results = results
      /\ q.level_results = <<>> /\ q.answers = <<>>
      /\ q.schema = r.schema /\ q.template = r.template /\ q.revision = r.revision
  BY <1>4, <1>6 DEF Requests
<1>9. EndsLevel(r, q)
  BY <1>8 DEF EndsLevel, results, pc, level, last
<1>10. /\ OnPlan(q) /\ AtStep(q) /\ Follows(r, q) /\ q.results \in Seq(Outputs)
       /\ q.pc = "lookup" => Missed(q) = {}
  BY <1>1, <1>5, <1>6, <1>9, EndedLevelOnPlan
<1>11. q \in Requests(q.answers)
  <2>1. <<>> \in LevelResults
    BY EmptySeq DEF LevelResults
  <2>2. results \in Seq(Outputs)
    BY <1>8, <1>10
  <2>3. q \in Requests(<<>>)
    BY <1>4, <1>6, <1>7, <2>1, <2>2 DEF Requests
  <2> QED
    BY <1>8, <2>3
<1>12. Fits(q, draft)
  BY <1>6, <1>8, <1>10, <1>11 DEF Fits, Seen
<1>13. ASSUME ~disturbed PROVE RunCoheres(q, draft.schema, checkpoints)
  <2>1. RunCoheres(r, draft.schema, checkpoints)
    BY <1>1, <1>13
  <2>2. \A c : SignatureOf(q, c) = SignatureOf(r, c)
    BY <1>8 DEF SignatureOf
  <2>3. ASSUME NEW i \in DOMAIN q.results PROVE Kept(q.results[i], SignatureOf(q, i), checkpoints)
    <3>1. CASE i \in DOMAIN r.results /\ q.results[i] = r.results[i]
      BY <2>1, <2>2, <3>1 DEF RunCoheres
    <3>2. ASSUME NEW j \in DOMAIN r.level_results, r.level_results[j] = <<i, q.results[i]>>
          PROVE  Kept(q.results[i], SignatureOf(q, i), checkpoints)
      <4>1. r.level_results[j][1] = i /\ r.level_results[j][2] = q.results[i]
        BY <3>2
      <4>2. Kept(r.level_results[j][2], SignatureOf(r, r.level_results[j][1]), checkpoints)
        BY <2>1 DEF RunCoheres
      <4> QED
        BY <2>2, <4>1, <4>2
    <3> QED
      BY <1>10, <3>1, <3>2 DEF Follows
  <2>4. q.pc \in {"write", "lookup"} /\ DOMAIN q.level_results = {}
    BY <1>8 DEF pc
  <2> QED
    BY <1>8, <1>10, <2>1, <2>3, <2>4 DEF RunCoheres
<1> QED
  BY <1>1, <1>2, <1>3, <1>12, <1>13, RequestSteps DEF q, r

LEMMA WritePreserves ==
    ASSUME IInv, NEW s \in Stream, Write(s)
    PROVE  IInv'
<1> DEFINE r == run[s]
           q == run'[s]
<1>1. /\ r # Idle /\ Fits(r, draft) /\ r.pc = "write"
      /\ ~disturbed => RunCoheres(r, draft.schema, checkpoints)
  BY HandlerRuns DEF Write, Steps
<1>2. /\ checkpoints' = checkpoints /\ template' = template
      /\ faults' = faults /\ disturbed' = disturbed
      /\ template \in [Stream -> Template] /\ faults \in 0..MaxFaults /\ disturbed \in BOOLEAN
  BY DEF IInv, Shapes, Write
<1>3. Changes(s)
  BY DEF IInv, Shapes, Write, Changes, End
<1>4. CASE q = Idle /\ draft' = draft
  BY <1>2, <1>3, <1>4, RequestSteps
<1>5. CASE /\ r.revision = draft.revision
           /\ draft' = [draft EXCEPT !.revision = @ + 1, !.design = r.results]
           /\ q = [r EXCEPT !.pc = "drop"]
  <2> HIDE DEF r, q
  <2>1. /\ draft \in [revision : Nat, schema : Schema, design : {draft.design}]
        /\ r \in Requests(r.answers) /\ OnPlan(r) /\ Seen(r, draft)
    BY <1>1 DEF IInv, Shapes, Fits
  <2>2. /\ draft' \in [revision : Nat, schema : Schema, design : {draft'.design}]
        /\ draft'.design = r.results /\ draft'.schema = draft.schema
        /\ draft'.revision = draft.revision + 1 /\ draft.revision \in Nat
    <3> DEFINE next == draft.revision + 1
               d == [draft EXCEPT !.revision = next, !.design = r.results]
    <3>1. next \in Nat /\ draft.revision \in Nat /\ draft' = d
      BY <1>5, <2>1
    <3> HIDE DEF next
    <3>2. /\ d \in [revision : Nat, schema : Schema, design : {r.results}]
          /\ d.revision = next /\ d.design = r.results /\ d.schema = draft.schema
      BY <2>1, <3>1
    <3> HIDE DEF d
    <3> QED
      BY <3>1, <3>2 DEF next
  <2>3. Shapes'
    BY <1>2, <1>3, <2>2 DEF IInv, Shapes, Changes
  <2>4. UniqueRows'
    BY <1>2 DEF IInv, UniqueRows
  <2>5. DesignedUnderOneTemplate'
    <3>1. \A i \in DOMAIN r.results : r.results[i].template = r.template
      BY <2>1 DEF OnPlan, Authored, SignatureOf, ClusterSignature
    <3> QED
      BY <2>2, <3>1 DEF DesignedUnderOneTemplate
  <2>6. /\ q \in Requests(q.answers) /\ q.pc = "drop" /\ q.schema = r.schema /\ q.template = r.template
        /\ q.revision = r.revision /\ q.level = r.level /\ q.results = r.results
        /\ q.level_results = r.level_results
    BY <1>5, <2>1 DEF Requests, Steps
  <2>7. /\ LevelOf(q) = LevelOf(r) /\ \A c : SignatureOf(q, c) = SignatureOf(r, c)
    BY <2>6 DEF LevelOf, SignatureOf
  <2>8. OnPlan(q) /\ AtStep(q)
    BY <1>1, <2>1, <2>6, <2>7 DEF OnPlan, AtStep
  <2>9. ASSUME NEW o \in Stream, run'[o] # Idle PROVE Fits(run'[o], draft')
    <3>1. CASE o = s
      <4>1. q.revision < draft'.revision
        BY <1>5, <2>2, <2>6
      <4>2. Seen(q, draft')
        BY <1>5, <2>2, <2>6, <4>1 DEF Seen
      <4> QED
        BY <2>6, <2>8, <3>1, <4>2 DEF Fits, q
    <3>2. CASE o # s
      <4>1. run'[o] = run[o]
        BY <1>3, <3>2 DEF Changes
      <4>2. Fits(run[o], draft)
        BY <2>9, <4>1 DEF IInv
      <4>3. run[o].revision \in Nat /\ run[o].revision <= draft.revision
        BY <4>2 DEF Fits, Seen, Requests
      <4>4. run[o].revision < draft'.revision
        BY <2>2, <4>3
      <4>5. Seen(run[o], draft')
        BY <2>2, <4>3, <4>4 DEF Seen
      <4> QED
        BY <4>1, <4>2, <4>5 DEF Fits
    <3> QED
      BY <3>1, <3>2
  <2>10. ASSUME ~disturbed' PROVE Coherent'
    <3>1. Coherent
      BY <1>2, <2>10 DEF IInv
    <3>2. RunCoheres(q, draft.schema, checkpoints)
      BY <1>1, <1>2, <2>6, <2>7, <2>10 DEF RunCoheres
    <3>3. \A o \in Stream : run'[o] # Idle => RunCoheres(run'[o], draft'.schema, checkpoints')
      BY <1>2, <1>3, <2>2, <3>1, <3>2 DEF Coherent, Changes, q
    <3>4. \A o, u \in Stream : run'[o] # Idle /\ run'[u] # Idle => o = u
      BY <1>1, <1>3, <3>1 DEF Coherent, Changes, r
    <3>5. RowsCohere(draft'.schema, checkpoints')
      BY <1>2, <2>2, <3>1 DEF Coherent
    <3> QED
      BY <3>3, <3>4, <3>5 DEF Coherent
  <2> QED
    BY <2>3, <2>4, <2>5, <2>9, <2>10 DEF IInv
<1> QED
  BY <1>4, <1>5 DEF IInv, Shapes, Write, End

LEMMA DropPreserves ==
    ASSUME IInv, NEW s \in Stream, Drop(s)
    PROVE  IInv'
<1>1. run'[s] = Idle /\ Changes(s)
  BY DEF IInv, Shapes, Drop, End, Changes
<1>2. draft' = draft /\ template' = template /\ template \in [Stream -> Template]
  BY DEF IInv, Shapes, Drop
<1>3. CASE Fault /\ UNCHANGED <<checkpoints, disturbed>>
  <2>1. faults' \in 0..MaxFaults /\ disturbed' \in BOOLEAN
    BY <1>3, FaultsAreBounded DEF IInv, Shapes
  <2> QED
    BY <1>1, <1>2, <1>3, <2>1, RequestSteps
<1>4. CASE checkpoints' = <<>> /\ disturbed' = ~Alone(s) /\ UNCHANGED faults
  <2>1. Shapes'
    <3>1. checkpoints' \in Seq(Rows)
      BY <1>4, EmptySeq
    <3>2. disturbed' \in BOOLEAN
      BY <1>4
    <3> QED
      BY <1>1, <1>2, <1>4, <3>1, <3>2 DEF IInv, Shapes, Changes
  <2>2. UniqueRows' /\ DesignedUnderOneTemplate'
    BY <1>2, <1>4 DEF IInv, UniqueRows, DesignedUnderOneTemplate
  <2>3. \A o \in Stream : run'[o] # Idle => Fits(run'[o], draft')
    BY <1>1, <1>2 DEF IInv, Changes
  <2>4. ASSUME ~disturbed' PROVE Coherent'
    <3>1. \A o \in Stream : run'[o] = Idle
      BY <1>1, <1>4, <2>4 DEF Alone, Changes
    <3> QED
      BY <1>4, <3>1 DEF Coherent, RowsCohere
  <2> QED
    BY <2>1, <2>2, <2>3, <2>4 DEF IInv
<1> QED
  BY <1>3, <1>4 DEF Drop

LEMMA DecidePreserves ==
    ASSUME IInv, Decide
    PROVE  IInv'
<1>1. /\ template' = template /\ checkpoints' = checkpoints /\ run' = run
      /\ draft \in [revision : Nat, schema : Schema, design : {draft.design}]
      /\ template \in [Stream -> Template] /\ checkpoints \in Seq(Rows) /\ DOMAIN run = Stream
  BY DEF IInv, Shapes, Decide
<1>2. PICK s \in Followed : draft' = [draft EXCEPT !.schema = s, !.revision = @ + 1]
  BY DEF Decide
<1>3. /\ draft' \in [revision : Nat, schema : Schema, design : {draft'.design}]
      /\ draft'.design = draft.design
      /\ draft'.revision = draft.revision + 1 /\ draft.revision \in Nat
  <2> DEFINE next == draft.revision + 1
             d == [draft EXCEPT !.schema = s, !.revision = next]
  <2>1. next \in Nat /\ draft.revision \in Nat /\ draft' = d /\ s \in Schema
    BY <1>1, <1>2, ConstantsAssumption
  <2> HIDE DEF next
  <2>2. /\ d \in [revision : Nat, schema : Schema, design : {draft.design}]
        /\ d.revision = next /\ d.design = draft.design
    BY <1>1, <2>1
  <2> HIDE DEF d
  <2> QED
    BY <2>1, <2>2 DEF next
<1>4. faults' \in 0..MaxFaults
  BY FaultsAreBounded DEF IInv, Shapes, Decide
<1>5. disturbed' \in BOOLEAN /\ (~disturbed' => checkpoints = <<>> /\ \A o \in Stream : run[o] = Idle)
  BY DEF IInv, Shapes, Decide
<1>6. Shapes'
  BY <1>1, <1>3, <1>4, <1>5 DEF Shapes
<1>7. UniqueRows' /\ DesignedUnderOneTemplate'
  BY <1>1, <1>3 DEF IInv, UniqueRows, DesignedUnderOneTemplate
<1>8. ASSUME NEW o \in Stream, run'[o] # Idle PROVE Fits(run'[o], draft')
  <2>1. run'[o] = run[o] /\ Fits(run[o], draft)
    BY <1>1, <1>8 DEF IInv
  <2>2. run[o].revision \in Nat /\ run[o].revision <= draft.revision
    BY <2>1 DEF Fits, Seen, Requests
  <2>3. run[o].revision < draft'.revision
    BY <1>3, <2>2
  <2>4. Seen(run[o], draft')
    BY <1>3, <2>2, <2>3 DEF Seen
  <2> QED
    BY <2>1, <2>4 DEF Fits
<1>9. ~disturbed' => Coherent'
  BY <1>1, <1>5 DEF Coherent, RowsCohere
<1> QED
  BY <1>6, <1>7, <1>8, <1>9 DEF IInv

LEMMA SweepPreserves ==
    ASSUME IInv, sweep_expired
    PROVE  IInv'
<1> DEFINE rs == checkpoints
           len == Len(rs)
<1>1. /\ draft' = draft /\ template' = template /\ run' = run /\ disturbed' = TRUE
      /\ rs \in Seq(Rows)
  BY DEF IInv, Shapes, sweep_expired
<1>2. PICK n \in DOMAIN rs : rs' = SubSeq(rs, n + 1, len)
  BY DEF sweep_expired
<1>3. len \in Nat /\ DOMAIN rs = 1..len /\ n \in 1..len /\ \A i \in 1..len : rs[i] \in Rows
  BY <1>1, LenProperties, ElementOfSeq
<1> HIDE DEF rs, len
<1>4. /\ rs' \in Seq(Rows) /\ Len(rs') = len - n
      /\ \A i \in 1..(len - n) : rs'[i] = rs[n + i]
  <2>1. n + 1 \in Int /\ len \in Int /\ \A i \in (n + 1)..len : rs[i] \in Rows
    BY <1>3
  <2>2. /\ SubSeq(rs, n + 1, len) \in Seq(Rows)
        /\ Len(SubSeq(rs, n + 1, len)) = IF n + 1 <= len THEN len - (n + 1) + 1 ELSE 0
        /\ \A i \in 1..(len - (n + 1) + 1) : SubSeq(rs, n + 1, len)[i] = rs[(n + 1) + i - 1]
    BY <2>1, SubSeqProperties
  <2>3. \A i \in 1..(len - n) : (n + 1) + i - 1 = n + i
    BY <1>3
  <2> QED
    BY <1>2, <1>3, <2>2, <2>3
<1>5. DOMAIN rs' = 1..(len - n)
  BY <1>4, LenProperties
<1>6. UniqueRows'
  <2>1. ASSUME NEW i \in DOMAIN rs', NEW j \in DOMAIN rs', i # j
        PROVE  rs'[i].signature # rs'[j].signature
    <3>1. /\ n + i \in DOMAIN rs /\ n + j \in DOMAIN rs /\ n + i # n + j
          /\ rs'[i] = rs[n + i] /\ rs'[j] = rs[n + j]
      BY <1>3, <1>4, <1>5, <2>1
    <3> QED
      BY <3>1 DEF IInv, UniqueRows, rs
  <2> QED
    BY <2>1 DEF UniqueRows, rs
<1>7. Shapes'
  <2>1. faults' \in 0..MaxFaults
    BY FaultsAreBounded DEF IInv, Shapes, sweep_expired
  <2> QED
    BY <1>1, <1>4, <2>1 DEF IInv, Shapes, rs
<1>8. DesignedUnderOneTemplate' /\ \A o \in Stream : run'[o] # Idle => Fits(run'[o], draft')
  BY <1>1 DEF IInv, DesignedUnderOneTemplate
<1> QED
  BY <1>1, <1>6, <1>7, <1>8 DEF IInv

\* The sequence o is rs without its k-th entry.
Omits(o, rs, k) ==
    /\ o \in Seq(Rows) /\ Len(o) = Len(rs) - 1
    /\ \A j \in DOMAIN o : o[j] = rs[IF j < k THEN j ELSE j + 1]

LEMMA RemoveAtOmits ==
    ASSUME NEW rs \in Seq(Rows), NEW k \in DOMAIN rs
    PROVE  Omits(RemoveAt(rs, k), rs, k)
<1> DEFINE len == Len(rs)
           front == SubSeq(rs, 1, k - 1)
           back == SubSeq(rs, k + 1, len)
           o == front \o back
<1>1. len \in Nat /\ DOMAIN rs = 1..len /\ k \in 1..len /\ \A i \in 1..len : rs[i] \in Rows
  BY LenProperties, ElementOfSeq
<1>2. RemoveAt(rs, k) = o
  BY DEF RemoveAt
<1> HIDE DEF len
<1>3. front \in Seq(Rows) /\ Len(front) = k - 1 /\ \A i \in 1..(k - 1) : front[i] = rs[i]
  <2>1. 1 \in Int /\ k - 1 \in Int /\ \A i \in 1..(k - 1) : rs[i] \in Rows
    BY <1>1
  <2>2. /\ front \in Seq(Rows) /\ Len(front) = IF 1 <= k - 1 THEN (k - 1) - 1 + 1 ELSE 0
        /\ \A i \in 1..((k - 1) - 1 + 1) : front[i] = rs[1 + i - 1]
    BY <2>1, SubSeqProperties
  <2> HIDE DEF front
  <2> QED
    BY <1>1, <2>2
<1>4. back \in Seq(Rows) /\ Len(back) = len - k /\ \A i \in 1..(len - k) : back[i] = rs[k + i]
  <2>1. k + 1 \in Int /\ len \in Int /\ \A i \in (k + 1)..len : rs[i] \in Rows
    BY <1>1
  <2>2. /\ back \in Seq(Rows) /\ Len(back) = IF k + 1 <= len THEN len - (k + 1) + 1 ELSE 0
        /\ \A i \in 1..(len - (k + 1) + 1) : back[i] = rs[(k + 1) + i - 1]
    BY <2>1, SubSeqProperties
  <2> HIDE DEF back
  <2>3. \A i \in 1..(len - k) : (k + 1) + i - 1 = k + i
    BY <1>1
  <2> QED
    BY <1>1, <2>2, <2>3
<1> HIDE DEF front, back
<1>5. /\ o \in Seq(Rows) /\ Len(o) = Len(front) + Len(back)
      /\ \A i \in 1..(Len(front) + Len(back)) :
            o[i] = IF i <= Len(front) THEN front[i] ELSE back[i - Len(front)]
  BY <1>3, <1>4, ConcatProperties
<1> HIDE DEF o
<1>6. Len(o) = len - 1 /\ DOMAIN o = 1..(len - 1)
  <2>1. DOMAIN o = 1..Len(o)
    BY <1>5, LenProperties
  <2> QED
    BY <1>1, <1>3, <1>4, <1>5, <2>1
<1>7. ASSUME NEW j \in 1..(len - 1) PROVE o[j] = rs[IF j < k THEN j ELSE j + 1]
  <2>1. j \in 1..(Len(front) + Len(back))
    BY <1>1, <1>3, <1>4
  <2>2. CASE j < k
    <3>1. j <= Len(front) /\ j \in 1..(k - 1)
      BY <1>1, <1>3, <2>2
    <3> QED
      BY <1>3, <1>5, <2>1, <2>2, <3>1
  <2>3. CASE ~(j < k)
    <3>1. ~(j <= Len(front)) /\ j - (k - 1) \in 1..(len - k) /\ k + (j - (k - 1)) = j + 1
      BY <1>1, <1>3, <2>3
    <3>2. o[j] = back[j - (k - 1)]
      BY <1>3, <1>5, <2>1, <3>1
    <3> QED
      BY <1>4, <2>3, <3>1, <3>2
  <2> QED
    BY <2>2, <2>3
<1> QED
  BY <1>2, <1>5, <1>6, <1>7 DEF Omits, len

\* The rows rs have one more, of signature sig.
Extends(rs, old, sig, output) ==
    /\ rs = Append(old, [signature |-> sig, output |-> output])
    /\ rs \in Seq(Rows)
    /\ DOMAIN rs = DOMAIN old \cup {Len(old) + 1} /\ Len(old) + 1 \notin DOMAIN old
    /\ \A i \in DOMAIN old : rs[i] = old[i]
    /\ rs[Len(old) + 1] = [signature |-> sig, output |-> output]

LEMMA AppendExtends ==
    ASSUME NEW old \in Seq(Rows), NEW sig \in Signatures, NEW output \in Outputs,
           Authored(output, sig)
    PROVE  Extends(Append(old, [signature |-> sig, output |-> output]), old, sig, output)
<1> DEFINE row == [signature |-> sig, output |-> output]
           rs == Append(old, row)
           n == Len(old)
<1>1. row \in Rows
  BY DEF Rows
<1> HIDE DEF row
<1>2. n \in Nat /\ DOMAIN old = 1..n
  BY LenProperties
<1>3. /\ rs \in Seq(Rows) /\ Len(rs) = n + 1
      /\ \A i \in 1..n : rs[i] = old[i]
      /\ rs[n + 1] = row
  BY <1>1, AppendProperties
<1>4. DOMAIN rs = 1..(n + 1)
  BY <1>3, LenProperties
<1> HIDE DEF rs, n
<1>5. DOMAIN rs = DOMAIN old \cup {n + 1} /\ n + 1 \notin DOMAIN old
  BY <1>2, <1>4
<1> QED
  BY <1>2, <1>3, <1>5 DEF Extends, row, rs, n

LEMMA UpsertKeepsRows ==
    ASSUME checkpoints \in Seq(Rows), UniqueRows,
           NEW sig \in Signatures, NEW output \in Outputs, Authored(output, sig),
           upsert(sig, output)
    PROVE  /\ checkpoints' \in Seq(Rows) /\ UniqueRows'
           /\ rows(sig) = {} => Extends(checkpoints', checkpoints, sig, output)
<1> DEFINE others == IF rows(sig) = {} THEN checkpoints
                     ELSE RemoveAt(checkpoints, CHOOSE i \in rows(sig) : TRUE)
<1>1. checkpoints' = Append(others, [signature |-> sig, output |-> output])
  BY DEF upsert
<1>2. /\ others \in Seq(Rows)
      /\ \A i, j \in DOMAIN others : i # j => others[i].signature # others[j].signature
      /\ \A i \in DOMAIN others : others[i].signature # sig
  <2>1. CASE rows(sig) = {}
    BY <2>1 DEF rows, UniqueRows
  <2>2. CASE rows(sig) # {}
    <3>1. PICK k \in rows(sig) : others = RemoveAt(checkpoints, k)
      BY <2>2
    <3>2. k \in DOMAIN checkpoints /\ checkpoints[k].signature = sig
      BY DEF rows
    <3> DEFINE from(j) == IF j < k THEN j ELSE j + 1
    <3>3. Omits(others, checkpoints, k)
      BY <3>1, <3>2, RemoveAtOmits
    <3> HIDE DEF others
    <3>4. /\ Len(checkpoints) \in Nat /\ DOMAIN checkpoints = 1..Len(checkpoints)
          /\ others \in Seq(Rows) /\ DOMAIN others = 1..(Len(checkpoints) - 1)
      <4>1. others \in Seq(Rows) /\ Len(others) = Len(checkpoints) - 1
        BY <3>3 DEF Omits
      <4> QED
        BY <4>1, LenProperties
    <3>5. ASSUME NEW j \in DOMAIN others
          PROVE  others[j] = checkpoints[from(j)] /\ from(j) \in DOMAIN checkpoints /\ from(j) # k
      BY <3>2, <3>3, <3>4 DEF Omits
    <3>6. \A i, j \in DOMAIN others : i # j => from(i) # from(j)
      BY <3>2, <3>4
    <3> HIDE DEF from
    <3> QED
      BY <3>2, <3>4, <3>5, <3>6 DEF UniqueRows
  <2> QED
    BY <2>1, <2>2
<1>3. rows(sig) = {} => others = checkpoints
  OBVIOUS
<1> HIDE DEF others
<1>4. Extends(checkpoints', others, sig, output)
  BY <1>1, <1>2, AppendExtends
<1>5. checkpoints' \in Seq(Rows)
  BY <1>4 DEF Extends
<1>6. ASSUME NEW i \in DOMAIN checkpoints', NEW j \in DOMAIN checkpoints', i # j
      PROVE  checkpoints'[i].signature # checkpoints'[j].signature
  <2> DEFINE m == Len(others) + 1
  <2>1. /\ DOMAIN checkpoints' = DOMAIN others \cup {m}
        /\ \A l \in DOMAIN others : checkpoints'[l] = others[l]
        /\ checkpoints'[m].signature = sig
    BY <1>4 DEF Extends
  <2> HIDE DEF m
  <2> QED
    BY <1>2, <1>6, <2>1
<1> QED
  BY <1>3, <1>4, <1>5, <1>6 DEF UniqueRows

LEMMA FirstMissingIsMissing ==
    ASSUME NEW s \in Stream, Missing(s) # {}, LevelRuns(run[s])
    PROVE  FirstMissing(s) \in Lacking(run[s])
<1>1. Level(s) = LevelOf(run[s]) /\ Missing(s) = Lacking(run[s])
  BY OfTheRequest
<1>2. Misses(s) # {}
  BY DEF Missing
<1>3. Misses(s) \subseteq Nat
  BY <1>1 DEF Misses, LevelRuns
<1>4. Min(Misses(s)) \in Misses(s)
  BY <1>2, <1>3, MinIsLeast
<1>5. FirstMissing(s) \in Missing(s)
  BY <1>4 DEF FirstMissing, Missing
<1> QED
  BY <1>1, <1>5

\* A row for a cluster that had none keeps the cache coherent.
LEMMA ExtendedRowsCohere ==
    ASSUME NEW schema \in Schema, NEW old \in Seq(Rows), RowsCohere(schema, old),
           NEW r, r \in Requests(r.answers), OnPlan(r), RunCoheres(r, schema, old), r.pc = "collect",
           NEW c \in Lacking(r), NEW output \in Outputs, Authored(output, SignatureOf(r, c)),
           output = r.answers[c], output # Failed,
           NEW rs, Extends(rs, old, SignatureOf(r, c), output)
    PROVE  RowsCohere(schema, rs)
<1> DEFINE sig == SignatureOf(r, c)
           n == Len(old) + 1
           row == [signature |-> sig, output |-> output]
<1>1. /\ DOMAIN rs = DOMAIN old \cup {n} /\ \A i \in DOMAIN old : rs[i] = old[i]
      /\ rs[n] = row
  BY DEF Extends
<1>2. r.schema = schema /\ r.schema \in Schema /\ r.results \in Seq(Outputs)
  BY DEF RunCoheres, Requests
<1>3. rs[n].signature = sig /\ rs[n].output = output
  BY <1>1
<1> HIDE DEF n, row
<1>4. \A ref, t : Resolves(ref, t, old) => Resolves(ref, t, rs)
  BY <1>1 DEF Resolves
<1>5. output.template = r.template /\ sig.template = r.template
  BY DEF Authored, SignatureOf, ClusterSignature
<1>6. ASSUME NEW i \in DOMAIN old
      PROVE  /\ \E d \in DOMAIN Plan[schema].clusters : rs[i].signature =
                   ClusterSignature(Plan[schema].clusters[d], rs[i].output.template)
             /\ \A ref \in rs[i].output.refs : Resolves(ref, rs[i].output.template, rs)
  BY <1>1, <1>4 DEF RowsCohere
<1>7. \E d \in DOMAIN Plan[schema].clusters :
         rs[n].signature = ClusterSignature(Plan[schema].clusters[d], rs[n].output.template)
  <2>1. c \in DOMAIN Plan[schema].clusters
    BY ZenonT(60), <1>2, LevelsRun DEF OnPlan, LevelRuns, Lacking
  <2>2. sig = ClusterSignature(Plan[schema].clusters[c], output.template)
    BY <1>2, <1>5 DEF SignatureOf
  <2> QED
    BY <1>3, <2>1, <2>2
<1>8. ASSUME NEW ref \in output.refs PROVE Resolves(ref, output.template, rs)
  <2>1. PICK i \in DOMAIN r.results : r.results[i].tables = ref.tables /\ r.results[i].name = ref.name
    BY SMTT(60) DEF RunCoheres
  <2>2. r.results[i].template = r.template
    BY DEF OnPlan, Authored, SignatureOf, ClusterSignature
  <2>3. PICK j \in DOMAIN old : old[j] = [signature |-> SignatureOf(r, i), output |-> r.results[i]]
    BY DEF RunCoheres, Kept
  <2>4. old[j].output = r.results[i]
    BY <2>3
  <2>5. Resolves(ref, r.template, old)
    BY <2>1, <2>2, <2>4 DEF Resolves
  <2> QED
    BY <1>4, <1>5, <2>5
<1> HIDE DEF sig
<1>9. ASSUME NEW i \in DOMAIN rs
      PROVE  /\ \E d \in DOMAIN Plan[schema].clusters : rs[i].signature =
                   ClusterSignature(Plan[schema].clusters[d], rs[i].output.template)
             /\ \A ref \in rs[i].output.refs : Resolves(ref, rs[i].output.template, rs)
  <2>1. CASE i \in DOMAIN old
    BY <1>6, <2>1
  <2>2. CASE i = n
    BY <1>3, <1>7, <1>8, <2>2
  <2> QED
    BY <1>1, <2>1, <2>2
<1> QED
  BY <1>9 DEF RowsCohere

LEMMA ExtendedRunCoheres ==
    ASSUME NEW schema \in Schema, NEW old \in Seq(Rows),
           NEW r, r \in Requests(r.answers), OnPlan(r), RunCoheres(r, schema, old), r.pc = "collect",
           NEW q, Stays(r, q), q.pc = "collect", q.answers = r.answers,
           NEW c \in Lacking(r), NEW output \in Outputs, Authored(output, SignatureOf(r, c)),
           q.level_results = Append(r.level_results, <<c, output>>),
           NEW rs, Extends(rs, old, SignatureOf(r, c), output)
    PROVE  RunCoheres(q, schema, rs)
<1> DEFINE sig == SignatureOf(r, c)
           n == Len(old) + 1
           m == Len(r.level_results) + 1
<1>1. /\ DOMAIN rs = DOMAIN old \cup {n} /\ \A i \in DOMAIN old : rs[i] = old[i]
      /\ rs[n] = [signature |-> sig, output |-> output]
  BY DEF Extends
<1>2. /\ r.schema = schema /\ r.schema \in Schema /\ r.results \in Seq(Outputs)
      /\ r.template \in Template /\ r.level_results \in LevelResults
  BY DEF RunCoheres, Requests
<1>3. \A o, g : Kept(o, g, old) => Kept(o, g, rs)
  BY <1>1 DEF Kept
<1>4. Kept(output, sig, rs)
  BY <1>1 DEF Kept
<1>5. \A d : SignatureOf(q, d) = SignatureOf(r, d)
  BY StayingKeepsLevel
<1>6. /\ Lacking(q) = Lacking(r) \ {c}
      /\ DOMAIN q.level_results = DOMAIN r.level_results \cup {m}
      /\ \A i \in DOMAIN r.level_results : q.level_results[i] = r.level_results[i]
      /\ q.level_results[m] = <<c, output>>
  BY <1>2, PushedOnPlan
<1>7. \A d \in Lacking(r) : d \in DOMAIN Plan[schema].clusters
  BY ZenonT(60), <1>2, LevelsRun DEF OnPlan, LevelRuns, Lacking
<1>8. ASSUME NEW d \in Lacking(q), NEW i \in DOMAIN rs
      PROVE  rs[i].signature # SignatureOf(q, d)
  <2>1. CASE i \in DOMAIN old
    <3>1. d \in Missed(r)
      BY <1>6 DEF Missed
    <3> QED
      BY <1>1, <1>5, <2>1, <3>1 DEF RunCoheres
  <2>2. CASE i = n
    <3>1. d # c /\ d \in DOMAIN Plan[schema].clusters /\ c \in DOMAIN Plan[schema].clusters
      BY <1>6, <1>7
    <3>2. Plan[schema].clusters[d].tables # Plan[schema].clusters[c].tables
      BY <3>1, PlanIsNumberedOn DEF NumberedOn
    <3>3. SignatureOf(r, d) # sig
      BY <1>2, <3>1, <3>2, SignaturesAreTyped
    <3>4. rs[i].signature = sig
      BY <1>1, <2>2
    <3> QED
      BY <1>5, <3>3, <3>4
  <2> QED
    BY <1>1, <2>1, <2>2
<1> HIDE DEF m, n, sig
<1>9. ASSUME NEW i \in DOMAIN q.level_results
      PROVE  Kept(q.level_results[i][2], SignatureOf(q, q.level_results[i][1]), rs)
  <2>1. CASE i \in DOMAIN r.level_results
    <3>1. Kept(r.level_results[i][2], SignatureOf(r, r.level_results[i][1]), old)
      BY <2>1 DEF RunCoheres
    <3> QED
      BY <1>3, <1>5, <1>6, <2>1, <3>1
  <2>2. CASE i = m
    <3>1. q.level_results[i][1] = c /\ q.level_results[i][2] = output
      BY <1>6, <2>2
    <3> QED
      BY <1>4, <1>5, <3>1 DEF sig
  <2> QED
    BY <1>6, <2>1, <2>2
<1>10. q.schema = r.schema /\ q.results = r.results
  BY DEF Stays
<1>11. \A i \in DOMAIN q.results : Kept(q.results[i], SignatureOf(q, i), rs)
  BY <1>3, <1>5, <1>10 DEF RunCoheres
<1>12. \A d \in Lacking(q) : q.answers[d] # Failed =>
          \A ref \in q.answers[d].refs : \E i \in DOMAIN q.results :
             q.results[i].tables = ref.tables /\ q.results[i].name = ref.name
  BY <1>6, <1>10 DEF RunCoheres
<1> QED
  BY <1>2, <1>8, <1>9, <1>10, <1>11, <1>12 DEF RunCoheres, Missed

LEMMA CollectPreserves ==
    ASSUME IInv, NEW s \in Stream, Collect(s)
    PROVE  IInv'
<1> DEFINE r == run[s]
           q == run'[s]
           c == FirstMissing(s)
           output == r.answers[c]
           sig == SignatureOf(r, c)
<1>1. /\ r # Idle /\ Fits(r, draft) /\ r.pc = "collect"
      /\ ~disturbed => RunCoheres(r, draft.schema, checkpoints)
  BY HandlerRuns DEF Collect, Steps
<1>2. /\ draft' = draft /\ template' = template /\ template \in [Stream -> Template]
      /\ checkpoints \in Seq(Rows) /\ faults \in 0..MaxFaults /\ disturbed \in BOOLEAN
      /\ draft.schema \in Schema
  BY DEF IInv, Shapes, Collect
<1>3. Changes(s)
  BY DEF IInv, Shapes, Collect, Changes, End
<1>4. CASE q = Idle /\ UNCHANGED <<checkpoints, faults, disturbed>>
  BY <1>2, <1>3, <1>4, RequestSteps
<1>5. CASE /\ output # Failed /\ persist_cluster_checkpoint(s, c, output)
           /\ q = [r EXCEPT !.level_results = Append(r.level_results, <<c, output>>)]
  <2>1. r \in Requests(r.answers) /\ OnPlan(r) /\ AtStep(r) /\ Seen(r, draft)
    BY <1>1 DEF Fits
  <2>2. r.schema \in Schema /\ r.template \in Template /\ r.level_results \in LevelResults
    BY <2>1 DEF Requests
  <2>3. LevelRuns(r)
    BY <2>1, <2>2, LevelsRun DEF OnPlan
  <2>4. c \in Lacking(r)
    BY <2>3, FirstMissingIsMissing DEF Collect
  <2>5. c \in DOMAIN Plan[r.schema].clusters /\ c \in Nat
    BY <2>3, <2>4 DEF LevelRuns, Lacking
  <2>6. output \in Outputs /\ Authored(output, sig)
    BY <1>1, <1>5, <2>1, <2>4 DEF AtStep
  <2>7. sig \in Signatures
    BY <2>2, <2>5, SignaturesAreTyped
  <2>8. Signature(s, c) = sig
    BY OfTheRequest
  <2>9. \/ upsert(sig, output) /\ UNCHANGED <<faults, disturbed>>
        \/ Fault /\ disturbed' = TRUE /\ UNCHANGED checkpoints
    BY <1>5, <2>8 DEF persist_cluster_checkpoint
  <2> DEFINE lr == Append(r.level_results, <<c, output>>)
  <2>10. lr \in LevelResults
    <3> DEFINE T == Nat \X Outputs
    <3>1. <<c, output>> \in T /\ LevelResults = Seq(T)
      BY <2>5, <2>6 DEF LevelResults
    <3> HIDE DEF T
    <3> QED
      BY <2>2, <3>1, AppendProperties
  <2> HIDE DEF r, q, c, output, sig
  <2>11. q = [r EXCEPT !.level_results = lr]
    BY <1>5
  <2>12. /\ q \in Requests(q.answers) /\ q.answers = r.answers /\ q.pc = "collect"
         /\ q.level_results = Append(r.level_results, <<c, output>>)
         /\ Stays(r, q) /\ Seen(q, draft)
    <3> HIDE DEF lr
    <3>1. q \in Requests(r.answers) /\ q.answers = r.answers
      BY <2>1, <2>10, <2>11 DEF Requests
    <3>2. /\ q.pc = r.pc /\ q.level_results = lr /\ q.schema = r.schema /\ q.template = r.template
          /\ q.revision = r.revision /\ q.level = r.level /\ q.results = r.results
      BY <2>1, <2>11 DEF Requests
    <3> QED
      BY <1>1, <2>1, <3>1, <3>2 DEF Stays, Seen, lr
  <2>13. OnPlan(q) /\ Lacking(q) = Lacking(r) \ {c}
    BY <2>1, <2>2, <2>4, <2>6, <2>12, PushedOnPlan DEF sig
  <2>14. AtStep(q)
    <3>1. \A d : SignatureOf(q, d) = SignatureOf(r, d)
      BY <2>12, StayingKeepsLevel
    <3> QED
      BY <1>1, <2>1, <2>12, <2>13, <3>1 DEF AtStep
  <2>15. Fits(q, draft)
    BY <2>12, <2>13, <2>14 DEF Fits
  <2>16. CASE Fault /\ disturbed' = TRUE /\ UNCHANGED checkpoints
    <3>1. faults' \in 0..MaxFaults
      BY <1>2, <2>16, FaultsAreBounded
    <3> QED
      BY <1>1, <1>2, <1>3, <2>15, <2>16, <3>1, RequestSteps DEF q, r
  <2>17. CASE upsert(sig, output) /\ UNCHANGED <<faults, disturbed>>
    <3>1. /\ checkpoints' \in Seq(Rows) /\ UniqueRows'
          /\ rows(sig) = {} => Extends(checkpoints', checkpoints, sig, output)
      BY <1>2, <2>6, <2>7, <2>17, UpsertKeepsRows DEF IInv
    <3>2. Shapes'
      BY <1>2, <1>3, <2>17, <3>1 DEF IInv, Shapes, Changes
    <3>3. DesignedUnderOneTemplate'
      BY <1>2 DEF IInv, DesignedUnderOneTemplate
    <3>4. \A o \in Stream : run'[o] # Idle => Fits(run'[o], draft')
      BY <1>2, <1>3, <2>15 DEF IInv, Changes, q
    <3>5. ASSUME ~disturbed' PROVE Coherent'
      <4>1. Coherent /\ RunCoheres(r, draft.schema, checkpoints)
        BY <1>1, <2>17, <3>5 DEF IInv
      <4>2. c \in Missed(r)
        BY <1>1, <2>4 DEF Missed
      <4>3. rows(sig) = {}
        BY <1>1, <4>1, <4>2 DEF RunCoheres, rows, sig
      <4>4. Extends(checkpoints', checkpoints, SignatureOf(r, c), output)
        BY <3>1, <4>3 DEF sig
      <4>5. RowsCohere(draft.schema, checkpoints)
        BY <4>1 DEF Coherent
      <4>6. Authored(output, SignatureOf(r, c)) /\ output = r.answers[c] /\ output # Failed
        BY <1>5, <2>6 DEF sig, output
      <4>7. RowsCohere(draft.schema, checkpoints')
        BY <1>1, <1>2, <2>1, <2>4, <2>6, <4>1, <4>4, <4>5, <4>6, ExtendedRowsCohere
      <4>8. RunCoheres(q, draft.schema, checkpoints')
        BY <1>1, <1>2, <2>1, <2>4, <2>6, <2>12, <4>1, <4>4, <4>6, ExtendedRunCoheres
      <4>9. \A o, u \in Stream : run'[o] # Idle /\ run'[u] # Idle => o = u
        BY <1>1, <1>3, <4>1 DEF Coherent, Changes, r
      <4>10. \A o \in Stream : run'[o] # Idle => o = s
        BY <1>1, <1>3, <4>1 DEF Coherent, Changes, r
      <4>11. \A o \in Stream : run'[o] # Idle => RunCoheres(run'[o], draft'.schema, checkpoints')
        BY <1>2, <4>8, <4>10 DEF q
      <4> QED
        BY <1>2, <4>7, <4>9, <4>11 DEF Coherent
    <3> QED
      BY <3>1, <3>2, <3>3, <3>4, <3>5 DEF IInv
  <2> QED
    BY <2>9, <2>16, <2>17
<1>6. \/ q = Idle /\ UNCHANGED <<checkpoints, faults, disturbed>>
      \/ /\ output # Failed /\ persist_cluster_checkpoint(s, c, output)
         /\ q = [r EXCEPT !.level_results = Append(r.level_results, <<c, output>>)]
  BY DEF IInv, Shapes, Collect, NextFailed, End, Pushed
<1> QED
  BY <1>4, <1>5, <1>6

-----------------------------------------------------------------------------
(* Theorems.                                                                *)

LEMMA NextPreserves == IInv /\ [Next]_vars => IInv'
<1> SUFFICES ASSUME IInv, [Next]_vars PROVE IInv'
  OBVIOUS
<1>1. CASE UNCHANGED vars
  BY <1>1 DEF vars, IInv, Shapes, UniqueRows, DesignedUnderOneTemplate, Coherent
<1>2. ASSUME NEW s \in Stream, Start(s) PROVE IInv'
  BY <1>2, StartPreserves
<1>3. ASSUME NEW s \in Stream, Lookup(s) PROVE IInv'
  BY <1>3, LookupPreserves
<1>4. ASSUME NEW s \in Stream, CallsReturn(s) PROVE IInv'
  BY <1>4, CallsReturnPreserves
<1>5. ASSUME NEW s \in Stream, Collect(s) PROVE IInv'
  BY <1>5, CollectPreserves
<1>6. ASSUME NEW s \in Stream, EndLevel(s) PROVE IInv'
  BY <1>6, EndLevelPreserves
<1>7. ASSUME NEW s \in Stream, Write(s) PROVE IInv'
  BY <1>7, WritePreserves
<1>8. ASSUME NEW s \in Stream, Drop(s) PROVE IInv'
  BY <1>8, DropPreserves
<1>9. ASSUME NEW s \in Stream, Lose(s) PROVE IInv'
  BY <1>9, LosePreserves
<1>10. CASE Decide
  BY <1>10, DecidePreserves
<1>11. CASE sweep_expired
  BY <1>11, SweepPreserves
<1> QED
  BY <1>1, <1>2, <1>3, <1>4, <1>5, <1>6, <1>7, <1>8, <1>9, <1>10, <1>11 DEF Next, Handler

LEMMA IInvHolds == Spec => []IInv
  BY InitIInv, NextPreserves, PTL DEF Spec

\* The rows of the cache have distinct signatures and a request is at a step
\* of its handler, for any number of streams and of faults.
THEOREM TypeCorrect == Spec => []TypeOK
<1>1. IInv => TypeOK
  <2> SUFFICES ASSUME IInv PROVE TypeOK
    OBVIOUS
  <2>1. \A s \in Stream : run[s] = Idle \/ run[s].pc \in Steps
    BY DEF IInv, Fits, Requests
  <2>2. draft.revision \in Nat
    BY DEF IInv, Shapes
  <2> QED
    BY <2>1, <2>2 DEF IInv, Shapes, UniqueRows, TypeOK, Steps
<1> QED
  BY <1>1, IInvHolds, PTL

\* Whatever finite schema the draft has, each of its tables is in one cluster
\* of at most batch_size tables that the foreign keys hold together
\* (component_groups, bfs_split and compute_parallel_levels lose none).
THEOREM PlansAreWellClustered == Spec => []TablesClustered
<1>1. IInv => TablesClustered
  <2> SUFFICES ASSUME IInv PROVE TablesClustered
    OBVIOUS
  <2>1. draft.schema \in Schema
    BY DEF IInv, Shapes
  <2>2. WellPlanned(draft.schema, MaxSize, Plan[draft.schema])
    BY <2>1, PlanIsWell
  <2> QED
    BY <2>2 DEF WellPlanned, TablesClustered
<1> QED
  BY <1>1, IInvHolds, PTL

\* Whatever finite schema the draft has, the levels of its plan have every
\* cluster once and no cluster comes before, or with, one it refers to, unless
\* its references lead into a cycle (compute_parallel_levels).
THEOREM PlansFollowReferences == Spec => []LevelsFollowReferences
<1>1. IInv => LevelsFollowReferences
  <2> SUFFICES ASSUME IInv PROVE LevelsFollowReferences
    OBVIOUS
  <2>1. draft.schema \in Schema
    BY DEF IInv, Shapes
  <2>2. SchemaIsFinite(draft.schema) /\ MaxSize \in Nat \ {0}
    BY <2>1, SchemasAssumption DEF SchemaIsFinite
  <2>3. Plan[draft.schema] = cluster_tables(draft.schema, MaxSize)
    BY <2>1 DEF Plan
  <2> QED
    BY <2>2, <2>3, PlansAreOrdered DEF LevelsFollowReferences
<1> QED
  BY <1>1, IInvHolds, PTL

\* The outputs of one design were authored under one prompt, whichever
\* processes filled the cache (the prompt hash in ClusterSignature).
THEOREM OnePromptPerDesign == Spec => []DesignedUnderOneTemplate
<1>1. IInv => DesignedUnderOneTemplate
  BY SMTT(60) DEF IInv
<1> QED
  BY <1>1, IInvHolds, PTL

\* A design is written from the results of a request that has followed the
\* plan of the schema the draft still has.
LEMMA DesignsAreResults ==
    ASSUME IInv, [Next]_vars, draft'.design # draft.design
    PROVE  \E s \in Stream : /\ run[s].pc = "write" /\ run[s].revision = draft.revision
                             /\ draft'.design = run[s].results
<1>1. \E s \in Stream : Write(s)
  <2>1. \A s \in Stream : draft' # draft => ~(Start(s) \/ Lookup(s) \/ CallsReturn(s) \/ Collect(s)
                                              \/ EndLevel(s) \/ Drop(s) \/ Lose(s))
    BY ZenonT(60) DEF Start, Lookup, CallsReturn, Collect, EndLevel, Drop, Lose
  <2>2. Decide => draft'.design = draft.design
    BY DEF Decide, IInv, Shapes
  <2>3. sweep_expired => draft' = draft
    BY DEF sweep_expired
  <2> QED
    BY SMTT(60), <2>1, <2>2, <2>3 DEF Next, Handler, vars
<1>2. PICK s \in Stream : Write(s)
  BY <1>1
<1>3. run[s].pc = "write"
  BY <1>2 DEF Write
<1>4. /\ run[s].revision = draft.revision
      /\ draft' = [draft EXCEPT !.revision = @ + 1, !.design = run[s].results]
  BY <1>2 DEF Write
<1>5. draft'.design = run[s].results
  BY <1>4 DEF IInv, Shapes
<1> QED
  BY SMTT(60), <1>3, <1>4, <1>5

LEMMA WritersFit ==
    ASSUME IInv, NEW s \in Stream, run[s].pc = "write", run[s].revision = draft.revision
    PROVE  /\ run[s].schema = draft.schema /\ draft.schema \in Schema
           /\ DOMAIN run[s].results = DOMAIN Plan[draft.schema].clusters
           /\ \A i \in DOMAIN run[s].results : Authored(run[s].results[i], SignatureOf(run[s], i))
           /\ run[s].template \in Template
           /\ ~disturbed => RunCoheres(run[s], draft.schema, checkpoints)
<1>1. Fits(run[s], draft) /\ (~disturbed => RunCoheres(run[s], draft.schema, checkpoints))
  BY HandlerRuns DEF Steps
<1>2. run[s].schema = draft.schema /\ draft.schema \in Schema
  BY <1>1 DEF Fits, Seen, Requests
<1>3. /\ run[s].results \in Seq(Outputs) /\ run[s].template \in Template
      /\ Len(run[s].results) = Len(Plan[draft.schema].clusters)
      /\ \A i \in DOMAIN run[s].results : Authored(run[s].results[i], SignatureOf(run[s], i))
  BY <1>1, <1>2 DEF Fits, Requests, OnPlan
<1>4. DOMAIN Plan[draft.schema].clusters = 1..Len(Plan[draft.schema].clusters)
  BY <1>2, PlanIsNumberedOn DEF NumberedOn
<1>5. DOMAIN run[s].results = 1..Len(run[s].results)
  BY <1>3, LenProperties
<1> QED
  BY <1>1, <1>2, <1>3, <1>4, <1>5

\* What is written has one output for each cluster of the draft's schema, in
\* the order of the plan (the sort at the end of a level, the revision in
\* update_design_result).
THEOREM DesignsFollowThePlan == Spec => WrittenInPlanOrder
<1>1. ASSUME IInv, [Next]_vars, draft'.design # draft.design
      PROVE  LET clusters == Plan[draft.schema].clusters
             IN  /\ DOMAIN draft'.design = DOMAIN clusters
                 /\ \A i \in DOMAIN clusters : draft'.design[i].tables = clusters[i].tables
  <2>1. PICK s \in Stream : /\ run[s].pc = "write" /\ run[s].revision = draft.revision
                            /\ draft'.design = run[s].results
    BY <1>1, DesignsAreResults
  <2>2. /\ run[s].schema = draft.schema /\ draft.schema \in Schema /\ run[s].template \in Template
        /\ DOMAIN run[s].results = DOMAIN Plan[draft.schema].clusters
        /\ \A i \in DOMAIN run[s].results : Authored(run[s].results[i], SignatureOf(run[s], i))
    BY <1>1, <2>1, WritersFit
  <2>3. ASSUME NEW i \in DOMAIN Plan[draft.schema].clusters
        PROVE  run[s].results[i].tables = Plan[draft.schema].clusters[i].tables
    <3>1. SignatureOf(run[s], i).tables = Plan[draft.schema].clusters[i].tables
      BY <2>2, SignaturesAreTyped
    <3> QED
      BY <2>2, <3>1 DEF Authored
  <2> QED
    BY <2>1, <2>2, <2>3
<1>2. IInv /\ [Next]_vars =>
        [draft'.design # draft.design =>
          LET clusters == Plan[draft.schema].clusters
          IN  /\ DOMAIN draft'.design = DOMAIN clusters
              /\ \A i \in DOMAIN clusters :
                    draft'.design[i].tables = clusters[i].tables]_vars
  BY <1>1
<1> QED
  BY <1>2, IInvHolds, PTL DEF Spec, WrittenInPlanOrder

\* An edge of a design refers to node types that the design has, although
\* outputs of earlier attempts are replayed beside new ones (the lookups, the
\* checkpoints and the order in which the levels are designed).
THEOREM ReplayedDesignsCohere == Spec => CoherentUnlessDisturbed
<1>1. ASSUME IInv, [Next]_vars, draft'.design # draft.design, ~disturbed
      PROVE  \A i \in DOMAIN draft'.design : \A ref \in draft'.design[i].refs :
                \E j \in DOMAIN draft'.design :
                   draft'.design[j].tables = ref.tables /\ draft'.design[j].name = ref.name
  <2>1. PICK s \in Stream : /\ run[s].pc = "write" /\ run[s].revision = draft.revision
                            /\ draft'.design = run[s].results
    BY <1>1, DesignsAreResults
  <2> DEFINE r == run[s]
             rs == checkpoints
             clusters == Plan[draft.schema].clusters
  <2>2. /\ r.schema = draft.schema /\ draft.schema \in Schema /\ r.template \in Template
        /\ DOMAIN r.results = DOMAIN clusters
        /\ \A i \in DOMAIN r.results : Authored(r.results[i], SignatureOf(r, i))
        /\ RunCoheres(r, draft.schema, rs)
    BY <1>1, <2>1, WritersFit
  <2>3. RowsCohere(draft.schema, rs) /\ UniqueRows
    BY <1>1 DEF IInv, Coherent
  <2>4. rs \in Seq(Rows) /\ \A i \in DOMAIN rs : rs[i] \in Rows
    <3>1. rs \in Seq(Rows)
      BY <1>1 DEF IInv, Shapes
    <3> QED
      BY <3>1, LenProperties, ElementOfSeq
  <2> HIDE DEF r, rs, clusters
  <2>5. ASSUME NEW i \in DOMAIN r.results, NEW ref \in r.results[i].refs
        PROVE  \E j \in DOMAIN r.results : r.results[j].tables = ref.tables /\ r.results[j].name = ref.name
    <3>1. PICK a \in DOMAIN rs : rs[a] = [signature |-> SignatureOf(r, i), output |-> r.results[i]]
      BY <2>2 DEF RunCoheres, Kept
    <3>2. rs[a].output = r.results[i]
      BY <3>1
    <3>3. r.results[i].template = r.template
      BY <2>2 DEF Authored, SignatureOf, ClusterSignature
    <3>4. Resolves(ref, r.template, rs)
      BY <2>3, <3>2, <3>3 DEF RowsCohere
    <3>5. PICK b \in DOMAIN rs : /\ rs[b].output.template = r.template
                                 /\ rs[b].output.tables = ref.tables
                                 /\ rs[b].output.name = ref.name
      BY <3>4 DEF Resolves
    <3>6. PICK j \in DOMAIN clusters :
             rs[b].signature = ClusterSignature(clusters[j], rs[b].output.template)
      BY <2>3 DEF RowsCohere, clusters
    <3>7. rs[b].signature = SignatureOf(r, j)
      BY <2>2, <3>5, <3>6 DEF SignatureOf, clusters
    <3>8. PICK d \in DOMAIN rs : rs[d] = [signature |-> SignatureOf(r, j), output |-> r.results[j]]
      BY <2>2 DEF RunCoheres, Kept
    <3>9. rs[d].signature = SignatureOf(r, j) /\ rs[d].output = r.results[j]
      BY <3>8
    <3>10. b = d
      BY <2>3, <3>7, <3>9 DEF UniqueRows, rs
    <3> QED
      BY <2>2, <3>5, <3>9, <3>10
  <2> QED
    BY <2>1, <2>5 DEF r
<1>2. IInv /\ [Next]_vars =>
        [draft'.design # draft.design /\ ~disturbed =>
          \A i \in DOMAIN draft'.design : \A r \in draft'.design[i].refs :
              \E j \in DOMAIN draft'.design :
                  draft'.design[j].tables = r.tables /\ draft'.design[j].name = r.name]_vars
  BY <1>1
<1> QED
  BY <1>2, IInvHolds, PTL DEF Spec, CoherentUnlessDisturbed

=============================================================================
