---------------------------- MODULE Cache_proofs ----------------------------
(***************************************************************************)
(* Invariance proofs for the disk cache of module Cache.                    *)
(***************************************************************************)
EXTENDS Cache, FiniteSetTheorems, SeqLemmas

-----------------------------------------------------------------------------
(* Folds over a sequence.                                                    *)

LEMMA MaxFacts ==
  ASSUME NEW S, S \subseteq Nat, S # {}, IsFiniteSet(S)
  PROVE  Max(S) \in S /\ \A y \in S : y <= Max(S)
<1>. DEFINE Top(t) == \E x \in t : \A y \in t : y <= x
            C == {Cardinality(t) : t \in {u \in SUBSET S : u # {} /\ ~Top(u)}}
<1>1. \A t \in SUBSET S : IsFiniteSet(t) /\ Cardinality(t) \in Nat
  BY FS_Subset, FS_CardinalityType
<1>2. C = {}
  <2>. SUFFICES ASSUME C # {}  PROVE FALSE
    OBVIOUS
  <2>1. C \subseteq Nat
    BY <1>1
  <2>2. PICK n \in C : \A m \in C : n <= m
    <3>. HIDE DEF C
    <3>. QED  BY <2>1, SmallestIn
  <2>3. PICK t \in SUBSET S : t # {} /\ Cardinality(t) = n /\ ~Top(t)
    OBVIOUS
  <2>4. PICK a \in t : TRUE
    BY <2>3
  <2>. DEFINE u == t \ {a}
  <2>5. a \in Nat /\ u \in SUBSET S /\ Cardinality(u) = n - 1 /\ n \in Nat
    BY <1>1, <2>1, <2>3, FS_RemoveElement
  <2>6. u # {}
    <3>. SUFFICES ASSUME u = {}  PROVE FALSE
      OBVIOUS
    <3>1. \A y \in t : y = a
      OBVIOUS
    <3>. QED  BY <2>3, <2>5, <3>1
  <2>7. Top(u)
    <3>. SUFFICES ASSUME ~Top(u)  PROVE FALSE
      OBVIOUS
    <3>1. Cardinality(u) \in C
      BY <2>5, <2>6
    <3>2. n <= n - 1
      BY <2>2, <2>5, <3>1
    <3>. QED  BY <2>5, <3>2
  <2>8. PICK x \in u : \A y \in u : y <= x
    BY <2>7
  <2>9. x \in Nat /\ x \in t
    OBVIOUS
  <2>10. CASE a <= x
    <3>1. \A y \in t : y <= x
      BY <2>8, <2>10
    <3>. QED  BY <2>3, <2>9, <3>1
  <2>11. CASE ~(a <= x)
    <3>1. ASSUME NEW y \in t  PROVE y <= a
      <4>1. y \in Nat /\ (y = a \/ y <= x)
        BY <2>8
      <4>. QED  BY <4>1, <2>5, <2>9, <2>11
    <3>. QED  BY <2>3, <3>1
  <2>. QED  BY <2>10, <2>11
<1>3. Top(S)
  <2>. HIDE DEF Top
  <2>. QED  BY <1>2
<1>4. \A x, y \in S : x >= y <=> y <= x
  OBVIOUS
<1>. QED  BY <1>3, <1>4 DEF Max

LEMMA PrefixFacts ==
  ASSUME NEW n \in Nat, NEW i \in 1..n
  PROVE  /\ 1..i \in SUBSET (1..n) /\ 1..i # {}
         /\ Max(1..i) = i /\ (1..i) \ {i} = 1..(i - 1) /\ 1..(i - 1) \in SUBSET (1..n)
<1>0. i \in Int /\ 1 \in Int
  OBVIOUS
<1>1. 1..i \subseteq Nat /\ 1..i # {} /\ IsFiniteSet(1..i) /\ i \in 1..i
  <2>1. IsFiniteSet(1..i)
    BY <1>0, FS_Interval
  <2>2. 1..i \subseteq Nat /\ i \in 1..i
    BY SMT
  <2>. QED  BY <2>1, <2>2, Zenon
<1>2. Max(1..i) \in 1..i /\ i <= Max(1..i)
  BY <1>1, MaxFacts
<1>. QED  BY <1>2

LEMMA Inducts ==
  ASSUME NEW n \in Nat, NEW T, 0 \in T, \A i \in 1..n : i - 1 \in T => i \in T
  PROVE  \A i \in 0..n : i \in T
<1>. DEFINE B == {i \in 0..n : i \notin T}
<1>. SUFFICES ASSUME B # {}  PROVE FALSE
  OBVIOUS
<1>1. PICK m \in B : \A i \in B : m <= i
  <2>1. B \subseteq Nat
    OBVIOUS
  <2>. HIDE DEF B
  <2>. QED  BY <2>1, SmallestIn
<1>2. m \in 1..n /\ m - 1 \in 0..n /\ ~(m <= m - 1) /\ m \notin T
  OBVIOUS
<1>. QED  BY <1>1, <1>2

\* A table of what each element does to what there is gives a fold.
Folds(f, n, base, G) ==
  \A T \in SUBSET (1..n) : f[T] = IF T = {} THEN base ELSE G[<<f[T \ {Max(T)}], Max(T)>>]

LEMMA FoldTable ==
  ASSUME NEW n \in Nat, NEW B, NEW base \in B, NEW G \in [B \X (1..n) -> B]
  PROVE  \E f \in [SUBSET (1..n) -> B] : Folds(f, n, base, G)
<1>. DEFINE S == SUBSET (1..n)
            rank == [T \in S |-> Cardinality(T)]
            On == {T \in S : T # {}}
            next == [T \in S |-> T \ {Max(T)}]
            F == [p \in B \X S |-> IF p[2] = {} THEN p[1] ELSE G[<<p[1], Max(p[2])>>]]
            stop == [T \in S |-> base]
<1>1. ASSUME NEW T \in S
      PROVE  IsFiniteSet(T) /\ Cardinality(T) \in Nat /\ (T # {} => Max(T) \in T)
  <2>1. IsFiniteSet(1..n) /\ T \subseteq Nat
    BY FS_Interval
  <2>2. IsFiniteSet(T) /\ Cardinality(T) \in Nat
    BY <2>1, FS_Subset, FS_CardinalityType
  <2>. QED  BY <2>1, <2>2, MaxFacts
<1>2. rank \in [S -> Nat]
  BY <1>1
<1>3. ASSUME NEW T \in S, T # {}  PROVE next[T] \in S /\ rank[next[T]] < rank[T]
  <2>1. Max(T) \in T /\ next[T] = T \ {Max(T)} /\ next[T] \in S
    BY <1>1, <1>3
  <2>2. Cardinality(T \ {Max(T)}) = Cardinality(T) - 1
    BY <1>1, <2>1, FS_RemoveElement
  <2>. QED  BY <1>1, <2>1, <2>2
<1>4. Chained(S, rank, On, next)
  BY <1>2, <1>3 DEF Chained
<1>5. F \in [B \X S -> B]
  <2>1. \A b \in B, T \in S : T # {} => Max(T) \in 1..n
    BY <1>1
  <2>. QED  BY <2>1
<1>6. stop \in [S -> B]
  OBVIOUS
<1>7. \A T \in S : (T \in On <=> T # {}) /\ stop[T] = base /\ next[T] = T \ {Max(T)}
  OBVIOUS
<1>8. \A b \in B, T \in S : T # {} => F[<<b, T>>] = G[<<b, Max(T)>>]
  OBVIOUS
<1>. HIDE DEF rank, On, next, F, stop
<1>9. PICK f \in [S -> B] : Computes(f, S, On, next, F, stop)
  BY <1>2, <1>4, <1>5, <1>6, StepsExist
<1>10. ASSUME NEW T \in S
       PROVE  f[T] = IF T = {} THEN base ELSE G[<<f[T \ {Max(T)}], Max(T)>>]
  <2>1. f[T] = IF T \in On THEN F[<<f[next[T]], T>>] ELSE stop[T]
    BY <1>9 DEF Computes, Stepped
  <2>2. CASE T = {}
    BY <1>7, <2>1, <2>2
  <2>3. CASE T # {}
    <3>1. f[T] = F[<<f[T \ {Max(T)}], T>>] /\ T \ {Max(T)} \in S
      BY <1>7, <2>1, <2>3
    <3>2. f[T \ {Max(T)}] \in B
      BY <3>1
    <3>. QED  BY <1>8, <2>3, <3>1, <3>2
  <2>. QED  BY <2>2, <2>3
<1>. QED  BY <1>9, <1>10 DEF Folds

-----------------------------------------------------------------------------
(* The size of a list of objects.                                            *)

Roles == {"cache", "ocache", "vcache", "dup", "orphan"}

Objects ==
  [nr : Nr, twin : Nat, url : Urls, as : Roles, named : BOOLEAN, open : BOOLEAN, size : Nat,
   restored : BOOLEAN]

\* sum[i] is the size of the first i objects of a list.
Sums(sum, list) ==
  sum[0] = 0 /\ \A i \in 1..Len(list) : sum[i] = sum[i - 1] + list[i].size

IsSum(h, list) ==
  h = [T \in SUBSET DOMAIN list |->
         IF T = {} THEN 0 ELSE h[T \ {Max(T)}] + list[Max(T)].size]

LEMMA SumExists ==
  ASSUME NEW list \in Seq(Objects)
  PROVE  \E h : IsSum(h, list)
<1>. DEFINE n == Len(list)
            G == [p \in Nat \X (1..n) |-> p[1] + list[p[2]].size]
<1>1. n \in Nat /\ DOMAIN list = 1..n
  OBVIOUS
<1>2. \A i \in 1..n : list[i].size \in Nat
  <2>1. \A i \in 1..n : list[i] \in Objects
    OBVIOUS
  <2>. QED  BY <2>1 DEF Objects
<1>. HIDE DEF n
<1>3. G \in [Nat \X (1..n) -> Nat]
  BY <1>2
<1>4. PICK f \in [SUBSET (1..n) -> Nat] : Folds(f, n, 0, G)
  <2>. HIDE DEF G
  <2>. QED  BY <1>1, <1>3, FoldTable
<1>5. ASSUME NEW T \in SUBSET (1..n)
      PROVE  f[T] = IF T = {} THEN 0 ELSE f[T \ {Max(T)}] + list[Max(T)].size
  <2>1. T # {} => Max(T) \in T
    <3>1. IsFiniteSet(1..n) /\ T \subseteq Nat
      BY <1>1, FS_Interval
    <3>2. IsFiniteSet(T)
      BY <3>1, FS_Subset
    <3>. QED  BY <3>1, <3>2, MaxFacts
  <2>2. f[T \ {Max(T)}] \in Nat
    OBVIOUS
  <2>. QED  BY <1>4, <2>1, <2>2 DEF Folds
<1>6. f = [T \in SUBSET (1..n) |-> IF T = {} THEN 0 ELSE f[T \ {Max(T)}] + list[Max(T)].size]
  BY <1>5
<1>. QED  BY <1>1, <1>6 DEF IsSum

LEMMA SizeOfFacts ==
  ASSUME NEW list \in Seq(Objects)
  PROVE  \E sum : Sums(sum, list) /\ SizeOf(list) = sum[Len(list)]
<1>. DEFINE h == CHOOSE h : IsSum(h, list)
            n == Len(list)
            sum == [i \in 0..n |-> h[1..i]]
<1>1. SizeOf(list) = h[DOMAIN list]
  BY DEF SizeOf, FoldLeft, MapThenFoldSet, IsSum
<1>2. IsSum(h, list)
  BY SumExists
<1>3. n \in Nat /\ DOMAIN list = 1..n
  OBVIOUS
<1>. HIDE DEF h, n
<1>4. \A T \in SUBSET (1..n) : h[T] = IF T = {} THEN 0 ELSE h[T \ {Max(T)}] + list[Max(T)].size
  BY <1>2, <1>3 DEF IsSum
<1>5. sum[0] = 0
  <2>1. 1..0 = {} /\ {} \in SUBSET (1..n)
    BY <1>3
  <2>2. h[{}] = 0
    BY <1>4, <2>1
  <2>. QED  BY <1>3, <2>1, <2>2
<1>6. ASSUME NEW i \in 1..n  PROVE sum[i] = sum[i - 1] + list[i].size
  <2>1. /\ 1..i \in SUBSET (1..n) /\ 1..i # {} /\ Max(1..i) = i /\ (1..i) \ {i} = 1..(i - 1)
        /\ i \in 0..n /\ i - 1 \in 0..n
    BY <1>3, PrefixFacts
  <2>. QED  BY <1>4, <2>1
<1>7. SizeOf(list) = sum[n]
  BY <1>1, <1>3
<1>. QED  BY <1>5, <1>6, <1>7 DEF Sums, n

LEMMA SumsAgree ==
  ASSUME NEW l \in Seq(Objects), NEW k \in Seq(Objects), NEW n \in 0..Len(l), n <= Len(k),
         \A i \in 1..n : l[i].size = k[i].size,
         NEW s, NEW t, Sums(s, l), Sums(t, k)
  PROVE  s[n] = t[n]
<1>. DEFINE T == {i \in 0..n : s[i] = t[i]}
<1>1. n \in Nat /\ Len(l) \in Nat /\ Len(k) \in Nat
  OBVIOUS
<1>2. 0 \in T
  BY <1>1 DEF Sums
<1>3. ASSUME NEW i \in 1..n, i - 1 \in T  PROVE i \in T
  <2>1. i \in 1..Len(l) /\ i \in 1..Len(k) /\ i \in 0..n
    BY <1>1
  <2>2. s[i] = s[i - 1] + l[i].size /\ t[i] = t[i - 1] + k[i].size
    BY <2>1 DEF Sums
  <2>. QED  BY <2>1, <2>2, <1>3
<1>4. n \in 0..n
  BY <1>1
<1>. HIDE DEF T
<1>5. n \in T
  BY <1>1, <1>2, <1>3, <1>4, Inducts
<1>. QED  BY <1>5 DEF T

\* Two lists with the same sizes.
LEMMA SizeSame ==
  ASSUME NEW l \in Seq(Objects), NEW k \in Seq(Objects), Len(l) = Len(k),
         \A i \in 1..Len(l) : l[i].size = k[i].size
  PROVE  SizeOf(l) = SizeOf(k)
<1>1. PICK s : Sums(s, l) /\ SizeOf(l) = s[Len(l)]
  BY SizeOfFacts
<1>2. PICK t : Sums(t, k) /\ SizeOf(k) = t[Len(k)]
  BY SizeOfFacts
<1>3. Len(l) \in 0..Len(l) /\ Len(l) <= Len(k)
  OBVIOUS
<1>4. s[Len(l)] = t[Len(l)]
  BY <1>1, <1>2, <1>3, SumsAgree
<1>. QED  BY <1>1, <1>2, <1>4

LEMMA SumsType ==
  ASSUME NEW l \in Seq(Objects), NEW s, Sums(s, l)
  PROVE  \A n \in 0..Len(l) : s[n] \in Nat
<1>. DEFINE T == {i \in 0..Len(l) : s[i] \in Nat}
<1>1. Len(l) \in Nat
  OBVIOUS
<1>2. 0 \in T
  BY <1>1 DEF Sums
<1>3. ASSUME NEW i \in 1..Len(l), i - 1 \in T  PROVE i \in T
  <2>1. l[i].size \in Nat
    <3>1. l[i] \in Objects
      OBVIOUS
    <3>. QED  BY <3>1 DEF Objects
  <2>2. s[i] = s[i - 1] + l[i].size
    BY DEF Sums
  <2>. QED  BY <2>1, <2>2, <1>3
<1>. HIDE DEF T
<1>4. \A i \in 0..Len(l) : i \in T
  BY <1>1, <1>2, <1>3, Inducts
<1>. QED  BY <1>4 DEF T

LEMMA SizeType ==
  ASSUME NEW l \in Seq(Objects)
  PROVE  SizeOf(l) \in Nat
<1>1. PICK s : Sums(s, l) /\ SizeOf(l) = s[Len(l)]
  BY SizeOfFacts
<1>2. Len(l) \in 0..Len(l)
  OBVIOUS
<1>. QED  BY <1>1, <1>2, SumsType

\* An object joins the list.
LEMMA SizeAppend ==
  ASSUME NEW l \in Seq(Objects), NEW o \in Objects
  PROVE  SizeOf(Append(l, o)) = SizeOf(l) + o.size
<1>. DEFINE k == Append(l, o)
            n == Len(l)
<1>1. k \in Seq(Objects) /\ Len(k) = n + 1 /\ n \in Nat /\ k[n + 1] = o
      /\ \A i \in 1..n : k[i] = l[i]
  BY PushFacts
<1>2. PICK s : Sums(s, l) /\ SizeOf(l) = s[n]
  BY SizeOfFacts
<1>. HIDE DEF k
<1>3. PICK t : Sums(t, k) /\ SizeOf(k) = t[n + 1]
  BY <1>1, SizeOfFacts
<1>4. s[n] = t[n]
  <2>1. n \in 0..Len(l) /\ n <= Len(k) /\ \A i \in 1..n : l[i].size = k[i].size
    BY <1>1
  <2>. QED  BY <1>1, <1>2, <1>3, <2>1, SumsAgree
<1>5. t[n + 1] = t[n] + o.size
  <2>1. n + 1 \in 1..Len(k) /\ (n + 1) - 1 = n
    BY <1>1
  <2>. QED  BY <1>1, <1>3, <2>1 DEF Sums
<1>. QED  BY <1>2, <1>3, <1>4, <1>5 DEF k

-----------------------------------------------------------------------------
(* The size of a set of objects, as the number of its units of data.         *)

Units(T) == {p \in T \X Nat : p[2] < p[1].size}

LEMMA UnitsOfOne ==
  ASSUME NEW o \in Objects
  PROVE  IsFiniteSet(Units({o})) /\ Cardinality(Units({o})) = o.size
<1>. DEFINE I == 0..(o.size - 1)
<1>1. o.size \in Nat
  BY DEF Objects
<1>2. IsFiniteSet(I) /\ Cardinality(I) = o.size
  <2>1. 0 \in Int /\ o.size - 1 \in Int
    BY <1>1
  <2>2. IsFiniteSet(I) /\ Cardinality(I) = IF 0 > o.size - 1 THEN 0 ELSE (o.size - 1) - 0 + 1
    BY <2>1, FS_Interval
  <2>. HIDE DEF I
  <2>. QED  BY <1>1, <2>2
<1>3. IsFiniteSet({o}) /\ Cardinality({o}) = 1
  BY FS_Singleton
<1>4. Units({o}) = {o} \X I
  BY <1>1 DEF Units
<1>. HIDE DEF I
<1>5. IsFiniteSet({o} \X I) /\ Cardinality({o} \X I) = 1 * o.size
  BY <1>2, <1>3, FS_Product
<1>6. 1 * o.size = o.size
  BY <1>1
<1>. QED  BY <1>4, <1>5, <1>6

LEMMA UnitsSplit ==
  ASSUME NEW A, NEW B, A \cap B = {}, IsFiniteSet(Units(A)), IsFiniteSet(Units(B))
  PROVE  /\ IsFiniteSet(Units(A \cup B))
         /\ Cardinality(Units(A \cup B)) = Cardinality(Units(A)) + Cardinality(Units(B))
<1>1. Units(A \cup B) = Units(A) \cup Units(B) /\ Units(A) \cap Units(B) = {}
  BY DEF Units
<1>2. Cardinality({}) = 0
  BY FS_EmptySet
<1>3. Cardinality(Units(A)) \in Nat /\ Cardinality(Units(B)) \in Nat
  BY FS_CardinalityType
<1>4. /\ IsFiniteSet(Units(A) \cup Units(B))
      /\ Cardinality(Units(A) \cup Units(B))
           = Cardinality(Units(A)) + Cardinality(Units(B)) - Cardinality(Units(A) \cap Units(B))
  BY FS_Union
<1>5. /\ IsFiniteSet(Units(A \cup B))
      /\ Cardinality(Units(A \cup B)) = Cardinality(Units(A)) + Cardinality(Units(B)) - 0
  BY <1>1, <1>2, <1>4
<1>. QED  BY <1>3, <1>5

LEMMA SizeUnits ==
  ASSUME NEW l \in Seq(Objects), IsInjective(l)
  PROVE  IsFiniteSet(Units(ToSet(l))) /\ Cardinality(Units(ToSet(l))) = SizeOf(l)
<1>. DEFINE first(i) == {l[j] : j \in 1..i}
            n == Len(l)
<1>1. PICK s : Sums(s, l) /\ SizeOf(l) = s[n]
  BY SizeOfFacts
<1>. DEFINE T == {i \in 0..n : /\ IsFiniteSet(Units(first(i)))
                                /\ Cardinality(Units(first(i))) = s[i]}
<1>2. n \in Nat /\ n \in 0..n /\ DOMAIN l = 1..n
  OBVIOUS
<1>3. 0 \in T
  <2>1. first(0) = {}
    OBVIOUS
  <2>2. Units({}) = {}
    BY DEF Units
  <2>3. IsFiniteSet({}) /\ Cardinality({}) = 0
    BY FS_EmptySet
  <2>4. s[0] = 0
    BY <1>1 DEF Sums
  <2>5. Units(first(0)) = {}
    <3>. HIDE DEF first
    <3>. QED  BY <2>1, <2>2
  <2>. HIDE DEF first
  <2>6. IsFiniteSet(Units(first(0))) /\ Cardinality(Units(first(0))) = s[0]
    BY <2>3, <2>4, <2>5
  <2>. HIDE DEF n
  <2>. QED  BY <1>2, <2>6
<1>4. ASSUME NEW i \in 1..n, i - 1 \in T  PROVE i \in T
  <2>1. first(i) = first(i - 1) \cup {l[i]} /\ i \in 0..n
    OBVIOUS
  <2>2. first(i - 1) \cap {l[i]} = {}
    BY <1>2 DEF IsInjective
  <2>3. l[i] \in Objects /\ s[i] = s[i - 1] + l[i].size
    BY <1>1 DEF Sums
  <2>4. IsFiniteSet(Units({l[i]})) /\ Cardinality(Units({l[i]})) = l[i].size
    BY <2>3, UnitsOfOne
  <2>5. IsFiniteSet(Units(first(i - 1))) /\ Cardinality(Units(first(i - 1))) = s[i - 1]
    BY <1>4
  <2>. HIDE DEF first
  <2>6. /\ IsFiniteSet(Units(first(i - 1) \cup {l[i]}))
        /\ Cardinality(Units(first(i - 1) \cup {l[i]})) = s[i - 1] + l[i].size
    BY <2>2, <2>4, <2>5, UnitsSplit
  <2>. QED  BY <2>1, <2>3, <2>6
<1>5. ToSet(l) = first(n)
  BY <1>2 DEF ToSet
<1>. HIDE DEF T, n
<1>6. n \in T
  BY <1>2, <1>3, <1>4, Inducts
<1>. HIDE DEF first
<1>. QED  BY <1>1, <1>5, <1>6 DEF T

-----------------------------------------------------------------------------
(* Lists of distinct elements, and sets of them.                             *)

\* A list without repetition of the elements of a set.
Lists(l, T) == IsInjective(l) /\ ToSet(l) = T

LEMMA ToSetFinite ==
  ASSUME NEW S, NEW l \in Seq(S)
  PROVE  IsFiniteSet(ToSet(l)) /\ ToSet(l) \subseteq S
<1>1. Len(l) \in Nat /\ DOMAIN l = 1..Len(l) /\ l \in [1..Len(l) -> S]
  OBVIOUS
<1>2. IsFiniteSet(1..Len(l))
  BY <1>1, FS_Interval
<1>3. l \in Surjection(1..Len(l), ToSet(l))
  BY <1>1 DEF Surjection, ToSet
<1>4. IsFiniteSet(ToSet(l))
  BY <1>2, <1>3, FS_Surjection
<1>. QED  BY <1>1, <1>4 DEF ToSet

LEMMA SetToSeqFacts ==
  ASSUME NEW S, NEW T \in SUBSET S, IsFiniteSet(T)
  PROVE  SetToSeq(T) \in Seq(S) /\ Lists(SetToSeq(T), T)
<1>. DEFINE n == Cardinality(T)
            R == {f \in [1..n -> T] : IsInjective(f)}
            l == SetToSeq(T)
<1>1. n \in Nat /\ ExistsBijection(1..n, T)
  BY FS_CardinalityType
<1>2. PICK f : f \in Bijection(1..n, T)
  BY <1>1 DEF ExistsBijection
<1>3. f \in [1..n -> T] /\ IsInjective(f)
  BY <1>2 DEF Bijection, Injection, IsInjective
<1>4. l \in [1..n -> T] /\ IsInjective(l)
  BY <1>3 DEF SetToSeq
<1>5. IsFiniteSet(1..n) /\ Cardinality(1..n) = n
  <2>1. 1 \in Int /\ n \in Int
    BY <1>1
  <2>2. IsFiniteSet(1..n) /\ Cardinality(1..n) = IF 1 > n THEN 0 ELSE n - 1 + 1
    BY <2>1, FS_Interval
  <2>. HIDE DEF n
  <2>. QED  BY <1>1, <2>2
<1>. HIDE DEF l
<1>6. l \in Injection(1..n, T)
  BY <1>4 DEF Injection, IsInjective
<1>7. l \in Surjection(1..n, T)
  <2>1. Cardinality(1..n) = Cardinality(T)
    BY <1>5
  <2>. HIDE DEF n
  <2>. QED  BY <1>6, <2>1, FS_Injection
<1>. HIDE DEF n
<1>8. ToSet(l) = T
  BY <1>4, <1>7 DEF Surjection, ToSet
<1>9. l \in Seq(S)
  BY <1>1, <1>4
<1>. QED  BY <1>4, <1>8, <1>9 DEF Lists, l

LEMMA WithoutFacts ==
  ASSUME NEW S, NEW l \in Seq(S), NEW gone
  PROVE  /\ Without(l, gone) \in Seq(S)
         /\ ToSet(Without(l, gone)) = ToSet(l) \ gone
         /\ IsInjective(l) => IsInjective(Without(l, gone))
<1>1. Without(l, gone) = Removed(l, PlacesOf(l, gone))
  BY DEF Without, PlacesOf
<1>2. /\ Removed(l, PlacesOf(l, gone)) \in Seq(S)
      /\ ToSet(Removed(l, PlacesOf(l, gone))) = ToSet(l) \ gone
      /\ IsInjective(l) => IsInjective(Removed(l, PlacesOf(l, gone)))
  BY TakenFacts
<1>. QED  BY <1>1, <1>2

\* The objects that go take their size with them.
LEMMA SizeWithout ==
  ASSUME NEW l \in Seq(Objects), IsInjective(l), NEW gone \in SUBSET ToSet(l)
  PROVE  SizeOf(Without(l, gone)) = SizeOf(l) - SizeOf(SetToSeq(gone))
<1>. DEFINE left == Without(l, gone)
            rest == ToSet(l) \ gone
            off == SetToSeq(gone)
<1>1. left \in Seq(Objects) /\ ToSet(left) = rest /\ IsInjective(left)
  BY WithoutFacts
<1>2. IsFiniteSet(ToSet(l)) /\ ToSet(l) \subseteq Objects
  BY ToSetFinite
<1>3. IsFiniteSet(gone) /\ gone \in SUBSET Objects
  BY <1>2, FS_Subset
<1>4. off \in Seq(Objects) /\ IsInjective(off) /\ ToSet(off) = gone
  BY <1>3, SetToSeqFacts DEF Lists
<1>. HIDE DEF left, off
<1>5. IsFiniteSet(Units(rest)) /\ Cardinality(Units(rest)) = SizeOf(left)
  BY <1>1, SizeUnits
<1>6. IsFiniteSet(Units(gone)) /\ Cardinality(Units(gone)) = SizeOf(off)
  BY <1>4, SizeUnits
<1>7. Cardinality(Units(ToSet(l))) = SizeOf(l)
  BY SizeUnits
<1>8. rest \cap gone = {} /\ rest \cup gone = ToSet(l)
  OBVIOUS
<1>. HIDE DEF rest
<1>9. Cardinality(Units(rest \cup gone)) = Cardinality(Units(rest)) + Cardinality(Units(gone))
  BY <1>5, <1>6, <1>8, UnitsSplit
<1>10. SizeOf(l) = SizeOf(left) + SizeOf(off)
  BY <1>5, <1>6, <1>7, <1>8, <1>9
<1>11. SizeOf(left) \in Nat /\ SizeOf(off) \in Nat
  BY <1>1, <1>4, SizeType
<1>. QED  BY <1>10, <1>11 DEF left, off

-----------------------------------------------------------------------------
(* What an operation has still to do to the disk.                            *)

Entries == [del : BOOLEAN, nr : Nr, url : Urls, size : Nat]

Accesses == {"open AWCR", "close AWCR", "delete AWCU", "rename", "create AWCU"}

Steps ==
  [do : {"create", "close", "unlink"}, nr : Nr] \cup [do : {"append"}, entry : Entries]
    \cup [do : Accesses] \cup [do : {"fixed"}, shared : SUBSET Nr]

\* The accesses of an operation: the registration is saved from its opening to
\* the renaming, in this order, and what leads to a start or ends a repair does
\* not occur.
Linked(t) ==
  \A i \in 1..Len(t) :
    /\ t[i].do = "open AWCR" => i < Len(t) /\ t[i + 1].do = "close AWCR"
    /\ t[i].do = "close AWCR" => i < Len(t) /\ t[i + 1].do = "delete AWCU"
    /\ t[i].do = "delete AWCU" =>
         i < Len(t) /\ t[i + 1].do = "rename" /\ i > 1 /\ t[i - 1].do = "close AWCR"
    /\ t[i].do \notin {"create AWCU", "fixed"}

Quiet(t) == \A i \in 1..Len(t) : t[i].do \notin {"create", "close"}

Unlinking(t) == {i \in 1..Len(t) : t[i].do = "unlink"}
Unlinks(t) == {t[i].nr : i \in Unlinking(t)}

\* The numbers whose entries are deleted.
Removing(x) == x.do = "append" /\ x.entry.del
Dels(t) == {x.entry.nr : x \in {y \in ToSet(t) : Removing(y)}}

LEMMA ConcatSet ==
  ASSUME NEW S, NEW s \in Seq(S), NEW t \in Seq(S)
  PROVE  ToSet(s \o t) = ToSet(s) \cup ToSet(t)
<1>. DEFINE w == s \o t
            m == Len(s)
            n == Len(t)
<1>1. /\ m \in Nat /\ n \in Nat /\ Len(w) = m + n /\ w \in Seq(S)
      /\ \A i \in 1..m : w[i] = s[i]
      /\ \A i \in 1..n : w[m + i] = t[i]
  BY ConcatFacts
<1>. HIDE DEF w
<1>2. DOMAIN w = 1..(m + n) /\ DOMAIN s = 1..m /\ DOMAIN t = 1..n
  BY <1>1
<1>3. ASSUME NEW i \in 1..(m + n)  PROVE w[i] \in ToSet(s) \cup ToSet(t)
  <2>1. CASE i \in 1..m
    BY <1>1, <1>2, <2>1 DEF ToSet
  <2>2. CASE i \notin 1..m
    <3>1. i - m \in 1..n /\ i = m + (i - m)
      BY <1>1, <2>2
    <3>2. w[i] = t[i - m]
      BY <1>1, <3>1
    <3>. QED  BY <1>2, <3>1, <3>2 DEF ToSet
  <2>. QED  BY <2>1, <2>2
<1>4. \A i \in 1..m : s[i] \in ToSet(w)
  <2>1. \A i \in 1..m : i \in 1..(m + n)
    BY <1>1
  <2>. QED  BY <1>1, <1>2, <2>1 DEF ToSet
<1>5. \A i \in 1..n : t[i] \in ToSet(w)
  <2>1. \A i \in 1..n : m + i \in 1..(m + n)
    BY <1>1
  <2>. QED  BY <1>1, <1>2, <2>1 DEF ToSet
<1>6. ToSet(w) \subseteq ToSet(s) \cup ToSet(t)
  BY <1>2, <1>3 DEF ToSet
<1>7. ToSet(s) \cup ToSet(t) \subseteq ToSet(w)
  BY <1>2, <1>4, <1>5 DEF ToSet
<1>. QED  BY <1>6, <1>7 DEF w

LEMMA DelsConcat ==
  ASSUME NEW s \in Seq(Steps), NEW t \in Seq(Steps)
  PROVE  Dels(s \o t) = Dels(s) \cup Dels(t)
<1>1. ToSet(s \o t) = ToSet(s) \cup ToSet(t)
  BY ConcatSet
<1>. QED  BY <1>1 DEF Dels

LEMMA LinkedConcat ==
  ASSUME NEW s \in Seq(Steps), NEW t \in Seq(Steps), Linked(s), Linked(t)
  PROVE  Linked(s \o t)
<1>. DEFINE w == s \o t
            m == Len(s)
            n == Len(t)
<1>1. /\ m \in Nat /\ n \in Nat /\ Len(w) = m + n
      /\ \A i \in 1..m : w[i] = s[i]
      /\ \A i \in 1..n : w[m + i] = t[i]
  BY ConcatFacts
<1>. HIDE DEF w
<1>2. ASSUME NEW i \in 1..(m + n)
      PROVE  /\ w[i].do = "open AWCR" => i < m + n /\ w[i + 1].do = "close AWCR"
             /\ w[i].do = "close AWCR" => i < m + n /\ w[i + 1].do = "delete AWCU"
             /\ w[i].do = "delete AWCU" =>
                  i < m + n /\ w[i + 1].do = "rename" /\ i > 1 /\ w[i - 1].do = "close AWCR"
             /\ w[i].do \notin {"create AWCU", "fixed"}
  <2>1. CASE i \in 1..m
    <3>1. /\ w[i] = s[i]
          /\ i < m => w[i + 1] = s[i + 1] /\ i < m + n
          /\ i > 1 => w[i - 1] = s[i - 1]
      <4>1. i < m => i + 1 \in 1..m /\ i < m + n
        BY <1>1, <2>1
      <4>2. i > 1 => i - 1 \in 1..m
        BY <1>1, <2>1
      <4>. QED  BY <1>1, <2>1, <4>1, <4>2
    <3>. HIDE DEF m, n
    <3>. QED  BY <2>1, <3>1 DEF Linked, m
  <2>2. CASE i \notin 1..m
    <3>. DEFINE j == i - m
    <3>1. j \in 1..n /\ i = m + j
      BY <1>1, <2>2
    <3>. HIDE DEF j
    <3>2. /\ w[i] = t[j]
          /\ j < n => w[i + 1] = t[j + 1] /\ i < m + n
          /\ j > 1 => w[i - 1] = t[j - 1] /\ i > 1
      <4>1. j < n => j + 1 \in 1..n /\ i + 1 = m + (j + 1) /\ i < m + n
        BY <1>1, <3>1
      <4>2. j > 1 => j - 1 \in 1..n /\ i - 1 = m + (j - 1) /\ i > 1
        BY <1>1, <3>1
      <4>. QED  BY <1>1, <3>1, <4>1, <4>2
    <3>. HIDE DEF m, n
    <3>. QED  BY <3>1, <3>2 DEF Linked, n
  <2>. QED  BY <2>1, <2>2
<1>3. \A i \in 1..Len(w) : i \in 1..(m + n)
  BY <1>1
<1>4. Len(w) = m + n
  BY <1>1
<1>. HIDE DEF m, n
<1>5. Linked(w)
  BY <1>2, <1>3, <1>4 DEF Linked
<1>. QED  BY <1>5 DEF w

LEMMA QuietConcat ==
  ASSUME NEW s \in Seq(Steps), NEW t \in Seq(Steps), Quiet(s), Quiet(t)
  PROVE  Quiet(s \o t)
<1>. DEFINE w == s \o t
            m == Len(s)
            n == Len(t)
<1>1. /\ m \in Nat /\ n \in Nat /\ Len(w) = m + n
      /\ \A i \in 1..m : w[i] = s[i]
      /\ \A i \in 1..n : w[m + i] = t[i]
  BY ConcatFacts
<1>. HIDE DEF w
<1>2. ASSUME NEW i \in 1..Len(w)  PROVE w[i].do \notin {"create", "close"}
  <2>1. CASE i \in 1..m
    BY <1>1, <2>1 DEF Quiet
  <2>2. CASE i \notin 1..m
    <3>1. i - m \in 1..n /\ i = m + (i - m)
      BY <1>1, <2>2
    <3>2. w[i] = t[i - m]
      BY <1>1, <3>1
    <3>. QED  BY <3>1, <3>2 DEF Quiet
  <2>. QED  BY <2>1, <2>2
<1>. QED  BY <1>2 DEF Quiet, w

LEMMA UnlinksConcat ==
  ASSUME NEW s \in Seq(Steps), NEW t \in Seq(Steps)
  PROVE  Unlinks(s \o t) = Unlinks(s) \cup Unlinks(t)
<1>. DEFINE w == s \o t
            m == Len(s)
            n == Len(t)
<1>1. /\ m \in Nat /\ n \in Nat /\ Len(w) = m + n
      /\ \A i \in 1..m : w[i] = s[i]
      /\ \A i \in 1..n : w[m + i] = t[i]
  BY ConcatFacts
<1>. HIDE DEF w
<1>2. ASSUME NEW x \in Unlinks(w)  PROVE x \in Unlinks(s) \cup Unlinks(t)
  <2>1. PICK i \in 1..Len(w) : w[i].do = "unlink" /\ x = w[i].nr
    BY DEF Unlinks, Unlinking
  <2>2. CASE i \in 1..m
    <3>1. s[i].do = "unlink" /\ x = s[i].nr
      BY <1>1, <2>1, <2>2
    <3>2. x \in Unlinks(s)
      BY <2>2, <3>1 DEF Unlinks, Unlinking
    <3>. QED  BY <3>2
  <2>3. CASE i \notin 1..m
    <3>1. i - m \in 1..n /\ i = m + (i - m)
      BY <1>1, <2>3
    <3>2. t[i - m].do = "unlink" /\ x = t[i - m].nr
      BY <1>1, <2>1, <3>1
    <3>3. x \in Unlinks(t)
      BY <3>1, <3>2 DEF Unlinks, Unlinking
    <3>. QED  BY <3>3
  <2>. QED  BY <2>2, <2>3
<1>3. ASSUME NEW x \in Unlinks(s)  PROVE x \in Unlinks(w)
  <2>1. PICK i \in 1..m : s[i].do = "unlink" /\ x = s[i].nr
    BY DEF Unlinks, Unlinking
  <2>2. i \in 1..Len(w) /\ w[i] = s[i]
    BY <1>1
  <2>. QED  BY <2>1, <2>2 DEF Unlinks, Unlinking
<1>4. ASSUME NEW x \in Unlinks(t)  PROVE x \in Unlinks(w)
  <2>1. PICK i \in 1..n : t[i].do = "unlink" /\ x = t[i].nr
    BY DEF Unlinks, Unlinking
  <2>2. m + i \in 1..Len(w) /\ w[m + i] = t[i]
    BY <1>1
  <2>. QED  BY <2>1, <2>2 DEF Unlinks, Unlinking
<1>. QED  BY <1>2, <1>3, <1>4 DEF w

Simple(x) == x \in Steps /\ x.do \in {"create", "close", "unlink", "append"}

LEMMA OneStep ==
  ASSUME NEW x, Simple(x)
  PROVE  /\ <<x>> \in Seq(Steps) /\ Linked(<<x>>)
         /\ x.do \notin {"create", "close"} => Quiet(<<x>>)
         /\ x.do = "unlink" => Unlinks(<<x>>) = {x.nr}
         /\ x.do # "unlink" => Unlinks(<<x>>) = {}
         /\ Dels(<<x>>) = IF Removing(x) THEN {x.entry.nr} ELSE {}
<1>1. <<x>> \in Seq(Steps) /\ Len(<<x>>) = 1 /\ <<x>>[1] = x
  BY DEF Simple
<1>2. 1..1 = {1}
  OBVIOUS
<1>3. Linked(<<x>>) /\ (x.do \notin {"create", "close"} => Quiet(<<x>>))
  BY <1>1, <1>2 DEF Linked, Quiet, Simple
<1>4. Unlinking(<<x>>) = IF x.do = "unlink" THEN {1} ELSE {}
  BY <1>1, <1>2 DEF Unlinking
<1>5. Unlinks(<<x>>) = IF x.do = "unlink" THEN {x.nr} ELSE {}
  BY <1>1, <1>4 DEF Unlinks
<1>6. ToSet(<<x>>) = {x}
  BY <1>1, <1>2 DEF ToSet
<1>7. Dels(<<x>>) = IF Removing(x) THEN {x.entry.nr} ELSE {}
  BY <1>6 DEF Dels
<1>. QED  BY <1>1, <1>3, <1>5, <1>7

LEMMA CompactionFacts ==
  /\ Compaction \in Seq(Steps) /\ Linked(Compaction) /\ Quiet(Compaction)
  /\ Unlinks(Compaction) = {} /\ Dels(Compaction) = {}
<1>. DEFINE a == [do |-> "open AWCR"]
            b == [do |-> "close AWCR"]
            c == [do |-> "delete AWCU"]
            d == [do |-> "rename"]
            t == <<a, b, c, d>>
<1>1. /\ a \in [do : Accesses] /\ b \in [do : Accesses]
      /\ c \in [do : Accesses] /\ d \in [do : Accesses]
  BY DEF Accesses
<1>2. a \in Steps /\ b \in Steps /\ c \in Steps /\ d \in Steps
  <2>. HIDE DEF a, b, c, d
  <2>. QED  BY <1>1 DEF Steps
<1>3. a.do = "open AWCR" /\ b.do = "close AWCR" /\ c.do = "delete AWCU" /\ d.do = "rename"
  OBVIOUS
<1>4. Compaction = t
  BY DEF Compaction
<1>. HIDE DEF a, b, c, d
<1>5. t \in Seq(Steps) /\ Len(t) = 4 /\ t[1] = a /\ t[2] = b /\ t[3] = c /\ t[4] = d
  BY <1>2
<1>. HIDE DEF t
<1>6. \A i \in 1..4 : i = 1 \/ i = 2 \/ i = 3 \/ i = 4
  OBVIOUS
<1>7. Linked(t) /\ Quiet(t) /\ Unlinking(t) = {}
  <2>1. Linked(t)
    <3>1. 1 < 4 /\ 2 < 4 /\ 3 < 4 /\ 1 + 1 = 2 /\ 2 + 1 = 3 /\ 3 + 1 = 4 /\ 3 > 1 /\ 3 - 1 = 2
      OBVIOUS
    <3>. QED  BY <1>3, <1>5, <1>6, <3>1 DEF Linked
  <2>2. Quiet(t) /\ Unlinking(t) = {}
    BY <1>3, <1>5, <1>6 DEF Quiet, Unlinking
  <2>. QED  BY <2>1, <2>2
<1>8. Unlinks(t) = {}
  BY <1>7 DEF Unlinks
<1>9. Dels(t) = {}
  <2>1. DOMAIN t = 1..4
    BY <1>5
  <2>2. \A x \in ToSet(t) : x.do # "append"
    BY <1>3, <1>5, <1>6, <2>1 DEF ToSet
  <2>. QED  BY <2>2 DEF Dels, Removing
<1>. QED  BY <1>4, <1>5, <1>7, <1>8, <1>9

LEMMA AppendConcat ==
  ASSUME NEW S, NEW s \in Seq(S), NEW x \in S
  PROVE  Append(s, x) = s \o <<x>>
OBVIOUS

\* An operation's accesses, and its count of added entries.
Plans == [todo : Seq(Steps), added : 0..NRCHKPT]
Tidies ==
  {r \in Plans : Linked(r.todo) /\ Quiet(r.todo) /\ Dels(r.todo) \subseteq Unlinks(r.todo)}
Tidy(r, U) == r \in Tidies /\ Unlinks(r.todo) = U

LEMMA SimpleStep ==
  ASSUME NEW t \in Seq(Steps), Linked(t), Quiet(t), NEW x, Simple(x),
         x.do \notin {"create", "close"}
  PROVE  /\ Append(t, x) \in Seq(Steps) /\ Linked(Append(t, x)) /\ Quiet(Append(t, x))
         /\ Unlinks(Append(t, x)) = Unlinks(t) \cup Unlinks(<<x>>)
         /\ Dels(Append(t, x)) = Dels(t) \cup Dels(<<x>>)
<1>1. x \in Steps
  BY DEF Simple
<1>2. Append(t, x) = t \o <<x>>
  BY <1>1, AppendConcat
<1>3. <<x>> \in Seq(Steps) /\ Linked(<<x>>) /\ Quiet(<<x>>)
  BY OneStep
<1>4. t \o <<x>> \in Seq(Steps) /\ Linked(t \o <<x>>) /\ Quiet(t \o <<x>>)
  BY <1>3, LinkedConcat, QuietConcat, ConcatFacts
<1>5. Unlinks(t \o <<x>>) = Unlinks(t) \cup Unlinks(<<x>>)
  BY <1>3, UnlinksConcat
<1>6. Dels(t \o <<x>>) = Dels(t) \cup Dels(<<x>>)
  BY <1>3, DelsConcat
<1>. QED  BY <1>2, <1>4, <1>5, <1>6

\* Entries that are added.
Additions == {e \in Entries : ~e.del}

LEMMA AddregentryFacts ==
  ASSUME NEW U, NEW r, Tidy(r, U), NEW e \in Entries, e \in Additions \/ e.nr \in U
  PROVE  Tidy(Addregentry(r, e), U)
<1>. DEFINE x == [do |-> "append", entry |-> e]
            step == Append(r.todo, x)
<1>1. r.todo \in Seq(Steps) /\ r.added \in 0..NRCHKPT /\ Linked(r.todo) /\ Quiet(r.todo)
      /\ Unlinks(r.todo) = U /\ Dels(r.todo) \subseteq U
  BY DEF Tidy, Tidies, Plans
<1>2. Simple(x) /\ x.do = "append" /\ x.entry = e
  BY DEF Simple, Steps
<1>. HIDE DEF x
<1>3. Unlinks(<<x>>) = {} /\ Dels(<<x>>) \subseteq U
  <2>1. Removing(x) => e.nr \in U
    BY <1>2 DEF Removing, Additions
  <2>. QED  BY <1>2, <2>1, OneStep
<1>4. /\ step \in Seq(Steps) /\ Linked(step) /\ Quiet(step)
      /\ Unlinks(step) = U /\ Dels(step) \subseteq U
  <2>1. /\ step \in Seq(Steps) /\ Linked(step) /\ Quiet(step)
        /\ Unlinks(step) = Unlinks(r.todo) \cup Unlinks(<<x>>)
        /\ Dels(step) = Dels(r.todo) \cup Dels(<<x>>)
    BY <1>1, <1>2, SimpleStep
  <2>. HIDE DEF step
  <2>. QED  BY <1>1, <1>3, <2>1
<1>. HIDE DEF step
<1>5. /\ step \o Compaction \in Seq(Steps) /\ Linked(step \o Compaction)
      /\ Quiet(step \o Compaction) /\ Unlinks(step \o Compaction) = U
      /\ Dels(step \o Compaction) \subseteq U
  <2>1. step \o Compaction \in Seq(Steps) /\ Linked(step \o Compaction) /\ Quiet(step \o Compaction)
    BY <1>4, CompactionFacts, LinkedConcat, QuietConcat, ConcatFacts
  <2>2. Unlinks(step \o Compaction) = Unlinks(step) \cup Unlinks(Compaction)
    BY <1>4, CompactionFacts, UnlinksConcat
  <2>3. Dels(step \o Compaction) = Dels(step) \cup Dels(Compaction)
    BY <1>4, CompactionFacts, DelsConcat
  <2>. QED  BY <1>4, <2>1, <2>2, <2>3, CompactionFacts
<1>6. NRCHKPT \in Nat
  BY CacheAssumption
<1>7. Addregentry(r, e) = IF r.added + 1 > NRCHKPT THEN [todo |-> step \o Compaction, added |-> 0]
                                                   ELSE [todo |-> step, added |-> r.added + 1]
  BY DEF Addregentry, step, x
<1>8. CASE r.added + 1 > NRCHKPT
  <2>. DEFINE w == step \o Compaction
              p == [todo |-> w, added |-> 0]
  <2>1. w \in Seq(Steps) /\ Linked(w) /\ Quiet(w) /\ Unlinks(w) = U /\ Dels(w) \subseteq U
    BY <1>5
  <2>. HIDE DEF w
  <2>2. p \in Plans /\ p.todo = w
    BY <1>6, <2>1 DEF Plans
  <2>3. Addregentry(r, e) = p
    BY <1>7, <1>8 DEF w
  <2>. HIDE DEF p
  <2>. QED  BY <2>1, <2>2, <2>3 DEF Tidy, Tidies
<1>9. CASE ~(r.added + 1 > NRCHKPT)
  <2>. DEFINE p == [todo |-> step, added |-> r.added + 1]
  <2>1. r.added + 1 \in 0..NRCHKPT
    BY <1>1, <1>6, <1>9
  <2>2. p \in Plans /\ p.todo = step
    BY <1>4, <2>1 DEF Plans
  <2>3. Addregentry(r, e) = p
    BY <1>7, <1>9
  <2>. HIDE DEF p
  <2>. QED  BY <1>4, <2>2, <2>3 DEF Tidy, Tidies
<1>. QED  BY <1>8, <1>9

Files(o) == IF o.named THEN {o.nr} ELSE {}

LEMMA DeletecacheFacts ==
  ASSUME NEW U, NEW r, Tidy(r, U), NEW o \in Objects
  PROVE  Tidy(Deletecache(r, o), U \cup Files(o))
<1>1. CASE ~o.named
  BY <1>1 DEF Deletecache, Files
<1>2. CASE o.named
  <2>. DEFINE x == [do |-> "unlink", nr |-> o.nr]
              step == Append(r.todo, x)
              p == [r EXCEPT !.todo = step]
              e == Entry(o, TRUE)
  <2>1. r.todo \in Seq(Steps) /\ r.added \in 0..NRCHKPT /\ Linked(r.todo) /\ Quiet(r.todo)
        /\ Unlinks(r.todo) = U /\ Dels(r.todo) \subseteq U
    BY DEF Tidy, Tidies, Plans
  <2>2. Simple(x) /\ x.do = "unlink" /\ x.nr = o.nr /\ o.nr \in Nr
    BY DEF Simple, Steps, Objects
  <2>3. e \in Entries /\ e.nr \in U \cup Files(o)
    BY <1>2 DEF Entry, Entries, Objects, Files
  <2>4. p \in [todo : {step}, added : {r.added}] /\ Deletecache(r, o) = Addregentry(p, e)
    BY <1>2 DEF Deletecache, Tidy, Tidies, Plans
  <2>. HIDE DEF x, e
  <2>5. Unlinks(<<x>>) = {o.nr} /\ Dels(<<x>>) = {}
    BY <2>2, OneStep DEF Removing
  <2>6. /\ step \in Seq(Steps) /\ Linked(step) /\ Quiet(step)
        /\ Unlinks(step) = U \cup {o.nr} /\ Dels(step) \subseteq U
    BY <2>1, <2>2, <2>5, SimpleStep
  <2>. HIDE DEF step, p
  <2>7. Tidy(p, U \cup Files(o))
    BY <1>2, <2>1, <2>4, <2>6 DEF Tidy, Tidies, Plans, Files
  <2>. QED  BY <2>3, <2>4, <2>7, AddregentryFacts
<1>. QED  BY <1>1, <1>2 DEF Objects

LEMMA StartPlan ==
  ASSUME NEW added \in 0..NRCHKPT
  PROVE  Tidy([todo |-> <<>>, added |-> added], {})
<1>1. Len(<<>>) = 0 /\ 1..0 = {} /\ <<>> \in Seq(Steps)
  OBVIOUS
<1>2. Linked(<<>>) /\ Quiet(<<>>) /\ Unlinks(<<>>) = {} /\ Dels(<<>>) = {}
  BY <1>1 DEF Linked, Quiet, Unlinks, Unlinking, Dels, ToSet
<1>. QED  BY <1>1, <1>2 DEF Tidy, Tidies, Plans

\* acc[i] is what the first i objects, or entries, of a list bring.
IsDisposals(h, list, base) ==
  h = [T \in SUBSET DOMAIN list |->
         IF T = {} THEN base ELSE Deletecache(h[T \ {Max(T)}], list[Max(T)])]

LEMMA DisposalsExist ==
  ASSUME NEW list \in Seq(Objects), NEW base \in Tidies
  PROVE  \E h : IsDisposals(h, list, base)
<1>. DEFINE n == Len(list)
            G == [p \in Tidies \X (1..n) |-> Deletecache(p[1], list[p[2]])]
<1>1. n \in Nat /\ DOMAIN list = 1..n
  OBVIOUS
<1>2. \A i \in 1..n : list[i] \in Objects
  OBVIOUS
<1>. HIDE DEF n
<1>3. ASSUME NEW r \in Tidies, NEW i \in 1..n  PROVE Deletecache(r, list[i]) \in Tidies
  <2>1. Tidy(r, Unlinks(r.todo)) /\ list[i] \in Objects
    BY <1>2 DEF Tidy
  <2>2. Tidy(Deletecache(r, list[i]), Unlinks(r.todo) \cup Files(list[i]))
    BY <2>1, DeletecacheFacts
  <2>. QED  BY <2>2 DEF Tidy
<1>4. G \in [Tidies \X (1..n) -> Tidies]
  BY <1>3
<1>5. \A r \in Tidies, i \in 1..n : G[<<r, i>>] = Deletecache(r, list[i])
  OBVIOUS
<1>6. PICK f \in [SUBSET (1..n) -> Tidies] : Folds(f, n, base, G)
  <2>. HIDE DEF G
  <2>. QED  BY <1>1, <1>4, FoldTable
<1>. HIDE DEF G
<1>7. ASSUME NEW T \in SUBSET (1..n)
      PROVE  f[T] = IF T = {} THEN base ELSE Deletecache(f[T \ {Max(T)}], list[Max(T)])
  <2>1. T # {} => Max(T) \in T
    <3>1. 1 \in Int /\ n \in Int /\ T \subseteq Nat
      BY <1>1
    <3>2. IsFiniteSet(1..n)
      BY <3>1, FS_Interval
    <3>3. IsFiniteSet(T)
      BY <3>2, FS_Subset
    <3>. QED  BY <3>1, <3>3, MaxFacts
  <2>2. f[T \ {Max(T)}] \in Tidies
    OBVIOUS
  <2>. QED  BY <1>5, <1>6, <2>1, <2>2 DEF Folds
<1>8. f = [T \in SUBSET (1..n) |->
             IF T = {} THEN base ELSE Deletecache(f[T \ {Max(T)}], list[Max(T)])]
  BY <1>7
<1>. QED  BY <1>1, <1>8 DEF IsDisposals

FilesOf(T) == {o.nr : o \in {x \in T : x.named}}

LEMMA DisposalsFacts ==
  ASSUME NEW list \in Seq(Objects), NEW added \in 0..NRCHKPT
  PROVE  Tidy(Disposals(list, added), FilesOf(ToSet(list)))
<1>. DEFINE base == [todo |-> <<>>, added |-> added]
            h == CHOOSE h : IsDisposals(h, list, base)
            n == Len(list)
            first(i) == {list[j] : j \in 1..i}
            T == {i \in 0..n : Tidy(h[1..i], FilesOf(first(i)))}
<1>1. Disposals(list, added) = h[DOMAIN list]
  BY DEF Disposals, FoldLeft, MapThenFoldSet, IsDisposals
<1>2. Tidy(base, {})
  BY StartPlan
<1>. HIDE DEF base
<1>3. IsDisposals(h, list, base)
  BY <1>2, DisposalsExist DEF Tidy
<1>4. n \in Nat /\ n \in 0..n /\ DOMAIN list = 1..n
  OBVIOUS
<1>. HIDE DEF h
<1>5. \A S \in SUBSET (1..n) :
        h[S] = IF S = {} THEN base ELSE Deletecache(h[S \ {Max(S)}], list[Max(S)])
  BY <1>3, <1>4 DEF IsDisposals
<1>6. 0 \in T
  <2>1. 1..0 = {} /\ {} \in SUBSET (1..n) /\ first(0) = {}
    BY <1>4
  <2>2. h[1..0] = base
    BY <1>5, <2>1
  <2>3. FilesOf(first(0)) = {}
    BY <2>1 DEF FilesOf
  <2>4. Tidy(h[1..0], FilesOf(first(0)))
    BY <1>2, <2>2, <2>3
  <2>. HIDE DEF n, first
  <2>. QED  BY <1>4, <2>4
<1>7. ASSUME NEW i \in 1..n, i - 1 \in T  PROVE i \in T
  <2>1. /\ 1..i \in SUBSET (1..n) /\ 1..i # {} /\ Max(1..i) = i /\ (1..i) \ {i} = 1..(i - 1)
        /\ i \in 0..n /\ list[i] \in Objects
    BY <1>4, PrefixFacts
  <2>2. h[1..i] = Deletecache(h[1..(i - 1)], list[i])
    BY <1>5, <2>1
  <2>3. FilesOf(first(i)) = FilesOf(first(i - 1)) \cup Files(list[i])
    <3>1. first(i) = first(i - 1) \cup {list[i]}
      OBVIOUS
    <3>. HIDE DEF first
    <3>2. list[i].named \in BOOLEAN
      BY <2>1 DEF Objects
    <3>. QED  BY <3>1, <3>2 DEF FilesOf, Files
  <2>4. Tidy(h[1..(i - 1)], FilesOf(first(i - 1)))
    BY <1>7
  <2>. HIDE DEF first
  <2>5. Tidy(Deletecache(h[1..(i - 1)], list[i]), FilesOf(first(i - 1)) \cup Files(list[i]))
    BY <2>1, <2>4, DeletecacheFacts
  <2>6. Tidy(h[1..i], FilesOf(first(i)))
    BY <2>2, <2>3, <2>5
  <2>. QED  BY <2>1, <2>6
<1>8. ToSet(list) = first(n)
  BY <1>4 DEF ToSet
<1>. HIDE DEF T, n
<1>9. n \in T
  BY <1>4, <1>6, <1>7, Inducts
<1>. HIDE DEF first
<1>. QED  BY <1>1, <1>4, <1>8, <1>9 DEF T

IsEntered(h, list, base) ==
  h = [T \in SUBSET DOMAIN list |->
         IF T = {} THEN base ELSE Addregentry(h[T \ {Max(T)}], list[Max(T)])]

LEMMA EnteredExist ==
  ASSUME NEW list \in Seq(Additions), NEW base \in Tidies
  PROVE  \E h : IsEntered(h, list, base)
<1>. DEFINE n == Len(list)
            G == [p \in Tidies \X (1..n) |-> Addregentry(p[1], list[p[2]])]
<1>1. n \in Nat /\ DOMAIN list = 1..n
  OBVIOUS
<1>2. \A i \in 1..n : list[i] \in Additions
  OBVIOUS
<1>. HIDE DEF n
<1>3. ASSUME NEW r \in Tidies, NEW i \in 1..n  PROVE Addregentry(r, list[i]) \in Tidies
  <2>1. Tidy(r, Unlinks(r.todo)) /\ list[i] \in Entries /\ list[i] \in Additions
    BY <1>2 DEF Tidy, Additions
  <2>2. Tidy(Addregentry(r, list[i]), Unlinks(r.todo))
    BY <2>1, AddregentryFacts
  <2>. QED  BY <2>2 DEF Tidy
<1>4. G \in [Tidies \X (1..n) -> Tidies]
  BY <1>3
<1>5. \A r \in Tidies, i \in 1..n : G[<<r, i>>] = Addregentry(r, list[i])
  OBVIOUS
<1>6. PICK f \in [SUBSET (1..n) -> Tidies] : Folds(f, n, base, G)
  <2>. HIDE DEF G
  <2>. QED  BY <1>1, <1>4, FoldTable
<1>. HIDE DEF G
<1>7. ASSUME NEW T \in SUBSET (1..n)
      PROVE  f[T] = IF T = {} THEN base ELSE Addregentry(f[T \ {Max(T)}], list[Max(T)])
  <2>1. T # {} => Max(T) \in T
    <3>1. 1 \in Int /\ n \in Int /\ T \subseteq Nat
      BY <1>1
    <3>2. IsFiniteSet(1..n)
      BY <3>1, FS_Interval
    <3>3. IsFiniteSet(T)
      BY <3>2, FS_Subset
    <3>. QED  BY <3>1, <3>3, MaxFacts
  <2>2. f[T \ {Max(T)}] \in Tidies
    OBVIOUS
  <2>. QED  BY <1>5, <1>6, <2>1, <2>2 DEF Folds
<1>8. f = [T \in SUBSET (1..n) |->
             IF T = {} THEN base ELSE Addregentry(f[T \ {Max(T)}], list[Max(T)])]
  BY <1>7
<1>. QED  BY <1>1, <1>8 DEF IsEntered

LEMMA AddregentriesFacts ==
  ASSUME NEW list \in Seq(Additions), NEW added \in 0..NRCHKPT
  PROVE  Tidy(Addregentries(list, added), {})
<1>. DEFINE base == [todo |-> <<>>, added |-> added]
            h == CHOOSE h : IsEntered(h, list, base)
            n == Len(list)
            T == {i \in 0..n : Tidy(h[1..i], {})}
<1>1. Addregentries(list, added) = h[DOMAIN list]
  BY DEF Addregentries, FoldLeft, MapThenFoldSet, IsEntered
<1>2. Tidy(base, {})
  BY StartPlan
<1>. HIDE DEF base
<1>3. IsEntered(h, list, base)
  BY <1>2, EnteredExist DEF Tidy
<1>4. n \in Nat /\ n \in 0..n /\ DOMAIN list = 1..n
  OBVIOUS
<1>. HIDE DEF h
<1>5. \A S \in SUBSET (1..n) :
        h[S] = IF S = {} THEN base ELSE Addregentry(h[S \ {Max(S)}], list[Max(S)])
  BY <1>3, <1>4 DEF IsEntered
<1>6. 0 \in T
  <2>1. 1..0 = {} /\ {} \in SUBSET (1..n)
    BY <1>4
  <2>2. Tidy(h[1..0], {})
    BY <1>2, <1>5, <2>1
  <2>. HIDE DEF n
  <2>. QED  BY <1>4, <2>2
<1>7. ASSUME NEW i \in 1..n, i - 1 \in T  PROVE i \in T
  <2>1. /\ 1..i \in SUBSET (1..n) /\ 1..i # {} /\ Max(1..i) = i /\ (1..i) \ {i} = 1..(i - 1)
        /\ i \in 0..n /\ list[i] \in Entries /\ list[i] \in Additions
    BY <1>4, PrefixFacts DEF Additions
  <2>2. h[1..i] = Addregentry(h[1..(i - 1)], list[i])
    BY <1>5, <2>1
  <2>3. Tidy(h[1..(i - 1)], {})
    BY <1>7
  <2>4. Tidy(h[1..i], {})
    BY <2>1, <2>2, <2>3, AddregentryFacts
  <2>. QED  BY <2>1, <2>4
<1>. HIDE DEF T, n
<1>8. n \in T
  BY <1>4, <1>6, <1>7, Inducts
<1>. QED  BY <1>1, <1>4, <1>8 DEF T

-----------------------------------------------------------------------------
(* Lists of objects.                                                         *)

LEMMA ImageFinite ==
  ASSUME NEW f, IsFiniteSet(DOMAIN f), f = [x \in DOMAIN f |-> f[x]]
  PROVE  IsFiniteSet({f[x] : x \in DOMAIN f})
<1>. DEFINE T == {f[x] : x \in DOMAIN f}
<1>1. f \in Surjection(DOMAIN f, T)
  BY DEF Surjection
<1>. HIDE DEF T
<1>2. IsFiniteSet(T)
  BY <1>1, FS_Surjection
<1>. QED  BY <1>2 DEF T

\* Number and twin tell the objects of a list apart.
Distinct(l) ==
  \A i, j \in 1..Len(l) : l[i].nr = l[j].nr /\ l[i].twin = l[j].twin => i = j
Apart(S) == \A x, y \in S : x.nr = y.nr /\ x.twin = y.twin => x = y

LEMMA DistinctFacts ==
  ASSUME NEW S, NEW l \in Seq(S)
  PROVE  Distinct(l) <=> IsInjective(l) /\ Apart(ToSet(l))
<1>1. DOMAIN l = 1..Len(l)
  OBVIOUS
<1>2. ASSUME Distinct(l)  PROVE IsInjective(l)
  BY <1>1, <1>2 DEF Distinct, IsInjective
<1>3. ASSUME Distinct(l)  PROVE Apart(ToSet(l))
  BY <1>1, <1>3 DEF Distinct, Apart, ToSet
<1>4. ASSUME IsInjective(l), Apart(ToSet(l))  PROVE Distinct(l)
  <2>1. \A i \in 1..Len(l) : l[i] \in ToSet(l)
    BY <1>1 DEF ToSet
  <2>. QED  BY <1>1, <1>4, <2>1 DEF Distinct, IsInjective, Apart
<1>. QED  BY <1>2, <1>3, <1>4

LEMMA DistinctWithout ==
  ASSUME NEW S, NEW l \in Seq(S), NEW gone, Distinct(l)
  PROVE  Distinct(Without(l, gone))
<1>1. IsInjective(l) /\ Apart(ToSet(l))
  BY DistinctFacts
<1>. DEFINE w == Without(l, gone)
<1>2. w \in Seq(S) /\ ToSet(w) = ToSet(l) \ gone /\ IsInjective(w)
  BY <1>1, WithoutFacts
<1>. HIDE DEF w
<1>3. Apart(ToSet(w))
  BY <1>1, <1>2 DEF Apart
<1>4. Distinct(w)
  BY <1>2, <1>3, DistinctFacts
<1>. QED  BY <1>4 DEF w

\* A list with other objects in the places of those of l.
Remade(k, l) ==
  /\ Len(k) = Len(l)
  /\ \A i \in 1..Len(l) : k[i].nr = l[i].nr /\ k[i].twin = l[i].twin

LEMMA DistinctRemade ==
  ASSUME NEW k, NEW l, Remade(k, l), Distinct(l)
  PROVE  Distinct(k)
BY DEF Remade, Distinct

LEMMA ToSetAppend ==
  ASSUME NEW S, NEW l \in Seq(S), NEW o \in S
  PROVE  ToSet(Append(l, o)) = ToSet(l) \cup {o}
<1>. DEFINE k == Append(l, o)
            n == Len(l)
<1>1. /\ n \in Nat /\ Len(k) = n + 1 /\ DOMAIN k = 1..(n + 1) /\ DOMAIN l = 1..n
      /\ (\A i \in 1..n : k[i] = l[i]) /\ k[n + 1] = o
  OBVIOUS
<1>. HIDE DEF k, n
<1>2. \A i \in 1..(n + 1) : i \in 1..n \/ i = n + 1
  BY <1>1
<1>3. (\A i \in 1..n : i \in 1..(n + 1)) /\ n + 1 \in 1..(n + 1)
  BY <1>1
<1>4. ToSet(k) = ToSet(l) \cup {o}
  BY <1>1, <1>2, <1>3 DEF ToSet
<1>. QED  BY <1>4 DEF k

LEMMA DistinctAppend ==
  ASSUME NEW S, NEW l \in Seq(S), NEW o \in S, Distinct(l),
         \A x \in ToSet(l) : x.nr # o.nr \/ x.twin # o.twin
  PROVE  Distinct(Append(l, o))
<1>. DEFINE k == Append(l, o)
            n == Len(l)
<1>1. /\ n \in Nat /\ Len(k) = n + 1 /\ DOMAIN l = 1..n
      /\ (\A i \in 1..n : k[i] = l[i]) /\ k[n + 1] = o
  OBVIOUS
<1>2. \A i \in 1..n : l[i] \in ToSet(l)
  BY <1>1 DEF ToSet
<1>. HIDE DEF k
<1>3. ASSUME NEW i \in 1..(n + 1), NEW j \in 1..(n + 1), k[i].nr = k[j].nr, k[i].twin = k[j].twin
      PROVE  i = j
  <2>1. (i \in 1..n \/ i = n + 1) /\ (j \in 1..n \/ j = n + 1)
    BY <1>1
  <2>. HIDE DEF n
  <2>2. CASE i \in 1..n /\ j \in 1..n
    BY <1>1, <1>3, <2>2 DEF Distinct, n
  <2>3. CASE i \in 1..n /\ j = n + 1
    BY <1>1, <1>2, <1>3, <2>3
  <2>4. CASE i = n + 1 /\ j \in 1..n
    BY <1>1, <1>2, <1>3, <2>4
  <2>. QED  BY <2>1, <2>2, <2>3, <2>4
<1>4. Distinct(k)
  BY <1>1, <1>3 DEF Distinct
<1>. QED  BY <1>4 DEF k

-----------------------------------------------------------------------------
(* Reading the registration.                                                 *)

\* What has been read: objects that are the cache of their url, or of a second
\* url object of the same name.
Reads == [cache : Seq(Objects), deleted : Seq(Nr), lastnr : 0..MaxNr]

Restored(x, lastnr, late) ==
  /\ x.nr <= lastnr /\ x.twin > 0 /\ x.as \in {"cache", "dup"} /\ x.named
  /\ ~x.open /\ ~(late /\ x.url \in Expiring)

OneCache(S) == \A x, y \in S : x.url = y.url /\ x.as = "cache" /\ y.as = "cache" => x = y

Goodread(r, late) ==
  /\ r \in Reads /\ Distinct(r.cache) /\ OneCache(ToSet(r.cache))
  /\ \A x \in ToSet(r.cache) : Restored(x, r.lastnr, late)

Ids(S) == {[nr |-> o.nr, url |-> o.url] : o \in S}

LEMMA DuplicatedFacts ==
  ASSUME NEW l \in Seq(Objects), NEW u
  PROVE  /\ Duplicated(l, u) \in Seq(Objects)
         /\ Remade(Duplicated(l, u), l)
         /\ \A i \in 1..Len(l) :
              /\ Duplicated(l, u)[i].url = l[i].url
              /\ Duplicated(l, u)[i].named = l[i].named
              /\ Duplicated(l, u)[i].open = l[i].open
              /\ Duplicated(l, u)[i].as = IF l[i].url = u THEN "dup" ELSE l[i].as
              /\ l[i].url # u => Duplicated(l, u)[i] = l[i]
<1>. DEFINE k == Duplicated(l, u)
            n == Len(l)
<1>1. n \in Nat /\ \A i \in 1..n : l[i] \in Objects
  OBVIOUS
<1>2. k = [i \in 1..n |-> IF l[i].url = u THEN [l[i] EXCEPT !.as = "dup"] ELSE l[i]]
  BY DEF Duplicated
<1>. HIDE DEF k, n
<1>3. ASSUME NEW i \in 1..n
      PROVE  /\ k[i] \in Objects /\ k[i].nr = l[i].nr /\ k[i].twin = l[i].twin
             /\ k[i].url = l[i].url /\ k[i].named = l[i].named
             /\ k[i].open = l[i].open
             /\ k[i].as = IF l[i].url = u THEN "dup" ELSE l[i].as
             /\ l[i].url # u => k[i] = l[i]
  <2>1. CASE l[i].url = u
    <3>1. k[i] = [l[i] EXCEPT !.as = "dup"]
      BY <1>2, <2>1
    <3>2. l[i] \in Objects
      BY <1>1
    <3>. QED  BY <2>1, <3>1, <3>2 DEF Objects, Roles
  <2>2. CASE l[i].url # u
    BY <1>1, <1>2, <2>2
  <2>. QED  BY <2>1, <2>2
<1>4. DOMAIN k = 1..n /\ k \in Seq(Objects) /\ Len(k) = n
  <2>1. k \in [1..n -> Objects]
    BY <1>2, <1>3
  <2>. QED  BY <1>1, <2>1
<1>5. Remade(k, l)
  BY <1>3, <1>4 DEF Remade, n
<1>. QED  BY <1>3, <1>4, <1>5 DEF k, n

LEMMA RegisteredasFacts ==
  ASSUME NEW l \in Seq(Objects), NEW e \in Entries
  PROVE  /\ Registeredas(l, e) \in Objects
         /\ Registeredas(l, e).nr = e.nr /\ Registeredas(l, e).url = e.url
         /\ Registeredas(l, e).as = "cache" /\ Registeredas(l, e).named
         /\ ~Registeredas(l, e).open
         /\ Registeredas(l, e).twin > 0
         /\ \A x \in ToSet(l) : x.nr = e.nr => x.twin < Registeredas(l, e).twin
<1>. DEFINE same == {x \in ToSet(l) : x.nr = e.nr}
            twins == {o.twin : o \in same}
            top == Max(twins \cup {0})
            f == [o \in same |-> o.twin]
<1>1. IsFiniteSet(ToSet(l)) /\ ToSet(l) \subseteq Objects
  BY ToSetFinite
<1>2. IsFiniteSet(same)
  BY <1>1, FS_Subset
<1>3. twins \subseteq Nat
  BY <1>1 DEF Objects
<1>4. IsFiniteSet(twins)
  <2>1. DOMAIN f = same /\ f = [x \in DOMAIN f |-> f[x]] /\ twins = {f[x] : x \in DOMAIN f}
    OBVIOUS
  <2>. HIDE DEF f, same, twins
  <2>. QED  BY <1>2, <2>1, ImageFinite
<1>5. top \in Nat /\ \A t \in twins : t <= top
  <2>. DEFINE all == twins \cup {0}
  <2>1. IsFiniteSet(all)
    <3>. HIDE DEF twins
    <3>. QED  BY <1>4, FS_AddElement
  <2>2. all \subseteq Nat /\ all # {}
    BY <1>3
  <2>. HIDE DEF all
  <2>3. Max(all) \in all /\ \A y \in all : y <= Max(all)
    BY <2>1, <2>2, MaxFacts
  <2>. HIDE DEF twins
  <2>. QED  BY <2>2, <2>3 DEF all
<1>6. Registeredas(l, e) = [Object(e.nr, e.url, "cache", TRUE, e.size) EXCEPT !.twin = top + 1]
  BY DEF Registeredas
<1>7. \A x \in same : x.twin \in twins
  OBVIOUS
<1>8. e.nr \in Nr /\ e.url \in Urls /\ e.size \in Nat
  BY DEF Entries
<1>9. ASSUME NEW x \in same  PROVE x.twin \in Nat /\ x.twin < top + 1
  <2>1. x.twin \in twins
    BY <1>7
  <2>. HIDE DEF twins, top, same
  <2>2. x.twin \in Nat /\ x.twin <= top /\ top \in Nat
    BY <1>3, <1>5, <2>1
  <2>. QED  BY <2>2
<1>. HIDE DEF top
<1>. DEFINE q == Registeredas(l, e)
<1>10. /\ q.nr = e.nr /\ q.url = e.url /\ q.as = "cache" /\ q.named = TRUE /\ q.twin = top + 1
       /\ q.open = FALSE /\ q \in Objects
  <2>1. q = [nr |-> e.nr, twin |-> top + 1, url |-> e.url, as |-> "cache", named |-> TRUE,
             open |-> FALSE, size |-> e.size, restored |-> FALSE]
    BY <1>6 DEF Object
  <2>2. top + 1 \in Nat
    BY <1>5
  <2>. HIDE DEF q
  <2>. QED  BY <1>8, <2>1, <2>2 DEF Objects, Roles
<1>. HIDE DEF q
<1>11. q.twin > 0
  BY <1>5, <1>10
<1>12. \A x \in ToSet(l) : x.nr = e.nr => x.twin < q.twin
  BY <1>9, <1>10
<1>. QED  BY <1>10, <1>11, <1>12 DEF q

\* The list that an entry of an object leaves.
Joined(l, e) == Append(Duplicated(l, e.url), Registeredas(l, e))

LEMMA JoinedFacts ==
  ASSUME NEW l \in Seq(Objects), Distinct(l), NEW e \in Entries
  PROVE  /\ Joined(l, e) \in Seq(Objects) /\ Distinct(Joined(l, e))
         /\ ToSet(Joined(l, e)) = ToSet(Duplicated(l, e.url)) \cup {Registeredas(l, e)}
<1>. DEFINE k == Duplicated(l, e.url)
            q == Registeredas(l, e)
<1>1. k \in Seq(Objects) /\ Remade(k, l)
  BY DuplicatedFacts
<1>2. /\ q \in Objects /\ q.nr = e.nr
      /\ \A x \in ToSet(l) : x.nr = e.nr => x.twin < q.twin
  BY RegisteredasFacts
<1>. HIDE DEF k, q
<1>3. Distinct(k)
  BY <1>1, DistinctRemade
<1>4. Append(k, q) \in Seq(Objects) /\ ToSet(Append(k, q)) = ToSet(k) \cup {q}
  BY <1>1, <1>2, ToSetAppend
<1>5. ASSUME NEW x \in ToSet(k)  PROVE x.nr # q.nr \/ x.twin # q.twin
  <2>1. DOMAIN k = 1..Len(k) /\ DOMAIN l = 1..Len(l)
    BY <1>1
  <2>2. PICK i \in 1..Len(k) : x = k[i]
    BY <2>1 DEF ToSet
  <2>3. i \in 1..Len(l) /\ x.nr = l[i].nr /\ x.twin = l[i].twin /\ l[i] \in ToSet(l)
    BY <1>1, <2>1, <2>2 DEF Remade, ToSet
  <2>4. l[i].twin \in Nat /\ q.twin \in Nat
    <3>1. l[i] \in Objects
      BY <2>3
    <3>. QED  BY <1>2, <3>1 DEF Objects
  <2>. QED  BY <1>2, <2>3, <2>4
<1>6. Distinct(Append(k, q))
  BY <1>1, <1>2, <1>3, <1>5, DistinctAppend
<1>. QED  BY <1>4, <1>6 DEF Joined, k, q

LEMMA ReadentryGood ==
  ASSUME NEW late \in BOOLEAN, NEW r, Goodread(r, late), NEW e \in Entries
  PROVE  /\ Goodread(Readentry(r, e, late), late)
         /\ e.del => \A k \in Ids(ToSet(r.cache)) :
                       k.nr # e.nr => k \in Ids(ToSet(Readentry(r, e, late).cache))
         /\ ~e.del => Ids(ToSet(r.cache)) \subseteq Ids(ToSet(Readentry(r, e, late).cache))
         /\ ~e.del /\ ~(late /\ e.url \in Expiring) =>
              [nr |-> e.nr, url |-> e.url] \in Ids(ToSet(Readentry(r, e, late).cache))
         /\ \A k \in Ids(ToSet(Readentry(r, e, late).cache)) :
              k \in Ids(ToSet(r.cache)) \/ (k.nr = e.nr /\ k.url = e.url)
<1>. DEFINE gone == {o \in ToSet(r.cache) : Deletes(e, o)}
            w == Readentry(r, e, late)
<1>1. /\ r \in Reads /\ Distinct(r.cache) /\ OneCache(ToSet(r.cache))
      /\ \A x \in ToSet(r.cache) : Restored(x, r.lastnr, late)
  BY DEF Goodread
<1>2. r.cache \in Seq(Objects) /\ r.deleted \in Seq(Nr) /\ r.lastnr \in 0..MaxNr
  BY <1>1 DEF Reads
<1>3. CASE e.del
  <2>. DEFINE list == Without(r.cache, gone)
              nrs == {o.nr : o \in gone}
              dels == r.deleted \o SetToSeq(nrs)
  <2>1. w = [r EXCEPT !.cache = list, !.deleted = dels]
    BY <1>3 DEF Readentry
  <2>2. list \in Seq(Objects) /\ ToSet(list) = ToSet(r.cache) \ gone /\ Distinct(list)
    BY <1>1, <1>2, WithoutFacts, DistinctWithout
  <2>3. dels \in Seq(Nr)
    <3>1. nrs \subseteq Nr
      <4>1. ToSet(r.cache) \subseteq Objects
        BY <1>2, ToSetFinite
      <4>. QED  BY <4>1 DEF Objects
    <3>. HIDE DEF nrs
    <3>2. MaxNr \in Int /\ 1 \in Int
      BY CacheAssumption
    <3>3. IsFiniteSet(Nr)
      BY <3>2, FS_Interval DEF Nr
    <3>4. IsFiniteSet(nrs)
      BY <3>1, <3>3, FS_Subset
    <3>5. SetToSeq(nrs) \in Seq(Nr)
      BY <3>1, <3>4, SetToSeqFacts
    <3>. QED  BY <1>2, <3>5, ConcatFacts
  <2>. HIDE DEF list, dels
  <2>4. w.cache = list /\ w.lastnr = r.lastnr /\ w \in Reads
    BY <1>1, <2>1, <2>2, <2>3 DEF Reads
  <2>. HIDE DEF w
  <2>5. Goodread(w, late)
    BY <1>1, <2>2, <2>4 DEF Goodread, OneCache
  <2>6. ASSUME NEW k \in Ids(ToSet(r.cache)), k.nr # e.nr  PROVE k \in Ids(ToSet(w.cache))
    <3>1. PICK o \in ToSet(r.cache) : k = [nr |-> o.nr, url |-> o.url]
      BY DEF Ids
    <3>2. o \notin gone
      BY <2>6, <3>1 DEF Deletes
    <3>. QED  BY <2>2, <2>4, <3>1, <3>2 DEF Ids
  <2>7. \A k \in Ids(ToSet(w.cache)) : k \in Ids(ToSet(r.cache))
    BY <2>2, <2>4 DEF Ids
  <2>. QED  BY <1>3, <2>5, <2>6, <2>7 DEF w
<1>4. CASE ~e.del /\ late /\ e.url \in Expiring
  <2>1. w = [r EXCEPT !.deleted = Append(@, e.nr)]
    BY <1>4 DEF Readentry
  <2>2. e.nr \in Nr
    BY DEF Entries
  <2>3. w.cache = r.cache /\ w.lastnr = r.lastnr /\ w \in Reads
    <3>. DEFINE d == Append(r.deleted, e.nr)
    <3>1. d \in Seq(Nr) /\ w = [r EXCEPT !.deleted = d]
      BY <1>2, <2>1, <2>2
    <3>. HIDE DEF d, w
    <3>. QED  BY <1>1, <3>1 DEF Reads
  <2>. HIDE DEF w
  <2>4. Goodread(w, late)
    BY <1>1, <2>3 DEF Goodread
  <2>. QED  BY <1>4, <2>3, <2>4 DEF w
<1>5. CASE ~e.del /\ ~(late /\ e.url \in Expiring)
  <2>. DEFINE k == Duplicated(r.cache, e.url)
              q == Registeredas(r.cache, e)
              list == Joined(r.cache, e)
              nr == Max({e.nr, r.lastnr})
  <2>1. w = [r EXCEPT !.cache = list, !.lastnr = nr]
    BY <1>5 DEF Readentry, Joined
  <2>2. list \in Seq(Objects) /\ Distinct(list) /\ ToSet(list) = ToSet(k) \cup {q}
    BY <1>1, <1>2, JoinedFacts
  <2>3. /\ q \in Objects /\ q.nr = e.nr /\ q.url = e.url /\ q.as = "cache" /\ q.named
        /\ ~q.open /\ q.twin > 0
    BY <1>2, RegisteredasFacts
  <2>4. nr \in 0..MaxNr /\ e.nr <= nr /\ r.lastnr <= nr
    <3>. DEFINE both == {e.nr, r.lastnr}
    <3>1. e.nr \in 0..MaxNr /\ MaxNr \in Nat
      BY CacheAssumption DEF Entries, Nr
    <3>2. both \subseteq Nat /\ both # {}
      BY <1>2, <3>1
    <3>3. IsFiniteSet({e.nr}) /\ both = {e.nr} \cup {r.lastnr}
      BY FS_Singleton
    <3>4. IsFiniteSet(both)
      BY <3>3, FS_AddElement
    <3>5. e.nr \in both /\ r.lastnr \in both /\ \A x \in both : x \in 0..MaxNr
      BY <1>2, <3>1
    <3>. HIDE DEF both
    <3>6. Max(both) \in both /\ \A y \in both : y <= Max(both)
      BY <3>2, <3>4, MaxFacts
    <3>. QED  BY <3>5, <3>6 DEF both
  <2>5. /\ k \in Seq(Objects) /\ Len(k) = Len(r.cache)
        /\ \A i \in 1..Len(r.cache) :
             /\ k[i].nr = r.cache[i].nr /\ k[i].twin = r.cache[i].twin
             /\ k[i].url = r.cache[i].url /\ k[i].named = r.cache[i].named
             /\ k[i].open = r.cache[i].open
             /\ k[i].as = IF r.cache[i].url = e.url THEN "dup" ELSE r.cache[i].as
             /\ r.cache[i].url # e.url => k[i] = r.cache[i]
    BY <1>2, DuplicatedFacts DEF Remade
  <2>. HIDE DEF list, nr, k, q
  <2>6. w.cache = list /\ w.lastnr = nr /\ w \in Reads
    BY <1>1, <2>1, <2>2, <2>4 DEF Reads
  <2>. HIDE DEF w
  <2>7. DOMAIN k = 1..Len(r.cache) /\ DOMAIN r.cache = 1..Len(r.cache)
    BY <1>2, <2>5
  <2>8. ASSUME NEW x \in ToSet(k)
        PROVE  \E o \in ToSet(r.cache) :
                 /\ x.nr = o.nr /\ x.twin = o.twin /\ x.url = o.url /\ x.named = o.named
                 /\ x.open = o.open
                 /\ x.as = IF o.url = e.url THEN "dup" ELSE o.as
                 /\ o.url # e.url => x = o
    <3>1. PICK i \in 1..Len(r.cache) : x = k[i]
      BY <2>7 DEF ToSet
    <3>2. r.cache[i] \in ToSet(r.cache)
      BY <2>7 DEF ToSet
    <3>. QED  BY <2>5, <3>1, <3>2
  <2>9. ASSUME NEW x \in ToSet(list)  PROVE Restored(x, nr, late)
    <3>1. CASE x = q
      BY <1>5, <2>3, <2>4, <3>1 DEF Restored
    <3>2. CASE x \in ToSet(k)
      <4>1. PICK o \in ToSet(r.cache) :
              /\ x.nr = o.nr /\ x.twin = o.twin /\ x.url = o.url /\ x.named = o.named
              /\ x.open = o.open
              /\ x.as = IF o.url = e.url THEN "dup" ELSE o.as
        BY <2>8, <3>2
      <4>2. Restored(o, r.lastnr, late)
        BY <1>1
      <4>3. o.nr \in Nat
        <5>1. o \in Objects
          BY <1>2, ToSetFinite
        <5>. QED  BY <5>1 DEF Objects, Nr
      <4>4. x.nr <= nr
        <5>1. o.nr <= r.lastnr
          BY <4>2 DEF Restored
        <5>. QED  BY <1>2, <2>4, <4>1, <4>3, <5>1
      <4>. QED  BY <4>1, <4>2, <4>4 DEF Restored
    <3>. QED  BY <2>2, <3>1, <3>2
  <2>10. OneCache(ToSet(list))
    <3>1. \A x \in ToSet(k) : x.as = "cache" => x.url # e.url /\ x \in ToSet(r.cache)
      BY <2>8
    <3>2. \A x, y \in ToSet(r.cache) :
            x.url = y.url /\ x.as = "cache" /\ y.as = "cache" => x = y
      BY <1>1 DEF OneCache
    <3>. QED  BY <2>2, <2>3, <3>1, <3>2 DEF OneCache
  <2>11. Goodread(w, late)
    BY <2>2, <2>6, <2>9, <2>10 DEF Goodread
  <2>12. ASSUME NEW d \in Ids(ToSet(r.cache))  PROVE d \in Ids(ToSet(w.cache))
    <3>1. PICK o \in ToSet(r.cache) : d = [nr |-> o.nr, url |-> o.url]
      BY DEF Ids
    <3>2. PICK i \in 1..Len(r.cache) : o = r.cache[i]
      BY <2>7 DEF ToSet
    <3>3. k[i] \in ToSet(k) /\ k[i].nr = o.nr /\ k[i].url = o.url
      BY <2>5, <2>7, <3>2 DEF ToSet
    <3>. QED  BY <2>2, <2>6, <3>1, <3>3 DEF Ids
  <2>13. [nr |-> e.nr, url |-> e.url] \in Ids(ToSet(w.cache))
    BY <2>2, <2>3, <2>6 DEF Ids
  <2>14. ASSUME NEW d \in Ids(ToSet(w.cache))
         PROVE  d \in Ids(ToSet(r.cache)) \/ (d.nr = e.nr /\ d.url = e.url)
    <3>1. PICK x \in ToSet(list) : d = [nr |-> x.nr, url |-> x.url]
      BY <2>6 DEF Ids
    <3>2. CASE x = q
      BY <2>3, <3>1, <3>2
    <3>3. CASE x \in ToSet(k)
      BY <2>8, <3>1, <3>3 DEF Ids
    <3>. QED  BY <2>2, <3>2, <3>3
  <2>. QED  BY <1>5, <2>11, <2>12, <2>13, <2>14 DEF w
<1>. QED  BY <1>3, <1>4, <1>5 DEF Entries

\* The registration files.
Logs == Seq(Entries \cup {Torn})
Regs == [there : BOOLEAN, lastnr : 0..MaxNr, log : Logs]

Torns(log) == {i \in 1..Len(log) : log[i] = Torn}

LEMMA MinFacts ==
  ASSUME NEW S, S \subseteq Nat, S # {}
  PROVE  Min(S) \in S /\ \A y \in S : Min(S) <= y
<1>1. \E x \in S : \A y \in S : x <= y
  BY SmallestIn
<1>2. \E x \in S : \A y \in S : x =< y
  BY <1>1
<1>. QED  BY <1>2 DEF Min

LEMMA TornFacts == Torn \notin Entries /\ \A e \in Entries : e # Torn
<1>1. Torn.nr = 0
  BY DEF Torn
<1>2. \A e \in Entries : e.nr \in Nr
  BY DEF Entries
<1>3. 0 \notin Nr
  BY DEF Nr
<1>. QED  BY <1>1, <1>2, <1>3

LEMMA ReadableIs ==
  ASSUME NEW log \in Logs
  PROVE  Readable(log) = IF Torns(log) = {} THEN log ELSE SubSeq(log, 1, Min(Torns(log)) - 1)
<1>1. SelectInSeq(log, LAMBDA e : e = Torn) = IF Torns(log) # {} THEN Min(Torns(log)) ELSE 0
  BY DEF SelectInSeq, Torns
<1>2. Torns(log) # {} => Min(Torns(log)) # 0
  <2>1. Torns(log) \subseteq Nat /\ 0 \notin Torns(log)
    BY DEF Torns
  <2>. QED  BY <2>1, MinFacts
<1>3. Readable(log) = IF SelectInSeq(log, LAMBDA e : e = Torn) = 0 THEN log
                      ELSE SubSeq(log, 1, SelectInSeq(log, LAMBDA e : e = Torn) - 1)
  BY DEF Readable
<1>. QED  BY <1>1, <1>2, <1>3

LEMMA ReadableType ==
  ASSUME NEW log \in Logs
  PROVE  Readable(log) \in Seq(Entries)
<1>0. Len(log) \in Nat /\ \A i \in 1..Len(log) : log[i] \in Entries \cup {Torn}
  BY DEF Logs
<1>1. CASE Torns(log) = {}
  <2>1. \A i \in 1..Len(log) : log[i] \in Entries
    BY <1>0, <1>1 DEF Torns
  <2>2. log \in Seq(Entries)
    BY <2>1 DEF Logs
  <2>. QED  BY <1>1, <2>2, ReadableIs
<1>2. CASE Torns(log) # {}
  <2>. DEFINE m == Min(Torns(log))
  <2>1. m \in Torns(log) /\ \A y \in Torns(log) : m <= y
    <3>1. Torns(log) \subseteq Nat
      BY DEF Torns
    <3>. QED  BY <1>2, <3>1, MinFacts
  <2>. HIDE DEF m
  <2>2. m \in 1..Len(log)
    BY <2>1 DEF Torns
  <2>3. \A i \in 1..(m - 1) : log[i] \in Entries
    <3>. SUFFICES ASSUME NEW i \in 1..(m - 1)  PROVE log[i] \in Entries
      OBVIOUS
    <3>1. i \in 1..Len(log) /\ ~(m <= i)
      BY <1>0, <2>2
    <3>2. log[i] # Torn
      BY <2>1, <3>1 DEF Torns
    <3>. QED  BY <1>0, <3>1, <3>2
  <2>4. SubSeq(log, 1, m - 1) \in Seq(Entries)
    <3>. DEFINE w == SubSeq(log, 1, m - 1)
    <3>1. w = [i \in 1..(m - 1) |-> log[i]] /\ m - 1 \in Nat
      BY <1>0, <2>2 DEF Logs
    <3>. HIDE DEF w
    <3>2. w \in [1..(m - 1) -> Entries]
      BY <2>3, <3>1
    <3>3. w \in Seq(Entries)
      BY <3>1, <3>2
    <3>. QED  BY <3>3 DEF w
  <2>. QED  BY <1>2, <2>4, ReadableIs DEF m
<1>. QED  BY <1>1, <1>2

LEMMA ReadableAppend ==
  ASSUME NEW log \in Logs, NEW e \in Entries \cup {Torn}
  PROVE  /\ Append(log, e) \in Logs
         /\ (Torns(log) # {} \/ e = Torn) => Readable(Append(log, e)) = Readable(log)
         /\ Torns(log) = {} => Readable(log) = log
         /\ (Torns(log) = {} /\ e # Torn) => Readable(Append(log, e)) = Append(log, e)
<1>. DEFINE w == Append(log, e)
            n == Len(log)
<1>1. /\ w \in Logs /\ n \in Nat /\ Len(w) = n + 1 /\ w[n + 1] = e
      /\ \A i \in 1..n : w[i] = log[i]
  BY DEF Logs
<1>. HIDE DEF w
<1>2. Torns(w) = Torns(log) \cup (IF e = Torn THEN {n + 1} ELSE {})
  <2>1. \A i \in 1..Len(w) : i \in 1..n \/ i = n + 1
    BY <1>1
  <2>2. (\A i \in 1..n : i \in 1..Len(w)) /\ n + 1 \in 1..Len(w)
    BY <1>1
  <2>. QED  BY <1>1, <2>1, <2>2 DEF Torns
<1>3. Torns(log) \subseteq 1..n /\ Torns(log) \subseteq Nat /\ Torns(w) \subseteq Nat
  BY DEF Torns
<1>4. CASE Torns(log) # {}
  <2>. DEFINE m == Min(Torns(log))
              k == Min(Torns(w))
  <2>1. m \in Torns(log) /\ \A y \in Torns(log) : m <= y
    BY <1>3, <1>4, MinFacts
  <2>2. k \in Torns(w) /\ (\A y \in Torns(w) : k <= y) /\ Torns(w) # {}
    BY <1>2, <1>3, <1>4, MinFacts
  <2>. HIDE DEF m, k
  <2>3. m \in 1..n /\ k \in Nat /\ (k \in Torns(log) \/ k = n + 1) /\ m \in Torns(w)
    BY <1>2, <1>3, <2>1, <2>2
  <2>4. m = k
    <3>1. k <= m /\ m <= k
      BY <1>1, <2>1, <2>2, <2>3
    <3>. QED  BY <2>3, <3>1
  <2>5. SubSeq(w, 1, m - 1) = SubSeq(log, 1, m - 1)
    <3>1. \A i \in 1..(m - 1) : i \in 1..n /\ w[i] = log[i]
      BY <1>1, <2>3
    <3>2. SubSeq(w, 1, m - 1) = [i \in 1..(m - 1) |-> w[i]]
      BY <1>1, <2>3 DEF Logs
    <3>3. SubSeq(log, 1, m - 1) = [i \in 1..(m - 1) |-> log[i]]
      BY <1>1, <2>3 DEF Logs
    <3>. QED  BY <3>1, <3>2, <3>3
  <2>6. Readable(w) = SubSeq(w, 1, m - 1)
    BY <1>1, <2>2, <2>4, ReadableIs DEF k
  <2>7. Readable(log) = SubSeq(log, 1, m - 1)
    BY <1>4, ReadableIs DEF m
  <2>. QED  BY <1>1, <1>4, <2>5, <2>6, <2>7 DEF w
<1>5. CASE Torns(log) = {}
  <2>1. Readable(log) = log
    BY <1>5, ReadableIs
  <2>2. CASE e # Torn
    <3>1. Torns(w) = {}
      BY <1>2, <1>5, <2>2
    <3>2. Readable(w) = w
      BY <1>1, <3>1, ReadableIs
    <3>. QED  BY <1>1, <1>5, <2>1, <2>2, <3>2 DEF w
  <2>3. CASE e = Torn
    <3>1. Torns(w) = {n + 1}
      BY <1>2, <1>5, <2>3
    <3>2. Min(Torns(w)) = n + 1
      <4>1. Min(Torns(w)) \in Torns(w)
        BY <1>3, <3>1, MinFacts
      <4>. QED  BY <3>1, <4>1
    <3>3. Readable(w) = SubSeq(w, 1, n)
      <4>1. (n + 1) - 1 = n
        BY <1>1
      <4>2. Readable(w) = SubSeq(w, 1, Min(Torns(w)) - 1)
        BY <1>1, <3>1, ReadableIs
      <4>. QED  BY <3>2, <4>1, <4>2
    <3>4. SubSeq(w, 1, n) = log
      <4>1. SubSeq(w, 1, n) = [i \in 1..n |-> w[i]]
        BY <1>1 DEF Logs
      <4>2. log = [i \in 1..n |-> log[i]]
        BY DEF Logs
      <4>. QED  BY <1>1, <4>1, <4>2
    <3>. QED  BY <1>1, <1>5, <2>1, <2>3, <3>3, <3>4 DEF w
  <2>. QED  BY <2>2, <2>3
<1>. QED  BY <1>4, <1>5

\* acc[i] is what reading the first i entries brings.
Reading(acc, base, l, late) ==
  acc[0] = base /\ \A i \in 1..Len(l) : acc[i] = Readentry(acc[i - 1], l[i], late)

Goodreads(late) == {r \in Reads : Goodread(r, late)}

IsRead(h, l, base, late) ==
  h = [T \in SUBSET DOMAIN l |->
         IF T = {} THEN base ELSE Readentry(h[T \ {Max(T)}], l[Max(T)], late)]

LEMMA ReadExists ==
  ASSUME NEW late \in BOOLEAN, NEW l \in Seq(Entries), NEW base \in Goodreads(late)
  PROVE  \E h : IsRead(h, l, base, late)
<1>. DEFINE n == Len(l)
            B == Goodreads(late)
            G == [p \in B \X (1..n) |-> Readentry(p[1], l[p[2]], late)]
<1>1. n \in Nat /\ DOMAIN l = 1..n
  OBVIOUS
<1>2. \A i \in 1..n : l[i] \in Entries
  OBVIOUS
<1>. HIDE DEF n
<1>3. ASSUME NEW r \in B, NEW i \in 1..n  PROVE Readentry(r, l[i], late) \in B
  <2>1. Goodread(r, late) /\ l[i] \in Entries
    BY <1>2 DEF Goodreads
  <2>2. Goodread(Readentry(r, l[i], late), late)
    BY <2>1, ReadentryGood
  <2>. QED  BY <2>2 DEF Goodread, Goodreads
<1>. HIDE DEF B
<1>4. G \in [B \X (1..n) -> B]
  BY <1>3
<1>5. \A r \in B, i \in 1..n : G[<<r, i>>] = Readentry(r, l[i], late)
  OBVIOUS
<1>6. PICK f \in [SUBSET (1..n) -> B] : Folds(f, n, base, G)
  <2>. HIDE DEF G
  <2>1. base \in B
    BY DEF B
  <2>. QED  BY <1>1, <1>4, <2>1, FoldTable
<1>. HIDE DEF G
<1>7. ASSUME NEW T \in SUBSET (1..n)
      PROVE  f[T] = IF T = {} THEN base ELSE Readentry(f[T \ {Max(T)}], l[Max(T)], late)
  <2>1. T # {} => Max(T) \in T
    <3>1. 1 \in Int /\ n \in Int /\ T \subseteq Nat
      BY <1>1
    <3>2. IsFiniteSet(1..n)
      BY <3>1, FS_Interval
    <3>3. IsFiniteSet(T)
      BY <3>2, FS_Subset
    <3>. QED  BY <3>1, <3>3, MaxFacts
  <2>2. f[T \ {Max(T)}] \in B
    OBVIOUS
  <2>. QED  BY <1>5, <1>6, <2>1, <2>2 DEF Folds
<1>8. f = [T \in SUBSET (1..n) |->
             IF T = {} THEN base ELSE Readentry(f[T \ {Max(T)}], l[Max(T)], late)]
  BY <1>7
<1>. QED  BY <1>1, <1>8 DEF IsRead

LEMMA ReadingGood ==
  ASSUME NEW late \in BOOLEAN, NEW l \in Seq(Entries), NEW base \in Goodreads(late),
         NEW acc, Reading(acc, base, l, late)
  PROVE  \A i \in 0..Len(l) : acc[i] \in Goodreads(late)
<1>. DEFINE n == Len(l)
            T == {i \in 0..n : acc[i] \in Goodreads(late)}
<1>1. n \in Nat
  OBVIOUS
<1>2. 0 \in T
  BY <1>1 DEF Reading
<1>3. ASSUME NEW i \in 1..n, i - 1 \in T  PROVE i \in T
  <2>1. acc[i] = Readentry(acc[i - 1], l[i], late) /\ i \in 0..n /\ l[i] \in Entries
    BY DEF Reading
  <2>2. Goodread(acc[i - 1], late)
    BY <1>3 DEF Goodreads
  <2>3. Goodread(acc[i], late)
    BY <2>1, <2>2, ReadentryGood
  <2>. QED  BY <2>1, <2>3 DEF Goodread, Goodreads
<1>. HIDE DEF T
<1>4. \A i \in 0..n : i \in T
  <2>. HIDE DEF n
  <2>. QED  BY <1>1, <1>2, <1>3, Inducts
<1>. QED  BY <1>4 DEF T

Startread(lastnr) == [cache |-> <<>>, deleted |-> <<>>, lastnr |-> lastnr]

LEMMA StartreadGood ==
  ASSUME NEW lastnr \in 0..MaxNr, NEW late
  PROVE  Startread(lastnr) \in Goodreads(late)
<1>. DEFINE b == Startread(lastnr)
<1>1. b \in Reads /\ b.cache = <<>>
  BY DEF Reads, Startread
<1>2. Len(<<>>) = 0 /\ 1..0 = {} /\ ToSet(<<>>) = {}
  BY DEF ToSet
<1>. HIDE DEF b
<1>3. Distinct(b.cache) /\ ToSet(b.cache) = {}
  BY <1>1, <1>2 DEF Distinct
<1>. QED  BY <1>1, <1>3 DEF Goodread, Goodreads, OneCache, b

\* Replay() reads the entries one after the other.
LEMMA ReplayReads ==
  ASSUME NEW late \in BOOLEAN, NEW reg \in Regs
  PROVE  \E acc : /\ Reading(acc, Startread(reg.lastnr), Readable(reg.log), late)
                  /\ Replay(reg, late) = acc[Len(Readable(reg.log))]
<1>. DEFINE base == Startread(reg.lastnr)
            l == Readable(reg.log)
            h == CHOOSE h : IsRead(h, l, base, late)
            n == Len(l)
            acc == [i \in 0..n |-> h[1..i]]
<1>1. reg.log \in Logs /\ reg.lastnr \in 0..MaxNr
  BY DEF Regs
<1>2. l \in Seq(Entries) /\ base \in Goodreads(late)
  BY <1>1, ReadableType, StartreadGood
<1>3. Replay(reg, late) = h[DOMAIN l]
  BY DEF Replay, FoldLeft, MapThenFoldSet, IsRead, Startread
<1>. HIDE DEF base, l
<1>4. IsRead(h, l, base, late)
  BY <1>2, ReadExists
<1>5. n \in Nat /\ n \in 0..n /\ DOMAIN l = 1..n
  BY <1>2
<1>. HIDE DEF h
<1>6. \A S \in SUBSET (1..n) :
        h[S] = IF S = {} THEN base ELSE Readentry(h[S \ {Max(S)}], l[Max(S)], late)
  BY <1>4, <1>5 DEF IsRead
<1>. HIDE DEF n
<1>7. acc[0] = base
  <2>1. 1..0 = {} /\ {} \in SUBSET (1..n) /\ 0 \in 0..n
    BY <1>5
  <2>. QED  BY <1>6, <2>1
<1>8. ASSUME NEW i \in 1..n  PROVE acc[i] = Readentry(acc[i - 1], l[i], late)
  <2>1. /\ 1..i \in SUBSET (1..n) /\ 1..i # {} /\ Max(1..i) = i /\ (1..i) \ {i} = 1..(i - 1)
        /\ i \in 0..n /\ i - 1 \in 0..n
    BY <1>5, PrefixFacts
  <2>2. h[1..i] = Readentry(h[1..(i - 1)], l[i], late)
    BY <1>6, <2>1
  <2>. QED  BY <2>1, <2>2
<1>9. acc[n] = h[1..n]
  BY <1>5
<1>. HIDE DEF acc
<1>10. Reading(acc, base, l, late) /\ Replay(reg, late) = acc[Len(l)]
  BY <1>3, <1>5, <1>7, <1>8, <1>9 DEF Reading, n
<1>. QED  BY <1>10 DEF base, l

LEMMA ReplayGood ==
  ASSUME NEW late \in BOOLEAN, NEW reg \in Regs
  PROVE  Goodread(Replay(reg, late), late)
<1>1. PICK acc : /\ Reading(acc, Startread(reg.lastnr), Readable(reg.log), late)
                 /\ Replay(reg, late) = acc[Len(Readable(reg.log))]
  BY ReplayReads
<1>2. reg.log \in Logs /\ reg.lastnr \in 0..MaxNr
  BY DEF Regs
<1>3. Readable(reg.log) \in Seq(Entries) /\ Startread(reg.lastnr) \in Goodreads(late)
  BY <1>2, ReadableType, StartreadGood
<1>4. Len(Readable(reg.log)) \in 0..Len(Readable(reg.log))
  BY <1>3
<1>5. acc[Len(Readable(reg.log))] \in Goodreads(late)
  BY <1>1, <1>3, <1>4, ReadingGood
<1>. QED  BY <1>1, <1>5 DEF Goodreads

\* Reading the same entries brings the same.
LEMMA ReadingAgrees ==
  ASSUME NEW late, NEW base, NEW l, NEW k, NEW n \in Nat, n <= Len(l), n <= Len(k),
         Len(l) \in Nat, Len(k) \in Nat, \A i \in 1..n : l[i] = k[i],
         NEW a, NEW b, Reading(a, base, l, late), Reading(b, base, k, late)
  PROVE  a[n] = b[n]
<1>. DEFINE T == {i \in 0..n : a[i] = b[i]}
<1>1. 0 \in T /\ n \in 0..n
  BY DEF Reading
<1>2. ASSUME NEW i \in 1..n, i - 1 \in T  PROVE i \in T
  <2>1. i \in 1..Len(l) /\ i \in 1..Len(k) /\ i \in 0..n
    OBVIOUS
  <2>2. a[i] = Readentry(a[i - 1], l[i], late) /\ b[i] = Readentry(b[i - 1], k[i], late)
    BY <2>1 DEF Reading
  <2>3. a[i] = b[i]
    BY <1>2, <2>2
  <2>. QED  BY <2>1, <2>3
<1>. HIDE DEF T
<1>3. n \in T
  BY <1>1, <1>2, Inducts
<1>. QED  BY <1>3 DEF T

LEMMA ReplaySame ==
  ASSUME NEW late \in BOOLEAN, NEW reg \in Regs, NEW reg2 \in Regs, reg2.lastnr = reg.lastnr,
         Readable(reg2.log) = Readable(reg.log)
  PROVE  Replay(reg2, late) = Replay(reg, late)
BY DEF Replay

LEMMA ReplayAppend ==
  ASSUME NEW late \in BOOLEAN, NEW reg \in Regs, NEW reg2 \in Regs, reg2.lastnr = reg.lastnr,
         NEW e \in Entries, reg2.log = Append(reg.log, e), Torns(reg.log) = {}
  PROVE  Replay(reg2, late) = Readentry(Replay(reg, late), e, late)
<1>. DEFINE l == reg.log
            k == reg2.log
            n == Len(l)
<1>1. l \in Logs /\ k \in Logs /\ reg.lastnr \in 0..MaxNr
  BY DEF Regs
<1>2. Readable(l) = l /\ Readable(k) = k
  BY <1>1, TornFacts, ReadableAppend
<1>3. l \in Seq(Entries) /\ k \in Seq(Entries)
  BY <1>1, <1>2, ReadableType
<1>4. PICK a : Reading(a, Startread(reg.lastnr), l, late) /\ Replay(reg, late) = a[n]
  BY <1>2, ReplayReads
<1>5. PICK b : Reading(b, Startread(reg.lastnr), k, late) /\ Replay(reg2, late) = b[Len(k)]
  BY <1>2, ReplayReads
<1>6. n \in Nat /\ Len(k) = n + 1 /\ k[n + 1] = e /\ \A i \in 1..n : l[i] = k[i]
  BY <1>3
<1>. HIDE DEF k, l
<1>7. a[n] = b[n]
  <2>1. n <= Len(l) /\ n <= Len(k) /\ Len(l) \in Nat /\ Len(k) \in Nat
    BY <1>6
  <2>. HIDE DEF n
  <2>. QED  BY <1>4, <1>5, <1>6, <2>1, ReadingAgrees
<1>8. b[n + 1] = Readentry(b[n], e, late)
  <2>1. n + 1 \in 1..Len(k) /\ (n + 1) - 1 = n
    BY <1>6
  <2>2. b[n + 1] = Readentry(b[(n + 1) - 1], k[n + 1], late)
    BY <1>5, <2>1 DEF Reading
  <2>. QED  BY <1>6, <2>1, <2>2
<1>. QED  BY <1>4, <1>5, <1>6, <1>7, <1>8

-----------------------------------------------------------------------------
(* What the next start will find.                                            *)

Recall(reg, late) == Ids(ToSet(Replay(reg, late).cache))

LEMMA RecallAppend ==
  ASSUME NEW late \in BOOLEAN, NEW reg \in Regs, NEW reg2 \in Regs, reg2.lastnr = reg.lastnr,
         NEW e \in Entries, reg2.log = Append(reg.log, e),
         NEW k \in Recall(reg, late)
  PROVE  k \in Recall(reg2, late) \/ e.nr = k.nr
<1>1. reg.log \in Logs
  BY DEF Regs
<1>2. CASE Torns(reg.log) # {}
  <2>1. Readable(reg2.log) = Readable(reg.log)
    BY <1>1, <1>2, ReadableAppend
  <2>2. Replay(reg2, late) = Replay(reg, late)
    BY <2>1, ReplaySame
  <2>. QED  BY <2>2 DEF Recall
<1>3. CASE Torns(reg.log) = {}
  <2>1. Replay(reg2, late) = Readentry(Replay(reg, late), e, late)
    BY <1>3, ReplayAppend
  <2>. DEFINE r == Replay(reg, late)
  <2>2. Goodread(r, late) /\ k \in Ids(ToSet(r.cache))
    BY ReplayGood DEF Recall
  <2>. HIDE DEF r
  <2>3. e.del \in BOOLEAN
    BY DEF Entries
  <2>4. k \in Ids(ToSet(Readentry(r, e, late).cache)) \/ k.nr = e.nr
    BY <2>2, <2>3, ReadentryGood
  <2>. QED  BY <2>1, <2>4 DEF Recall, r
<1>. QED  BY <1>2, <1>3

LEMMA RecallTorn ==
  ASSUME NEW late \in BOOLEAN, NEW reg \in Regs, NEW reg2 \in Regs, reg2.lastnr = reg.lastnr,
         reg2.log = Append(reg.log, Torn)
  PROVE  Recall(reg2, late) = Recall(reg, late)
<1>1. reg.log \in Logs
  BY DEF Regs
<1>2. Readable(reg2.log) = Readable(reg.log)
  BY <1>1, ReadableAppend
<1>. QED  BY <1>2, ReplaySame DEF Recall

LEMMA RecallEmpty ==
  ASSUME NEW late \in BOOLEAN, NEW reg \in Regs, reg.log = <<>>
  PROVE  Recall(reg, late) = {}
<1>1. reg.log \in Logs /\ Len(<<>>) = 0 /\ Torns(<<>>) = {}
  BY DEF Regs, Torns
<1>2. Readable(reg.log) = <<>>
  BY <1>1, ReadableIs
<1>3. PICK acc : /\ Reading(acc, Startread(reg.lastnr), <<>>, late)
                 /\ Replay(reg, late) = acc[0]
  BY <1>1, <1>2, ReplayReads
<1>4. Replay(reg, late).cache = <<>>
  BY <1>3 DEF Reading, Startread
<1>. QED  BY <1>4 DEF Recall, Ids, ToSet

LEMMA RecallFresh ==
  ASSUME NEW late \in BOOLEAN, NEW reg \in Regs, NEW k \in Recall(reg, late)
  PROVE  ~(late /\ k.url \in Expiring)
<1>1. Goodread(Replay(reg, late), late)
  BY ReplayGood
<1>2. PICK o \in ToSet(Replay(reg, late).cache) : k = [nr |-> o.nr, url |-> o.url]
  BY DEF Recall, Ids
<1>. QED  BY <1>1, <1>2 DEF Goodread, Restored

\* The registration of a list of objects.
LEMMA RecallRegistered ==
  ASSUME NEW late \in BOOLEAN, NEW l \in Seq(Objects), NEW reg \in Regs,
         reg.log = [i \in 1..Len(l) |-> Entry(l[i], FALSE)],
         NEW o \in ToSet(l), ~(late /\ o.url \in Expiring)
  PROVE  [nr |-> o.nr, url |-> o.url] \in Recall(reg, late)
<1>. DEFINE n == Len(l)
            w == reg.log
<1>1. n \in Nat /\ DOMAIN l = 1..n /\ \A i \in 1..n : l[i] \in Objects
  OBVIOUS
<1>2. ASSUME NEW i \in 1..n
      PROVE  w[i] \in Entries /\ ~w[i].del /\ w[i].nr = l[i].nr /\ w[i].url = l[i].url
  <2>1. w[i] = Entry(l[i], FALSE) /\ l[i] \in Objects
    BY <1>1
  <2>. HIDE DEF w
  <2>. QED  BY <2>1 DEF Entry, Entries, Objects
<1>3. Len(w) = n /\ w \in Logs /\ reg.lastnr \in 0..MaxNr
  <2>1. w \in Logs /\ reg.lastnr \in 0..MaxNr
    BY DEF Regs
  <2>2. DOMAIN w = 1..n
    OBVIOUS
  <2>. HIDE DEF w, n
  <2>3. DOMAIN w = 1..Len(w) /\ Len(w) \in Nat
    BY <2>1 DEF Logs
  <2>. QED  BY <1>1, <2>1, <2>2, <2>3
<1>. HIDE DEF w
<1>4. Torns(w) = {}
  <2>1. \A i \in 1..n : w[i] # Torn
    BY <1>2, TornFacts
  <2>. QED  BY <1>3, <2>1 DEF Torns
<1>5. Readable(w) = w /\ w \in Seq(Entries)
  <2>1. Readable(w) = w
    BY <1>3, <1>4, ReadableIs
  <2>. QED  BY <1>3, <2>1, ReadableType
<1>6. PICK acc : Reading(acc, Startread(reg.lastnr), w, late) /\ Replay(reg, late) = acc[n]
  <2>. HIDE DEF n
  <2>1. PICK acc : /\ Reading(acc, Startread(reg.lastnr), Readable(reg.log), late)
                   /\ Replay(reg, late) = acc[Len(Readable(reg.log))]
    BY ReplayReads
  <2>2. Readable(reg.log) = w
    BY <1>5 DEF w
  <2>. QED  BY <1>3, <2>1, <2>2
<1>7. \A i \in 0..n : acc[i] \in Goodreads(late)
  <2>1. Startread(reg.lastnr) \in Goodreads(late)
    BY <1>3, StartreadGood
  <2>. QED  BY <1>3, <1>5, <1>6, <2>1, ReadingGood
<1>8. PICK p \in 1..n : o = l[p]
  BY <1>1 DEF ToSet
<1>. DEFINE id == [nr |-> o.nr, url |-> o.url]
            T == {i \in 0..n : i < p \/ id \in Ids(ToSet(acc[i].cache))}
<1>. HIDE DEF n, id
<1>9. 0 \in T
  BY <1>1, <1>8
<1>10. ASSUME NEW i \in 1..n, i - 1 \in T  PROVE i \in T
  <2>1. acc[i] = Readentry(acc[i - 1], w[i], late) /\ i \in 0..n /\ i - 1 \in 0..n
    BY <1>1, <1>3, <1>6 DEF Reading
  <2>2. Goodread(acc[i - 1], late) /\ w[i] \in Entries /\ ~w[i].del
    BY <1>2, <1>7, <2>1 DEF Goodreads
  <2>3. CASE i < p
    BY <2>1, <2>3
  <2>4. CASE i = p
    <3>1. id = [nr |-> w[i].nr, url |-> w[i].url] /\ ~(late /\ w[i].url \in Expiring)
      BY <1>2, <1>8, <2>4 DEF id
    <3>2. id \in Ids(ToSet(Readentry(acc[i - 1], w[i], late).cache))
      BY <2>2, <3>1, ReadentryGood
    <3>. QED  BY <2>1, <3>2
  <2>5. CASE i > p
    <3>1. id \in Ids(ToSet(acc[i - 1].cache))
      <4>1. ~(i - 1 < p)
        BY <1>1, <1>8, <2>5
      <4>. QED  BY <1>10, <4>1
    <3>2. id \in Ids(ToSet(Readentry(acc[i - 1], w[i], late).cache))
      BY <2>2, <3>1, ReadentryGood
    <3>. QED  BY <2>1, <3>2
  <2>6. i < p \/ i = p \/ i > p
    BY <1>1, <1>8
  <2>. QED  BY <2>3, <2>4, <2>5, <2>6
<1>. HIDE DEF T
<1>11. n \in T
  <2>1. n \in 0..n
    BY <1>1
  <2>. QED  BY <1>1, <1>9, <1>10, <2>1, Inducts
<1>12. id \in Ids(ToSet(acc[n].cache))
  <2>1. ~(n < p)
    BY <1>1, <1>8
  <2>. QED  BY <1>11, <2>1 DEF T
<1>. QED  BY <1>6, <1>12 DEF Recall, id

\* An entry of an object takes nothing away,
LEMMA RecallAdd ==
  ASSUME NEW late \in BOOLEAN, NEW reg \in Regs, NEW reg2 \in Regs, reg2.lastnr = reg.lastnr,
         NEW e \in Additions, reg2.log = Append(reg.log, e)
  PROVE  Recall(reg, late) \subseteq Recall(reg2, late)
<1>1. reg.log \in Logs /\ e \in Entries /\ ~e.del
  BY DEF Regs, Additions
<1>2. CASE Torns(reg.log) # {}
  <2>1. Readable(reg2.log) = Readable(reg.log)
    BY <1>1, <1>2, ReadableAppend
  <2>2. Replay(reg2, late) = Replay(reg, late)
    BY <2>1, ReplaySame
  <2>. QED  BY <2>2 DEF Recall
<1>3. CASE Torns(reg.log) = {}
  <2>1. Replay(reg2, late) = Readentry(Replay(reg, late), e, late)
    BY <1>1, <1>3, ReplayAppend
  <2>. DEFINE r == Replay(reg, late)
  <2>2. Goodread(r, late)
    BY ReplayGood
  <2>. HIDE DEF r
  <2>3. Ids(ToSet(r.cache)) \subseteq Ids(ToSet(Readentry(r, e, late).cache))
    BY <1>1, <2>2, ReadentryGood
  <2>. QED  BY <2>1, <2>3 DEF Recall, r
<1>. QED  BY <1>2, <1>3

\* and is found, when the log has no torn entry before it.
LEMMA RecallNew ==
  ASSUME NEW late \in BOOLEAN, NEW reg \in Regs, NEW reg2 \in Regs, reg2.lastnr = reg.lastnr,
         NEW e \in Additions, reg2.log = Append(reg.log, e), Torns(reg.log) = {},
         ~(late /\ e.url \in Expiring)
  PROVE  [nr |-> e.nr, url |-> e.url] \in Recall(reg2, late)
<1>1. e \in Entries /\ ~e.del
  BY DEF Additions
<1>2. Replay(reg2, late) = Readentry(Replay(reg, late), e, late)
  BY <1>1, ReplayAppend
<1>. DEFINE r == Replay(reg, late)
<1>3. Goodread(r, late)
  BY ReplayGood
<1>. HIDE DEF r
<1>4. [nr |-> e.nr, url |-> e.url] \in Ids(ToSet(Readentry(r, e, late).cache))
  BY <1>1, <1>3, ReadentryGood
<1>. QED  BY <1>2, <1>4 DEF Recall, r

\* Registrations of which every entry is one of an object: AWCR is always one.
Plain(log) == log \in Seq(Additions)

LEMMA PlainFacts ==
  ASSUME NEW log, Plain(log)
  PROVE  log \in Seq(Entries) /\ log \in Logs /\ Torns(log) = {} /\ Readable(log) = log
<1>1. log \in Seq(Additions) /\ Additions \subseteq Entries
  BY DEF Plain, Additions
<1>2. log \in Seq(Entries) /\ log \in Logs
  BY <1>1 DEF Logs
<1>3. \A i \in 1..Len(log) : log[i] \in Entries
  BY <1>2
<1>4. Torns(log) = {}
  BY <1>3, TornFacts DEF Torns
<1>. QED  BY <1>2, <1>4, ReadableIs

\* Each of its entries is found,
LEMMA RecallPlain ==
  ASSUME NEW late \in BOOLEAN, NEW reg \in Regs, Plain(reg.log),
         NEW e \in ToSet(reg.log), ~(late /\ e.url \in Expiring)
  PROVE  [nr |-> e.nr, url |-> e.url] \in Recall(reg, late)
<1>. DEFINE w == reg.log
            O(x) == Object(x.nr, x.url, "cache", TRUE, x.size)
            l == [i \in 1..Len(w) |-> O(w[i])]
<1>1. w \in Seq(Additions) /\ DOMAIN w = 1..Len(w) /\ Len(w) \in Nat
  BY DEF Plain
<1>2. ASSUME NEW x \in Additions
      PROVE  /\ O(x) \in Objects /\ Entry(O(x), FALSE) = x
             /\ O(x).nr = x.nr /\ O(x).url = x.url
  BY DEF Additions, Entries, Object, Objects, Roles, Entry
<1>3. PICK p \in 1..Len(w) : e = w[p]
  BY <1>1 DEF ToSet
<1>4. \A i \in 1..Len(w) : w[i] \in Additions
  BY <1>1
<1>. HIDE DEF w, O
<1>5. l \in Seq(Objects) /\ Len(l) = Len(w) /\ DOMAIN l = 1..Len(w)
  <2>1. \A i \in 1..Len(w) : O(w[i]) \in Objects
    BY <1>2, <1>4
  <2>2. l \in [1..Len(w) -> Objects]
    BY <2>1
  <2>. HIDE DEF l
  <2>. QED  BY <1>1, <2>2
<1>6. w = [i \in 1..Len(l) |-> Entry(l[i], FALSE)]
  <2>1. \A i \in 1..Len(w) : Entry(l[i], FALSE) = w[i]
    BY <1>2, <1>4
  <2>2. w = [i \in 1..Len(w) |-> w[i]]
    BY <1>1
  <2>3. [i \in 1..Len(l) |-> Entry(l[i], FALSE)] = [i \in 1..Len(w) |-> w[i]]
    <3>. HIDE DEF l
    <3>. QED  BY <1>5, <2>1
  <2>. QED  BY <2>2, <2>3
<1>7. l[p] = O(e) /\ l[p] \in ToSet(l) /\ l[p].nr = e.nr /\ l[p].url = e.url
  <2>1. l[p] = O(e)
    BY <1>3
  <2>2. e \in Additions
    BY <1>3, <1>4
  <2>. HIDE DEF l
  <2>. QED  BY <1>2, <1>5, <2>1, <2>2 DEF ToSet
<1>. HIDE DEF l
<1>8. [nr |-> l[p].nr, url |-> l[p].url] \in Recall(reg, late)
  BY <1>5, <1>6, <1>7, RecallRegistered DEF w
<1>. QED  BY <1>7, <1>8

\* and nothing else.
LEMMA RecallFrom ==
  ASSUME NEW late \in BOOLEAN, NEW reg \in Regs, Plain(reg.log), NEW k \in Recall(reg, late)
  PROVE  \E e \in ToSet(reg.log) : k.nr = e.nr /\ k.url = e.url
<1>. DEFINE w == reg.log
            n == Len(w)
            Among(d) == \E i \in 1..n : d.nr = w[i].nr /\ d.url = w[i].url
<1>1. w \in Seq(Entries) /\ Readable(w) = w /\ n \in Nat /\ DOMAIN w = 1..n
  BY PlainFacts
<1>2. PICK acc : Reading(acc, Startread(reg.lastnr), w, late) /\ Replay(reg, late) = acc[n]
  BY <1>1, ReplayReads
<1>. HIDE DEF n
<1>3. \A i \in 0..n : acc[i] \in Goodreads(late)
  <2>1. Startread(reg.lastnr) \in Goodreads(late)
    BY StartreadGood DEF Regs
  <2>. QED  BY <1>1, <1>2, <2>1, ReadingGood DEF n
<1>. HIDE DEF w
<1>. DEFINE T == {i \in 0..n : \A d \in Ids(ToSet(acc[i].cache)) : Among(d)}
<1>. HIDE DEF Among
<1>4. 0 \in T
  <2>1. acc[0].cache = <<>>
    BY <1>2 DEF Reading, Startread
  <2>2. Ids(ToSet(acc[0].cache)) = {}
    BY <2>1 DEF Ids, ToSet
  <2>. QED  BY <1>1, <2>2
<1>5. ASSUME NEW i \in 1..n, i - 1 \in T  PROVE i \in T
  <2>1. acc[i] = Readentry(acc[i - 1], w[i], late) /\ i \in 0..n /\ i - 1 \in 0..n
    BY <1>1, <1>2 DEF Reading, n
  <2>2. Goodread(acc[i - 1], late) /\ w[i] \in Entries
    BY <1>1, <1>3, <2>1 DEF Goodreads, n
  <2>3. \A k2 \in Ids(ToSet(Readentry(acc[i - 1], w[i], late).cache)) :
           k2 \in Ids(ToSet(acc[i - 1].cache)) \/ (k2.nr = w[i].nr /\ k2.url = w[i].url)
    <3>. DEFINE r == acc[i - 1]
                e == w[i]
    <3>. HIDE DEF r, e
    <3>1. Goodread(r, late) /\ e \in Entries
      BY <2>2 DEF r, e
    <3>2. \A k2 \in Ids(ToSet(Readentry(r, e, late).cache)) :
             k2 \in Ids(ToSet(r.cache)) \/ (k2.nr = e.nr /\ k2.url = e.url)
      BY <3>1, ReadentryGood
    <3>. QED  BY <3>2 DEF r, e
  <2>4. ASSUME NEW d \in Ids(ToSet(acc[i].cache))  PROVE Among(d)
    <3>1. d \in Ids(ToSet(Readentry(acc[i - 1], w[i], late).cache))
      BY <2>1
    <3>2. d \in Ids(ToSet(acc[i - 1].cache)) \/ (d.nr = w[i].nr /\ d.url = w[i].url)
      BY <2>3, <3>1
    <3>. QED  BY <1>5, <3>2 DEF Among, T
  <2>. QED  BY <2>1, <2>4 DEF T
<1>. HIDE DEF T
<1>6. n \in T
  <2>1. n \in 0..n
    BY <1>1
  <2>. QED  BY <1>1, <1>4, <1>5, <2>1, Inducts
<1>7. Among(k)
  BY <1>2, <1>6 DEF T, Recall
<1>. QED  BY <1>1, <1>7 DEF Among, ToSet, w

-----------------------------------------------------------------------------
(* Changes of a list of objects.                                             *)

\* f changes the objects of l, in their places.
IsMapped(k, l, f) == k = [i \in 1..Len(l) |-> f[l[i]]]

\* The numbers of the objects stay.
Renews(f, S) == \A x \in S : f[x] \in Objects /\ f[x].nr = x.nr /\ f[x].twin = x.twin

LEMMA MapFacts ==
  ASSUME NEW l \in Seq(Objects), Distinct(l), NEW f, Renews(f, ToSet(l)),
         NEW k, IsMapped(k, l, f)
  PROVE  /\ k \in Seq(Objects) /\ Distinct(k)
         /\ ToSet(k) = {f[x] : x \in ToSet(l)}
         /\ Len(k) = Len(l) /\ \A i \in 1..Len(l) : l[i] \in ToSet(l) /\ k[i] = f[l[i]]
         /\ (\A x \in ToSet(l) : f[x].size = x.size) => SizeOf(k) = SizeOf(l)
<1>. DEFINE n == Len(l)
<1>1. n \in Nat /\ DOMAIN l = 1..n
  OBVIOUS
<1>2. \A i \in 1..n : l[i] \in ToSet(l)
  BY <1>1 DEF ToSet
<1>3. k = [i \in 1..n |-> f[l[i]]]
  BY DEF IsMapped
<1>. HIDE DEF n
<1>4. \A i \in 1..n : k[i] = f[l[i]] /\ k[i] \in Objects
  BY <1>2, <1>3 DEF Renews
<1>5. DOMAIN k = 1..n
  BY <1>3
<1>6. k \in [1..n -> Objects]
  BY <1>3, <1>4
<1>7. k \in Seq(Objects) /\ Len(k) = n
  BY <1>1, <1>6
<1>8. Remade(k, l)
  BY <1>2, <1>4, <1>7 DEF Remade, Renews, n
<1>9. Distinct(k)
  BY <1>8, DistinctRemade
<1>10. ToSet(k) = {f[x] : x \in ToSet(l)}
  BY <1>1, <1>4, <1>5 DEF ToSet
<1>11. ASSUME \A x \in ToSet(l) : f[x].size = x.size  PROVE SizeOf(k) = SizeOf(l)
  <2>1. \A i \in 1..Len(k) : k[i].size = l[i].size
    BY <1>2, <1>4, <1>7, <1>11
  <2>2. Len(k) = Len(l)
    BY <1>7 DEF n
  <2>. QED  BY <1>7, <2>1, <2>2, SizeSame
<1>. QED  BY <1>2, <1>4, <1>7, <1>9, <1>10, <1>11 DEF n

\* An object with another role.
Recast(o, as) == [o EXCEPT !.as = as]

LEMMA RecastFacts ==
  ASSUME NEW o \in Objects, NEW as \in Roles
  PROVE  /\ Recast(o, as) \in Objects
         /\ Recast(o, as).nr = o.nr /\ Recast(o, as).twin = o.twin /\ Recast(o, as).url = o.url
         /\ Recast(o, as).as = as /\ Recast(o, as).named = o.named
         /\ Recast(o, as).size = o.size /\ Recast(o, as).open = o.open
BY DEF Recast, Objects

LEMMA AsFacts ==
  ASSUME NEW l \in Seq(Objects), Distinct(l), NEW o \in ToSet(l), NEW as \in Roles
  PROVE  /\ As(l, o, as) \in Seq(Objects) /\ Distinct(As(l, o, as))
         /\ ToSet(As(l, o, as)) = (ToSet(l) \ {o}) \cup {Recast(o, as)}
         /\ SizeOf(As(l, o, as)) = SizeOf(l)
<1>. DEFINE p == Recast(o, as)
            f == [x \in ToSet(l) |-> IF x = o THEN p ELSE x]
            k == As(l, o, as)
<1>1. ToSet(l) \subseteq Objects
  BY ToSetFinite
<1>2. p \in Objects /\ p.nr = o.nr /\ p.twin = o.twin /\ p.size = o.size
  BY <1>1, RecastFacts
<1>3. DOMAIN l = 1..Len(l) /\ \A i \in 1..Len(l) : l[i] \in ToSet(l)
  BY DEF ToSet
<1>4. k = [i \in 1..Len(l) |-> IF l[i] = o THEN p ELSE l[i]]
  BY DEF As, Recast
<1>. HIDE DEF p, k
<1>5. \A x \in ToSet(l) : f[x] = IF x = o THEN p ELSE x
  OBVIOUS
<1>. HIDE DEF f
<1>6. IsMapped(k, l, f)
  BY <1>3, <1>4, <1>5 DEF IsMapped
<1>7. Renews(f, ToSet(l)) /\ \A x \in ToSet(l) : f[x].size = x.size
  BY <1>1, <1>2, <1>5 DEF Renews
<1>8. /\ k \in Seq(Objects) /\ Distinct(k) /\ ToSet(k) = {f[x] : x \in ToSet(l)}
      /\ SizeOf(k) = SizeOf(l)
  BY <1>6, <1>7, MapFacts
<1>9. {f[x] : x \in ToSet(l)} = (ToSet(l) \ {o}) \cup {p}
  BY <1>5
<1>. QED  BY <1>8, <1>9 DEF p, k

\* One object grows by a unit.
LEMMA SizeGrow ==
  ASSUME NEW l \in Seq(Objects), NEW k \in Seq(Objects), Len(k) = Len(l), NEW p \in 1..Len(l),
         k[p].size = l[p].size + 1,
         \A i \in 1..Len(l) : i # p => k[i].size = l[i].size
  PROVE  SizeOf(k) = SizeOf(l) + 1
<1>. DEFINE n == Len(l)
<1>1. PICK s : Sums(s, l) /\ SizeOf(l) = s[Len(l)]
  BY SizeOfFacts
<1>2. PICK t : Sums(t, k) /\ SizeOf(k) = t[Len(k)]
  BY SizeOfFacts
<1>3. \A i \in 0..n : s[i] \in Nat
  BY <1>1, SumsType
<1>4. n \in Nat /\ \A i \in 1..n : l[i].size \in Nat
  <2>1. \A i \in 1..n : l[i] \in Objects
    OBVIOUS
  <2>. QED  BY <2>1 DEF Objects
<1>5. s[0] = 0 /\ t[0] = 0
  BY <1>1, <1>2 DEF Sums
<1>6. \A i \in 1..n : s[i] = s[i - 1] + l[i].size /\ t[i] = t[i - 1] + k[i].size
  BY <1>1, <1>2 DEF Sums
<1>. DEFINE T == {i \in 0..n : t[i] = s[i] + (IF i < p THEN 0 ELSE 1)}
<1>7. 0 \in T
  BY <1>4, <1>5
<1>8. ASSUME NEW i \in 1..n, i - 1 \in T  PROVE i \in T
  <2>1. i \in 0..n /\ i - 1 \in 0..n /\ s[i - 1] \in Nat /\ l[i].size \in Nat
    BY <1>3, <1>4
  <2>2. t[i - 1] = s[i - 1] + (IF i - 1 < p THEN 0 ELSE 1)
    BY <1>8
  <2>3. s[i] = s[i - 1] + l[i].size /\ t[i] = t[i - 1] + k[i].size
    BY <1>6
  <2>4. k[i].size = IF i = p THEN l[i].size + 1 ELSE l[i].size
    OBVIOUS
  <2>5. t[i] = s[i] + (IF i < p THEN 0 ELSE 1)
    <3>. DEFINE a == s[i - 1]
                b == l[i].size
    <3>1. a \in Nat /\ b \in Nat /\ i \in Nat /\ p \in Nat
      BY <1>4, <2>1
    <3>2. /\ t[i - 1] = a + (IF i - 1 < p THEN 0 ELSE 1) /\ s[i] = a + b
          /\ t[i] = t[i - 1] + (IF i = p THEN b + 1 ELSE b)
      BY <2>2, <2>3, <2>4
    <3>. HIDE DEF a, b
    <3>. QED  BY <3>1, <3>2
  <2>. QED  BY <2>1, <2>5
<1>. HIDE DEF T
<1>9. n \in T
  <2>1. n \in 0..n
    BY <1>4
  <2>. HIDE DEF n
  <2>. QED  BY <1>4, <1>7, <1>8, <2>1, Inducts
<1>10. t[n] = s[n] + 1
  <2>1. ~(n < p)
    BY <1>4
  <2>. QED  BY <1>9, <2>1 DEF T
<1>. QED  BY <1>1, <1>2, <1>10

-----------------------------------------------------------------------------
(* The invariant.                                                            *)

CacheTypes ==
  /\ phase \in {"down", "up", "exited"}
  /\ cache \in Seq(Objects) /\ fetching \subseteq Urls /\ cachenr \in 0..MaxNr
  /\ nradded \in 0..NRCHKPT /\ sizeadded \in 0..CHKAFTER /\ flushing \in 0..MaxNr
  /\ todo \in Seq(Steps) /\ awcr \in Regs /\ awcu \in Regs
  /\ files \in [Nr -> {"none", "partial", "whole"}]
  /\ now \in BOOLEAN /\ crashes \in Nat /\ faults \in Nat /\ crashes + faults <= MaxTroubles

\* The objects S of the urls, after nr numbers, with fetches f under way.
Numbered(S, nr) == \A x \in S : x.nr <= nr

\* Only objects that were read from the registration share a number.
Fresher(S) == \A x, y \in S : x.nr = y.nr /\ x # y => x.twin > 0 /\ y.twin > 0

OneHeld(S) ==
  \A x, y \in S : x.url = y.url /\ x.as = y.as /\ x.as \in {"cache", "ocache", "vcache"} => x = y

Verifying(S, f) == \A x \in S : x.as = "vcache" => ~x.named /\ x.twin = 0 /\ x.url \in f

Reloading(S, f) ==
  \A x \in S : x.as = "ocache" => x.url \in f /\ \A y \in S : y.url = x.url => y.as # "vcache"

\* The copy read from the registration is the only one of its url that was not
\* put aside by a later url object, and is never beside an older one.
Replayed(S) ==
  \A x \in S : x.twin > 0 /\ x.as # "dup" =>
    \A y \in S : y.url = x.url /\ y # x =>
      /\ y.twin > 0 => y.as = "dup"
      /\ x.as \in {"cache", "ocache"} => y.as \notin {"ocache", "orphan"}

Sound(S, nr, f) ==
  /\ Numbered(S, nr) /\ Fresher(S) /\ OneHeld(S) /\ Verifying(S, f) /\ Reloading(S, f)
  /\ Replayed(S)

\* What is left of the accesses of an operation.
Saving(t, exiting) ==
  \A i \in 1..Len(t) :
    /\ t[i].do = "open AWCR" => i < Len(t) /\ t[i + 1].do = "close AWCR"
    /\ t[i].do = "close AWCR" => i < Len(t) /\ t[i + 1].do = "delete AWCU"
    /\ t[i].do = "delete AWCU" =>
         IF exiting THEN i = Len(t) ELSE i < Len(t) /\ t[i + 1].do = "rename"
    /\ t[i].do = "delete AWCU" /\ i > 1 => t[i - 1].do = "close AWCR"
    /\ t[i].do = "fixed" => i = Len(t)
    /\ t[i].do # "create AWCU"

\* A start without AWCU: the files of expired objects go, and AWCU is made.
Starting(t, renames) ==
  /\ t # <<>> /\ \A i \in 1..(Len(t) - 1) : t[i].do = "unlink"
  /\ t[Len(t)].do = IF renames THEN "rename" ELSE "create AWCU"

Registers ==
  /\ \A reg \in {awcr, awcu} : ~reg.there => reg = NoFile
  /\ phase = "down" => todo = <<>>
  /\ awcu.there => Saving(todo, phase = "exited")
  /\ ~awcu.there =>
       \/ todo = <<>> /\ phase # "up"
       \/ todo # <<>> /\ awcr.there /\ todo[1].do = "rename" /\ Saving(todo, phase = "exited")
       \/ Starting(todo, awcr.there)
  /\ todo # <<>> /\ todo[1].do = "delete AWCU" => awcr = Registration

HasFixed(t) == \E i \in 1..Len(t) : t[i].do = "fixed"

\* The numbers that several objects had when the repair that ends here began.
Spared(t) == t[Len(t)].shared

\* While the repair is under way, the files and the objects will belong to each
\* other when the files to be deleted are gone.
Synchronizes(S, fs, gone, shared) ==
  /\ \A n \in Nr : fs[n] # "none" => n \in gone \/ \E o \in S : o.nr = n /\ o.named
  /\ \A o \in S : Registered(o) /\ o.named /\ o.nr \notin shared =>
       fs[o.nr] # "none" /\ o.nr \notin gone

Repairing ==
  HasFixed(todo) =>
    Quiet(todo) /\ Synchronizes(ToSet(cache), files, Unlinks(todo), Spared(todo))

Accounted == Distinct(cache) /\ Sound(ToSet(cache), cachenr, fetching) /\ cadisksize = SizeOf(cache)

CacheInv == CacheTypes /\ Accounted /\ Registers /\ Repairing

-----------------------------------------------------------------------------
(* What the operations do to the objects.                                    *)

LEMMA SoundSubset ==
  ASSUME NEW S, NEW T \in SUBSET S, NEW nr, NEW f, Sound(S, nr, f), NEW g,
         \A x \in T : x.as \in {"vcache", "ocache"} => x.url \in g
  PROVE  Sound(T, nr, g)
<1>1. Numbered(T, nr) /\ Fresher(T) /\ OneHeld(T)
  BY DEF Sound, Numbered, Fresher, OneHeld
<1>2. Verifying(T, g) /\ Reloading(T, g)
  BY DEF Sound, Verifying, Reloading
<1>3. Replayed(T)
  BY DEF Sound, Replayed
<1>. QED  BY <1>1, <1>2, <1>3 DEF Sound

\* A fresh object has the next number.
New(n, nr, u) == n \in Objects /\ n.nr = nr + 1 /\ n.twin = 0 /\ n.url = u /\ ~n.named

LEMMA NewNumber ==
  ASSUME NEW S \in SUBSET Objects, NEW nr \in Nat, NEW f, Sound(S, nr, f), NEW u,
         NEW n, New(n, nr, u)
  PROVE  \A x \in S : x.nr # n.nr /\ x.nr <= nr + 1
<1>. TAKE x \in S
<1>1. x.nr \in Nat /\ x.nr <= nr /\ n.nr = nr + 1
  BY DEF Sound, Numbered, Objects, New, Nr
<1>. QED  BY <1>1

\* The copy, if there is one, goes.
LEMMA LoadSound ==
  ASSUME NEW S \in SUBSET Objects, NEW nr \in Nat, NEW f, Sound(S, nr, f), NEW u, u \notin f,
         NEW n, New(n, nr, u), n.as = "cache",
         NEW T \in SUBSET (S \cup {n}), \A x \in T : x.url = u /\ x.as = "cache" => x = n
  PROVE  Sound(T, nr + 1, f \cup {u})
<1>1. \A x \in S : x.nr # n.nr /\ x.nr <= nr + 1
  BY NewNumber
<1>2. n.nr = nr + 1 /\ n.twin = 0 /\ n.url = u
  BY DEF New
<1>3. Numbered(T, nr + 1) /\ Fresher(T)
  BY <1>1, <1>2 DEF Sound, Numbered, Fresher
<1>4. OneHeld(T)
  BY <1>2 DEF Sound, OneHeld
<1>5. Verifying(T, f \cup {u}) /\ Reloading(T, f \cup {u})
  BY <1>2 DEF Sound, Verifying, Reloading
<1>6. Replayed(T)
  BY <1>2 DEF Sound, Replayed
<1>. QED  BY <1>3, <1>4, <1>5, <1>6 DEF Sound

\* The expired copy is forgotten.
LEMMA HistorySound ==
  ASSUME NEW S \in SUBSET Objects, NEW nr \in Nat, NEW f, Sound(S, nr, f), NEW u, u \notin f,
         NEW n, New(n, nr, u), n.as = "cache",
         NEW o \in S, o.url = u, o.as = "cache",
         NEW p, p.nr = o.nr, p.twin = o.twin, p.url = u, p.as = "orphan"
  PROVE  Sound(((S \ {o}) \cup {p}) \cup {n}, nr + 1, f \cup {u})
<1>. DEFINE T == ((S \ {o}) \cup {p}) \cup {n}
<1>1. \A x \in S : x.nr # n.nr /\ x.nr <= nr + 1
  BY NewNumber
<1>2. n.nr = nr + 1 /\ n.twin = 0 /\ n.url = u /\ n.nr <= nr + 1
  BY DEF New
<1>3. Numbered(T, nr + 1)
  BY <1>1, <1>2 DEF Numbered
<1>4. Fresher(T)
  BY <1>1, <1>2 DEF Sound, Fresher
<1>5. OneHeld(T)
  BY <1>2 DEF Sound, OneHeld
<1>6. Verifying(T, f \cup {u}) /\ Reloading(T, f \cup {u})
  BY <1>2 DEF Sound, Verifying, Reloading
<1>7. ASSUME NEW x \in T, x.twin > 0, x.as # "dup", NEW y \in T, y.url = x.url, y # x
      PROVE  /\ y.twin > 0 => y.as = "dup"
             /\ x.as \in {"cache", "ocache"} => y.as \notin {"ocache", "orphan"}
  <2>1. x # n
    BY <1>2, <1>7
  <2>2. CASE x = p
    BY <1>2, <1>7, <2>2 DEF Sound, Replayed
  <2>3. CASE x \in S \ {o} /\ x.url # u
    BY <1>2, <1>7, <2>3 DEF Sound, Replayed
  <2>4. CASE x \in S \ {o} /\ x.url = u
    <3>1. x.as # "cache" /\ x.as # "ocache"
      BY <2>4 DEF Sound, OneHeld, Reloading
    <3>2. ~(o.twin > 0)
      BY <1>7, <2>4 DEF Sound, Replayed
    <3>3. y.twin > 0 => y.as = "dup"
      BY <1>2, <1>7, <2>4, <3>2 DEF Sound, Replayed
    <3>. QED  BY <3>1, <3>3
  <2>. QED  BY <2>1, <2>2, <2>3, <2>4
<1>8. Replayed(T)
  BY <1>7 DEF Replayed
<1>. QED  BY <1>3, <1>4, <1>5, <1>6, <1>8 DEF Sound

\* The copy is kept aside, and one that was aside goes.
LEMMA ReloadSound ==
  ASSUME NEW S \in SUBSET Objects, NEW nr \in Nat, NEW f, Sound(S, nr, f), NEW u,
         NEW n, New(n, nr, u), n.as = "cache",
         NEW o \in S, o.url = u, o.as = "cache",
         NEW p, p.nr = o.nr, p.twin = o.twin, p.url = u, p.as = "ocache",
         NEW T \in SUBSET (((S \ {o}) \cup {p}) \cup {n}),
         \A x \in T : x.url = u /\ x.as \in {"ocache", "vcache"} => x = p
  PROVE  Sound(T, nr + 1, f \cup {u})
<1>1. \A x \in S : x.nr # n.nr /\ x.nr <= nr + 1
  BY NewNumber
<1>2. n.nr = nr + 1 /\ n.twin = 0 /\ n.url = u /\ n.nr <= nr + 1
  BY DEF New
<1>3. Numbered(T, nr + 1)
  BY <1>1, <1>2 DEF Numbered
<1>4. Fresher(T)
  BY <1>1, <1>2 DEF Sound, Fresher
<1>5. OneHeld(T)
  BY <1>2 DEF Sound, OneHeld
<1>6. Verifying(T, f \cup {u}) /\ Reloading(T, f \cup {u})
  BY <1>2 DEF Sound, Verifying, Reloading
<1>7. ASSUME NEW x \in T, x.twin > 0, x.as # "dup", NEW y \in T, y.url = x.url, y # x
      PROVE  /\ y.twin > 0 => y.as = "dup"
             /\ x.as \in {"cache", "ocache"} => y.as \notin {"ocache", "orphan"}
  <2>1. x # n
    BY <1>2, <1>7
  <2>2. CASE x = p
    BY <1>2, <1>7, <2>2 DEF Sound, Replayed
  <2>3. CASE x \in S \ {o} /\ x.url # u
    BY <1>2, <1>7, <2>3 DEF Sound, Replayed
  <2>4. CASE x \in S \ {o} /\ x.url = u /\ x # p
    <3>1. x.as # "cache" /\ x.as # "ocache"
      BY <2>4 DEF Sound, OneHeld
    <3>2. ~(o.twin > 0)
      BY <1>7, <2>4 DEF Sound, Replayed
    <3>3. y.twin > 0 => y.as = "dup"
      BY <1>2, <1>7, <2>4, <3>2 DEF Sound, Replayed
    <3>. QED  BY <3>1, <3>3
  <2>. QED  BY <2>1, <2>2, <2>3, <2>4
<1>8. Replayed(T)
  BY <1>7 DEF Replayed
<1>. QED  BY <1>3, <1>4, <1>5, <1>6, <1>8 DEF Sound

\* A verification begins,
LEMMA VerifySound ==
  ASSUME NEW S \in SUBSET Objects, NEW nr \in Nat, NEW f, Sound(S, nr, f), NEW u, u \notin f,
         NEW n, New(n, nr, u), n.as = "vcache"
  PROVE  Sound(S \cup {n}, nr + 1, f \cup {u})
<1>. DEFINE T == S \cup {n}
<1>1. \A x \in S : x.nr # n.nr /\ x.nr <= nr + 1
  BY NewNumber
<1>2. n.nr = nr + 1 /\ n.twin = 0 /\ n.url = u /\ n.nr <= nr + 1 /\ ~n.named
  BY DEF New
<1>3. Numbered(T, nr + 1)
  BY <1>1, <1>2 DEF Numbered
<1>4. Fresher(T)
  BY <1>1, <1>2 DEF Sound, Fresher
<1>5. OneHeld(T)
  BY <1>2 DEF Sound, OneHeld, Verifying
<1>6. Verifying(T, f \cup {u}) /\ Reloading(T, f \cup {u})
  BY <1>2 DEF Sound, Verifying, Reloading
<1>7. Replayed(T)
  BY <1>2 DEF Sound, Replayed
<1>. QED  BY <1>3, <1>4, <1>5, <1>6, <1>7 DEF Sound

\* and its object takes the place of the copy.
LEMMA ModifiedSound ==
  ASSUME NEW S, NEW nr, NEW f, Sound(S, nr, f), NEW u,
         NEW o \in S, o.url = u, o.as = "vcache",
         NEW p, p.nr = o.nr, p.twin = o.twin, p.url = u, p.as = "cache",
         NEW T \in SUBSET ((S \ {o}) \cup {p}), \A x \in T : x.url = u /\ x.as = "cache" => x = p
  PROVE  Sound(T, nr, f)
<1>1. p.twin = 0
  BY DEF Sound, Verifying
<1>2. Numbered(T, nr)
  BY DEF Sound, Numbered
<1>3. Fresher(T)
  BY DEF Sound, Fresher
<1>4. OneHeld(T)
  BY DEF Sound, OneHeld
<1>5. Verifying(T, f) /\ Reloading(T, f)
  BY DEF Sound, Verifying, Reloading
<1>6. Replayed(T)
  BY <1>1 DEF Sound, Replayed
<1>. QED  BY <1>2, <1>3, <1>4, <1>5, <1>6 DEF Sound

\* Objects that change keep their roles.
LEMMA ChangedSound ==
  ASSUME NEW S, NEW nr, NEW f, Sound(S, nr, f), NEW m,
         \A x \in S : /\ m[x].nr = x.nr /\ m[x].twin = x.twin /\ m[x].url = x.url
                      /\ m[x].as = x.as /\ (x.as = "vcache" => m[x].named = x.named)
  PROVE  Sound({m[x] : x \in S}, nr, f)
<1>. DEFINE T == {m[x] : x \in S}
<1>1. \A y \in T : \E x \in S : y = m[x]
  OBVIOUS
<1>. HIDE DEF T
<1>2. Numbered(T, nr)
  BY <1>1 DEF Sound, Numbered
<1>3. Fresher(T)
  BY <1>1 DEF Sound, Fresher
<1>4. OneHeld(T)
  BY <1>1 DEF Sound, OneHeld
<1>5. Verifying(T, f) /\ Reloading(T, f)
  BY <1>1 DEF Sound, Verifying, Reloading
<1>6. Replayed(T)
  BY <1>1 DEF Sound, Replayed
<1>. QED  BY <1>2, <1>3, <1>4, <1>5, <1>6 DEF Sound, T

\* The copy that was kept aside is back, and the new one is gone.
Restores(m, S, u) ==
  \A x \in S : /\ m[x].nr = x.nr /\ m[x].twin = x.twin /\ m[x].url = x.url
               /\ IF x.url = u /\ x.as = "ocache" THEN m[x].as = "cache" ELSE m[x] = x
Outlives(T, m, S, u) == \A y \in T : \E x \in S : y = m[x] /\ ~(x.url = u /\ x.as = "cache")

LEMMA ErrorSound ==
  ASSUME NEW S, NEW nr, NEW f, Sound(S, nr, f), NEW u, NEW m,
         Restores(m, S, u), NEW T, Outlives(T, m, S, u)
  PROVE  Sound(T, nr, f)
<1>. USE DEF Restores, Outlives
<1>2. Numbered(T, nr)
  BY DEF Sound, Numbered
<1>3. Fresher(T)
  BY DEF Sound, Fresher
<1>4. ASSUME NEW x \in T, NEW y \in T, x.url = y.url, x.as = y.as,
             x.as \in {"cache", "ocache", "vcache"}
      PROVE  x = y
  <2>1. PICK a \in S : x = m[a] /\ ~(a.url = u /\ a.as = "cache")
    OBVIOUS
  <2>2. PICK b \in S : y = m[b] /\ ~(b.url = u /\ b.as = "cache")
    OBVIOUS
  <2>3. a.url = b.url /\ a.as = b.as /\ a.as \in {"cache", "ocache", "vcache"}
    BY <1>4, <2>1, <2>2
  <2>4. a = b
    BY <2>3 DEF Sound, OneHeld
  <2>. QED  BY <2>1, <2>2, <2>4
<1>5. OneHeld(T)
  BY <1>4 DEF OneHeld
<1>6. Verifying(T, f)
  BY DEF Sound, Verifying
<1>7. Reloading(T, f)
  BY DEF Sound, Reloading
<1>8. ASSUME NEW x \in T, x.twin > 0, x.as # "dup", NEW y \in T, y.url = x.url, y # x
      PROVE  /\ y.twin > 0 => y.as = "dup"
             /\ x.as \in {"cache", "ocache"} => y.as \notin {"ocache", "orphan"}
  <2>1. PICK a \in S : x = m[a] /\ ~(a.url = u /\ a.as = "cache")
    OBVIOUS
  <2>2. PICK b \in S : y = m[b] /\ ~(b.url = u /\ b.as = "cache")
    OBVIOUS
  <2>3. a.twin > 0 /\ a.as # "dup" /\ b.url = a.url /\ b # a
    BY <1>8, <2>1, <2>2
  <2>4. b.twin > 0 => b.as = "dup"
    BY <2>3 DEF Sound, Replayed
  <2>5. a.as \in {"cache", "ocache"} => b.as \notin {"ocache", "orphan"}
    BY <2>3 DEF Sound, Replayed
  <2>6. y.twin = b.twin /\ (b.as = "dup" => y.as = "dup")
    BY <2>2
  <2>7. y.as \in {"ocache", "orphan"} => b.as = y.as
    BY <2>2
  <2>8. x.as \in {"cache", "ocache"} => a.as \in {"cache", "ocache"}
    BY <2>1
  <2>. QED  BY <2>4, <2>5, <2>6, <2>7, <2>8
<1>9. Replayed(T)
  BY <1>8 DEF Replayed
<1>. QED  BY <1>2, <1>3, <1>5, <1>6, <1>7, <1>9 DEF Sound

-----------------------------------------------------------------------------
(* What an operation leaves to do.                                           *)

LEMMA LinkedSaving ==
  ASSUME NEW t \in Seq(Steps), Linked(t)
  PROVE  /\ Saving(t, FALSE) /\ ~HasFixed(t)
         /\ t # <<>> => t[1].do # "delete AWCU"
<1>1. Saving(t, FALSE)
  BY DEF Linked, Saving
<1>2. ~HasFixed(t)
  BY DEF Linked, HasFixed
<1>3. t # <<>> => 1 \in 1..Len(t)
  OBVIOUS
<1>4. t # <<>> => t[1].do # "delete AWCU"
  <2>1. ~(1 > 1)
    OBVIOUS
  <2>. QED  BY <1>3, <2>1 DEF Linked
<1>. QED  BY <1>1, <1>2, <1>4

LEMMA SavingTail ==
  ASSUME NEW t \in Seq(Steps), t # <<>>, NEW ex \in BOOLEAN, Saving(t, ex)
  PROVE  Saving(Tail(t), ex)
<1>. DEFINE w == Tail(t)
            n == Len(t)
<1>1. n \in Nat /\ n >= 1 /\ Len(w) = n - 1 /\ \A i \in 1..(n - 1) : w[i] = t[i + 1]
  OBVIOUS
<1>. HIDE DEF w, n
<1>2. ASSUME NEW i \in 1..(n - 1)
      PROVE  /\ w[i].do = "open AWCR" => i < n - 1 /\ w[i + 1].do = "close AWCR"
             /\ w[i].do = "close AWCR" => i < n - 1 /\ w[i + 1].do = "delete AWCU"
             /\ w[i].do = "delete AWCU" =>
                  IF ex THEN i = n - 1 ELSE i < n - 1 /\ w[i + 1].do = "rename"
             /\ w[i].do = "delete AWCU" /\ i > 1 => w[i - 1].do = "close AWCR"
             /\ w[i].do = "fixed" => i = n - 1
             /\ w[i].do # "create AWCU"
  <2>. DEFINE j == i + 1
  <2>1. j \in 1..n /\ w[i] = t[j] /\ (j < n => i < n - 1 /\ w[i + 1] = t[j + 1])
        /\ (i > 1 => w[i - 1] = t[j - 1] /\ j > 1) /\ (j = n => i = n - 1)
    BY <1>1
  <2>. HIDE DEF j
  <2>. QED  BY <2>1 DEF Saving, n
<1>3. Saving(w, ex)
  BY <1>1, <1>2 DEF Saving
<1>. QED  BY <1>3 DEF w

\* A repair ends with its last access.
LEMMA LinkedFixed ==
  ASSUME NEW t \in Seq(Steps), Linked(t), t # <<>>, NEW x \in Steps, x.do = "fixed"
  PROVE  /\ t \o <<x>> \in Seq(Steps) /\ Saving(t \o <<x>>, FALSE) /\ t \o <<x>> # <<>>
         /\ (t \o <<x>>)[1].do # "delete AWCU"
<1>. DEFINE w == Append(t, x)
            n == Len(t)
<1>1. /\ n \in Nat /\ n >= 1 /\ w \in Seq(Steps) /\ Len(w) = n + 1 /\ w[n + 1] = x
      /\ \A i \in 1..n : w[i] = t[i]
  OBVIOUS
<1>. HIDE DEF w, n
<1>2. ASSUME NEW i \in 1..(n + 1)
      PROVE  /\ w[i].do = "open AWCR" => i < n + 1 /\ w[i + 1].do = "close AWCR"
             /\ w[i].do = "close AWCR" => i < n + 1 /\ w[i + 1].do = "delete AWCU"
             /\ w[i].do = "delete AWCU" => i < n + 1 /\ w[i + 1].do = "rename"
             /\ w[i].do = "delete AWCU" /\ i > 1 => w[i - 1].do = "close AWCR"
             /\ w[i].do = "fixed" => i = n + 1
             /\ w[i].do # "create AWCU"
  <2>1. CASE i = n + 1
    BY <1>1, <2>1
  <2>2. CASE i \in 1..n
    <3>1. w[i] = t[i] /\ i < n + 1 /\ (i < n => w[i + 1] = t[i + 1]) /\ (i > 1 => w[i - 1] = t[i - 1])
      BY <1>1, <2>2
    <3>. QED  BY <2>2, <3>1 DEF Linked, n
  <2>3. i \in 1..n \/ i = n + 1
    BY <1>1
  <2>. QED  BY <2>1, <2>2, <2>3
<1>3. Saving(w, FALSE)
  BY <1>1, <1>2 DEF Saving
<1>4. w # <<>> /\ w[1] = t[1] /\ t[1].do # "delete AWCU"
  <2>1. Len(w) # 0 /\ Len(<<>>) = 0 /\ 1 \in 1..n
    BY <1>1
  <2>2. w # <<>> /\ w[1] = t[1]
    BY <1>1, <2>1
  <2>. QED  BY <2>2, LinkedSaving
<1>5. w = t \o <<x>>
  BY AppendConcat DEF w
<1>. QED  BY <1>1, <1>3, <1>4, <1>5

LEMMA OperationKeeps ==
  ASSUME CacheTypes, Registers, phase = "up", todo = <<>>,
         phase' = phase, awcr' = awcr, awcu' = awcu, todo' \in Seq(Steps),
         Saving(todo', FALSE), todo' # <<>> => todo'[1].do # "delete AWCU"
  PROVE  Registers'
<1>1. awcu.there \in BOOLEAN
  BY DEF CacheTypes, Regs
<1>2. awcu.there
  <2>1. ~Starting(todo, awcr.there)
    BY DEF Starting
  <2>. QED  BY <1>1, <2>1 DEF Registers
<1>3. ("up" = "exited") = FALSE
  OBVIOUS
<1>4. Saving(todo', phase' = "exited")
  BY <1>3
<1>. QED  BY <1>2, <1>4 DEF Registers

LEMMA OperationInv ==
  ASSUME CacheInv, phase = "up", todo = <<>>,
         phase' = phase, awcr' = awcr, awcu' = awcu, files' = files,
         now' \in BOOLEAN, crashes' = crashes, faults' = faults,
         cache' \in Seq(Objects), fetching' \subseteq Urls, cachenr' \in 0..MaxNr,
         nradded' \in 0..NRCHKPT, sizeadded' \in 0..CHKAFTER, flushing' \in 0..MaxNr,
         todo' \in Seq(Steps), Linked(todo'), Accounted'
  PROVE  CacheInv'
<1>1. CacheTypes'
  BY DEF CacheInv, CacheTypes
<1>2. Saving(todo', FALSE) /\ ~HasFixed(todo') /\ (todo' # <<>> => todo'[1].do # "delete AWCU")
  BY LinkedSaving
<1>3. Registers'
  BY <1>2, OperationKeeps DEF CacheInv
<1>4. Repairing'
  BY <1>2 DEF Repairing
<1>. QED  BY <1>1, <1>3, <1>4 DEF CacheInv

LEMMA EmptyLinked == <<>> \in Seq(Steps) /\ Linked(<<>>)
<1>1. 1..Len(<<>>) = {}
  OBVIOUS
<1>. QED  BY <1>1 DEF Linked

LEMMA DisposeFacts ==
  ASSUME NEW list \in Seq(Objects), Distinct(list), NEW gone \in SUBSET ToSet(list),
         nradded \in 0..NRCHKPT, cadisksize = SizeOf(list), Dispose(gone, list)
  PROVE  /\ cache' \in Seq(Objects) /\ Distinct(cache') /\ ToSet(cache') = ToSet(list) \ gone
         /\ cadisksize' = SizeOf(cache')
         /\ todo' \in Seq(Steps) /\ Linked(todo') /\ nradded' \in 0..NRCHKPT
         /\ Quiet(todo') /\ Dels(todo') \subseteq Unlinks(todo')
<1>1. IsFiniteSet(gone) /\ gone \in SUBSET Objects
  <2>1. IsFiniteSet(ToSet(list)) /\ ToSet(list) \subseteq Objects
    BY ToSetFinite
  <2>. QED  BY <2>1, FS_Subset
<1>2. SetToSeq(gone) \in Seq(Objects)
  BY <1>1, SetToSeqFacts
<1>3. Tidy(Disposals(SetToSeq(gone), nradded), FilesOf(ToSet(SetToSeq(gone))))
  BY <1>2, DisposalsFacts
<1>. DEFINE d == Disposals(SetToSeq(gone), nradded)
<1>4. /\ cache' = Without(list, gone) /\ cadisksize' = cadisksize - SizeOf(SetToSeq(gone))
      /\ todo' = d.todo /\ nradded' = d.added
  BY DEF Dispose
<1>. HIDE DEF d
<1>5. d.todo \in Seq(Steps) /\ Linked(d.todo) /\ d.added \in 0..NRCHKPT
      /\ Quiet(d.todo) /\ Dels(d.todo) \subseteq Unlinks(d.todo)
  BY <1>3 DEF Tidy, Tidies, Plans, d
<1>6. IsInjective(list)
  BY DistinctFacts
<1>7. /\ Without(list, gone) \in Seq(Objects)
      /\ ToSet(Without(list, gone)) = ToSet(list) \ gone
      /\ Distinct(Without(list, gone))
  BY WithoutFacts, DistinctWithout
<1>8. SizeOf(Without(list, gone)) = SizeOf(list) - SizeOf(SetToSeq(gone))
  BY <1>6, SizeWithout
<1>. QED  BY <1>4, <1>5, <1>7, <1>8

LEMMA FreshFacts ==
  ASSUME CacheTypes, NEW u \in Urls, cachenr < MaxNr
  PROVE  /\ New(Fresh(u), cachenr, u) /\ Fresh(u).as = "cache" /\ Fresh(u).size = 0
         /\ cachenr + 1 \in 0..MaxNr /\ cachenr \in Nat
<1>1. cachenr + 1 \in Nr /\ cachenr + 1 \in 0..MaxNr /\ cachenr \in Nat
  BY CacheAssumption DEF CacheTypes, Nr
<1>2. Fresh(u) = [nr |-> cachenr + 1, twin |-> 0, url |-> u, as |-> "cache", named |-> FALSE,
                  open |-> FALSE, size |-> 0, restored |-> FALSE]
  BY DEF Fresh, Object
<1>3. Fresh(u) \in Objects
  BY <1>1, <1>2 DEF Objects, Roles
<1>. QED  BY <1>1, <1>2, <1>3 DEF New

\* A fresh object joins a list.
LEMMA FreshList ==
  ASSUME NEW l \in Seq(Objects), Distinct(l), NEW n \in Objects, n.size = 0,
         \A x \in ToSet(l) : x.nr # n.nr
  PROVE  /\ Append(l, n) \in Seq(Objects) /\ Distinct(Append(l, n))
         /\ ToSet(Append(l, n)) = ToSet(l) \cup {n} /\ SizeOf(Append(l, n)) = SizeOf(l)
<1>1. Append(l, n) \in Seq(Objects)
  OBVIOUS
<1>2. Distinct(Append(l, n)) /\ ToSet(Append(l, n)) = ToSet(l) \cup {n}
  BY ToSetAppend, DistinctAppend
<1>3. SizeOf(Append(l, n)) = SizeOf(l) + 0 /\ SizeOf(l) \in Nat
  BY SizeAppend, SizeType
<1>. QED  BY <1>1, <1>2, <1>3

LEMMA InvFacts ==
  ASSUME CacheInv
  PROVE  /\ cache \in Seq(Objects) /\ ToSet(cache) \subseteq Objects /\ Distinct(cache)
         /\ Sound(ToSet(cache), cachenr, fetching) /\ cadisksize = SizeOf(cache)
         /\ nradded \in 0..NRCHKPT /\ cachenr \in 0..MaxNr /\ cachenr \in Nat
         /\ fetching \subseteq Urls /\ CacheTypes /\ sizeadded \in 0..CHKAFTER
         /\ flushing \in 0..MaxNr /\ now \in BOOLEAN
<1>1. cache \in Seq(Objects) /\ cachenr \in 0..MaxNr /\ cachenr \in Nat
  BY CacheAssumption DEF CacheInv, CacheTypes
<1>2. ToSet(cache) \subseteq Objects
  BY <1>1, ToSetFinite
<1>. QED  BY <1>1, <1>2 DEF CacheInv, CacheTypes, Accounted

LEMMA LoadInv ==
  ASSUME CacheInv, NEW u \in Urls, Load(u)
  PROVE  CacheInv'
<1>. DEFINE n == Fresh(u)
            S == ToSet(cache)
            list == Append(cache, n)
            gone == Held(u, "cache")
<1>1. /\ Ready /\ u \notin fetching /\ cachenr < MaxNr /\ Dispose(gone, list)
      /\ cachenr' = cachenr + 1 /\ fetching' = fetching \cup {u}
      /\ phase' = phase /\ sizeadded' = sizeadded /\ flushing' = flushing
      /\ awcr' = awcr /\ awcu' = awcu /\ files' = files /\ now' = now
      /\ crashes' = crashes /\ faults' = faults
  BY DEF Load, onDisk
<1>2. /\ cache \in Seq(Objects) /\ S \subseteq Objects /\ Distinct(cache)
      /\ Sound(S, cachenr, fetching) /\ cadisksize = SizeOf(cache)
      /\ nradded \in 0..NRCHKPT /\ cachenr \in Nat /\ CacheTypes
      /\ fetching \subseteq Urls /\ sizeadded \in 0..CHKAFTER /\ flushing \in 0..MaxNr
      /\ now \in BOOLEAN
  BY InvFacts
<1>3. New(n, cachenr, u) /\ n.as = "cache" /\ n.size = 0 /\ cachenr + 1 \in 0..MaxNr
  BY <1>1, <1>2, FreshFacts
<1>. HIDE DEF n
<1>4. n \in Objects /\ \A x \in S : x.nr # n.nr
  BY <1>2, <1>3, NewNumber DEF New
<1>5. /\ list \in Seq(Objects) /\ Distinct(list) /\ ToSet(list) = S \cup {n}
      /\ SizeOf(list) = SizeOf(cache)
  BY <1>2, <1>3, <1>4, FreshList
<1>6. gone \subseteq S /\ \A x \in S : x.url = u /\ x.as = "cache" => x \in gone
  BY DEF Held
<1>. HIDE DEF list, gone, S
<1>7. /\ cache' \in Seq(Objects) /\ Distinct(cache') /\ ToSet(cache') = (S \cup {n}) \ gone
      /\ cadisksize' = SizeOf(cache')
      /\ todo' \in Seq(Steps) /\ Linked(todo') /\ nradded' \in 0..NRCHKPT
  BY <1>1, <1>2, <1>5, <1>6, DisposeFacts
<1>8. Sound(ToSet(cache'), cachenr + 1, fetching \cup {u})
  <2>1. ToSet(cache') \subseteq S \cup {n}
        /\ \A x \in ToSet(cache') : x.url = u /\ x.as = "cache" => x = n
    BY <1>6, <1>7
  <2>. QED  BY <1>1, <1>2, <1>3, <2>1, LoadSound
<1>9. Accounted'
  BY <1>1, <1>7, <1>8 DEF Accounted
<1>10. cachenr' \in 0..MaxNr /\ fetching' \subseteq Urls /\ phase = "up" /\ todo = <<>>
       /\ now' \in BOOLEAN /\ sizeadded' \in 0..CHKAFTER /\ flushing' \in 0..MaxNr
  BY <1>1, <1>2, <1>3 DEF Ready
<1>. QED  BY <1>1, <1>7, <1>9, <1>10, OperationInv

LEMMA LoadHistoryInv ==
  ASSUME CacheInv, NEW u \in Urls, LoadHistory(u)
  PROVE  CacheInv'
<1>. DEFINE n == Fresh(u)
            S == ToSet(cache)
<1>1. /\ Ready /\ u \notin fetching /\ cachenr < MaxNr
      /\ cachenr' = cachenr + 1 /\ fetching' = fetching \cup {u}
      /\ phase' = phase /\ sizeadded' = sizeadded /\ flushing' = flushing
      /\ awcr' = awcr /\ awcu' = awcu /\ files' = files /\ now' = now
      /\ crashes' = crashes /\ faults' = faults /\ todo' = todo
      /\ cadisksize' = cadisksize /\ nradded' = nradded
  BY DEF LoadHistory, onDisk
<1>2. /\ cache \in Seq(Objects) /\ S \subseteq Objects /\ Distinct(cache)
      /\ Sound(S, cachenr, fetching) /\ cadisksize = SizeOf(cache)
      /\ nradded \in 0..NRCHKPT /\ cachenr \in Nat /\ CacheTypes
      /\ fetching \subseteq Urls /\ sizeadded \in 0..CHKAFTER /\ flushing \in 0..MaxNr
      /\ now \in BOOLEAN
  BY InvFacts
<1>3. PICK o \in Held(u, "cache") : cache' = Append(As(cache, o, "orphan"), n)
  BY DEF LoadHistory
<1>4. New(n, cachenr, u) /\ n.as = "cache" /\ n.size = 0 /\ cachenr + 1 \in 0..MaxNr
  BY <1>1, <1>2, FreshFacts
<1>. HIDE DEF n
<1>5. n \in Objects /\ \A x \in S : x.nr # n.nr
  BY <1>2, <1>4, NewNumber DEF New
<1>6. o \in S /\ o \in Objects /\ o.url = u /\ o.as = "cache" /\ "orphan" \in Roles
  BY <1>2 DEF Held, Roles
<1>. DEFINE p == Recast(o, "orphan")
            l == As(cache, o, "orphan")
<1>7. p.nr = o.nr /\ p.twin = o.twin /\ p.url = u /\ p.as = "orphan"
  BY <1>6, RecastFacts
<1>8. /\ l \in Seq(Objects) /\ Distinct(l) /\ ToSet(l) = (S \ {o}) \cup {p}
      /\ SizeOf(l) = SizeOf(cache)
  BY <1>2, <1>6, AsFacts
<1>. HIDE DEF p, l, S
<1>9. \A x \in ToSet(l) : x.nr # n.nr
  BY <1>5, <1>6, <1>7, <1>8
<1>10. /\ Append(l, n) \in Seq(Objects) /\ Distinct(Append(l, n))
       /\ ToSet(Append(l, n)) = ToSet(l) \cup {n} /\ SizeOf(Append(l, n)) = SizeOf(l)
  BY <1>4, <1>5, <1>8, <1>9, FreshList
<1>11. cache' = Append(l, n)
  BY <1>3 DEF l
<1>12. Sound(((S \ {o}) \cup {p}) \cup {n}, cachenr + 1, fetching \cup {u})
  BY <1>1, <1>2, <1>4, <1>6, <1>7, HistorySound
<1>13. Accounted'
  BY <1>1, <1>2, <1>8, <1>10, <1>11, <1>12 DEF Accounted
<1>14. cachenr' \in 0..MaxNr /\ fetching' \subseteq Urls /\ phase = "up" /\ todo = <<>>
       /\ now' \in BOOLEAN /\ sizeadded' \in 0..CHKAFTER /\ flushing' \in 0..MaxNr
       /\ nradded' \in 0..NRCHKPT /\ todo' \in Seq(Steps) /\ Linked(todo')
       /\ cache' \in Seq(Objects)
  BY <1>1, <1>2, <1>4, <1>10, <1>11, EmptyLinked DEF Ready
<1>. QED  BY <1>1, <1>13, <1>14, OperationInv

LEMMA ReloadInv ==
  ASSUME CacheInv, NEW u \in Urls, Reload(u)
  PROVE  CacheInv'
<1>. DEFINE n == Fresh(u)
            S == ToSet(cache)
            gone == Held(u, "ocache") \cup Held(u, "vcache")
<1>1. /\ Ready /\ cachenr < MaxNr
      /\ cachenr' = cachenr + 1 /\ fetching' = fetching \cup {u}
      /\ phase' = phase /\ sizeadded' = sizeadded /\ flushing' = flushing
      /\ awcr' = awcr /\ awcu' = awcu /\ files' = files /\ now' = now
      /\ crashes' = crashes /\ faults' = faults
  BY DEF Reload, onDisk
<1>2. /\ cache \in Seq(Objects) /\ S \subseteq Objects /\ Distinct(cache)
      /\ Sound(S, cachenr, fetching) /\ cadisksize = SizeOf(cache)
      /\ nradded \in 0..NRCHKPT /\ cachenr \in Nat /\ CacheTypes
      /\ fetching \subseteq Urls /\ sizeadded \in 0..CHKAFTER /\ flushing \in 0..MaxNr
      /\ now \in BOOLEAN
  BY InvFacts
<1>3. PICK o \in Held(u, "cache") : Dispose(gone, Append(As(cache, o, "ocache"), n))
  BY DEF Reload
<1>4. New(n, cachenr, u) /\ n.as = "cache" /\ n.size = 0 /\ cachenr + 1 \in 0..MaxNr
  BY <1>1, <1>2, FreshFacts
<1>. HIDE DEF n
<1>5. n \in Objects /\ \A x \in S : x.nr # n.nr
  BY <1>2, <1>4, NewNumber DEF New
<1>6. o \in S /\ o \in Objects /\ o.url = u /\ o.as = "cache" /\ "ocache" \in Roles
  BY <1>2 DEF Held, Roles
<1>. DEFINE p == Recast(o, "ocache")
            l == As(cache, o, "ocache")
            list == Append(l, n)
<1>7. p.nr = o.nr /\ p.twin = o.twin /\ p.url = u /\ p.as = "ocache"
  BY <1>6, RecastFacts
<1>8. /\ l \in Seq(Objects) /\ Distinct(l) /\ ToSet(l) = (S \ {o}) \cup {p}
      /\ SizeOf(l) = SizeOf(cache)
  BY <1>2, <1>6, AsFacts
<1>9. gone \subseteq S /\ o \notin gone
      /\ \A x \in S : x.url = u /\ x.as \in {"ocache", "vcache"} => x \in gone
  BY <1>6 DEF Held
<1>. HIDE DEF p, l, S, gone
<1>10. \A x \in ToSet(l) : x.nr # n.nr
  BY <1>5, <1>6, <1>7, <1>8
<1>11. /\ list \in Seq(Objects) /\ Distinct(list)
       /\ ToSet(list) = ((S \ {o}) \cup {p}) \cup {n} /\ SizeOf(list) = SizeOf(cache)
  BY <1>4, <1>5, <1>8, <1>10, FreshList
<1>12. Dispose(gone, list) /\ gone \subseteq ToSet(list)
  BY <1>3, <1>9, <1>11 DEF l
<1>. HIDE DEF list
<1>13. /\ cache' \in Seq(Objects) /\ Distinct(cache')
       /\ ToSet(cache') = (((S \ {o}) \cup {p}) \cup {n}) \ gone
       /\ cadisksize' = SizeOf(cache')
       /\ todo' \in Seq(Steps) /\ Linked(todo') /\ nradded' \in 0..NRCHKPT
  BY <1>2, <1>11, <1>12, DisposeFacts
<1>14. Sound(ToSet(cache'), cachenr + 1, fetching \cup {u})
  <2>1. /\ ToSet(cache') \subseteq ((S \ {o}) \cup {p}) \cup {n}
        /\ \A x \in ToSet(cache') : x.url = u /\ x.as \in {"ocache", "vcache"} => x = p
    BY <1>4, <1>9, <1>13
  <2>. QED  BY <1>1, <1>2, <1>4, <1>6, <1>7, <2>1, ReloadSound
<1>15. Accounted'
  BY <1>1, <1>13, <1>14 DEF Accounted
<1>16. cachenr' \in 0..MaxNr /\ fetching' \subseteq Urls /\ phase = "up" /\ todo = <<>>
       /\ now' \in BOOLEAN /\ sizeadded' \in 0..CHKAFTER /\ flushing' \in 0..MaxNr
  BY <1>1, <1>2, <1>4 DEF Ready
<1>. QED  BY <1>1, <1>13, <1>15, <1>16, OperationInv

LEMMA VerifyInv ==
  ASSUME CacheInv, NEW u \in Urls, Verify(u)
  PROVE  CacheInv'
<1>. DEFINE f == Fresh(u)
            n == Recast(f, "vcache")
            S == ToSet(cache)
<1>1. /\ Ready /\ u \notin fetching /\ cachenr < MaxNr /\ cache' = Append(cache, n)
      /\ cachenr' = cachenr + 1 /\ fetching' = fetching \cup {u}
      /\ phase' = phase /\ sizeadded' = sizeadded /\ flushing' = flushing
      /\ awcr' = awcr /\ awcu' = awcu /\ files' = files /\ now' = now
      /\ crashes' = crashes /\ faults' = faults /\ todo' = todo
      /\ cadisksize' = cadisksize /\ nradded' = nradded
  BY DEF Verify, onDisk, Recast
<1>2. /\ cache \in Seq(Objects) /\ S \subseteq Objects /\ Distinct(cache)
      /\ Sound(S, cachenr, fetching) /\ cadisksize = SizeOf(cache)
      /\ nradded \in 0..NRCHKPT /\ cachenr \in Nat /\ CacheTypes
      /\ fetching \subseteq Urls /\ sizeadded \in 0..CHKAFTER /\ flushing \in 0..MaxNr
      /\ now \in BOOLEAN
  BY InvFacts
<1>3. New(f, cachenr, u) /\ f.size = 0 /\ cachenr + 1 \in 0..MaxNr
  BY <1>1, <1>2, FreshFacts
<1>. HIDE DEF f
<1>4. New(n, cachenr, u) /\ n.as = "vcache" /\ n.size = 0
  <2>1. f \in Objects /\ "vcache" \in Roles
    BY <1>3 DEF New, Roles
  <2>2. /\ n \in Objects /\ n.nr = f.nr /\ n.twin = f.twin /\ n.url = f.url
        /\ n.as = "vcache" /\ n.named = f.named /\ n.size = f.size
    BY <2>1, RecastFacts
  <2>. HIDE DEF n
  <2>. QED  BY <1>3, <2>2 DEF New
<1>. HIDE DEF n
<1>5. n \in Objects /\ \A x \in S : x.nr # n.nr
  BY <1>2, <1>4, NewNumber DEF New
<1>6. /\ Append(cache, n) \in Seq(Objects) /\ Distinct(Append(cache, n))
      /\ ToSet(Append(cache, n)) = S \cup {n} /\ SizeOf(Append(cache, n)) = SizeOf(cache)
  BY <1>2, <1>4, <1>5, FreshList
<1>. HIDE DEF S
<1>7. Sound(S \cup {n}, cachenr + 1, fetching \cup {u})
  BY <1>1, <1>2, <1>4, VerifySound
<1>8. Accounted'
  BY <1>1, <1>2, <1>6, <1>7 DEF Accounted
<1>9. cachenr' \in 0..MaxNr /\ fetching' \subseteq Urls /\ phase = "up" /\ todo = <<>>
       /\ now' \in BOOLEAN /\ sizeadded' \in 0..CHKAFTER /\ flushing' \in 0..MaxNr
       /\ nradded' \in 0..NRCHKPT /\ todo' \in Seq(Steps) /\ Linked(todo')
       /\ cache' \in Seq(Objects)
  BY <1>1, <1>2, <1>3, <1>6, EmptyLinked DEF Ready
<1>. QED  BY <1>1, <1>8, <1>9, OperationInv

LEMMA VerifyModifiedInv ==
  ASSUME CacheInv, NEW u \in Urls, VerifyModified(u)
  PROVE  CacheInv'
<1>. DEFINE S == ToSet(cache)
            gone == Held(u, "cache")
<1>1. /\ Ready /\ fetching' = fetching /\ cachenr' = cachenr
      /\ phase' = phase /\ sizeadded' = sizeadded /\ flushing' = flushing
      /\ awcr' = awcr /\ awcu' = awcu /\ files' = files /\ now' = now
      /\ crashes' = crashes /\ faults' = faults
  BY DEF VerifyModified, onDisk
<1>2. /\ cache \in Seq(Objects) /\ S \subseteq Objects /\ Distinct(cache)
      /\ Sound(S, cachenr, fetching) /\ cadisksize = SizeOf(cache)
      /\ nradded \in 0..NRCHKPT /\ cachenr \in 0..MaxNr
      /\ fetching \subseteq Urls /\ sizeadded \in 0..CHKAFTER /\ flushing \in 0..MaxNr
      /\ now \in BOOLEAN
  BY InvFacts
<1>3. PICK o \in Held(u, "vcache") : Dispose(gone, As(cache, o, "cache"))
  BY DEF VerifyModified
<1>4. o \in S /\ o \in Objects /\ o.url = u /\ o.as = "vcache" /\ "cache" \in Roles
  BY <1>2 DEF Held, Roles
<1>. DEFINE p == Recast(o, "cache")
            l == As(cache, o, "cache")
<1>5. p.nr = o.nr /\ p.twin = o.twin /\ p.url = u /\ p.as = "cache"
  BY <1>4, RecastFacts
<1>6. /\ l \in Seq(Objects) /\ Distinct(l) /\ ToSet(l) = (S \ {o}) \cup {p}
      /\ SizeOf(l) = SizeOf(cache)
  BY <1>2, <1>4, AsFacts
<1>7. gone \subseteq S /\ o \notin gone /\ \A x \in S : x.url = u /\ x.as = "cache" => x \in gone
  BY <1>4 DEF Held
<1>8. Dispose(gone, l)
  BY <1>3
<1>. HIDE DEF p, l, S, gone
<1>9. gone \subseteq ToSet(l)
  BY <1>6, <1>7
<1>10. /\ cache' \in Seq(Objects) /\ Distinct(cache')
       /\ ToSet(cache') = ((S \ {o}) \cup {p}) \ gone
       /\ cadisksize' = SizeOf(cache')
       /\ todo' \in Seq(Steps) /\ Linked(todo') /\ nradded' \in 0..NRCHKPT
  BY <1>2, <1>6, <1>8, <1>9, DisposeFacts
<1>11. Sound(ToSet(cache'), cachenr, fetching)
  <2>1. /\ ToSet(cache') \subseteq (S \ {o}) \cup {p}
        /\ \A x \in ToSet(cache') : x.url = u /\ x.as = "cache" => x = p
    BY <1>7, <1>10
  <2>. QED  BY <1>2, <1>4, <1>5, <2>1, ModifiedSound
<1>12. Accounted'
  BY <1>1, <1>10, <1>11 DEF Accounted
<1>13. cachenr' \in 0..MaxNr /\ fetching' \subseteq Urls /\ phase = "up" /\ todo = <<>>
       /\ now' \in BOOLEAN /\ sizeadded' \in 0..CHKAFTER /\ flushing' \in 0..MaxNr
  BY <1>1, <1>2 DEF Ready
<1>. QED  BY <1>1, <1>10, <1>12, <1>13, OperationInv

\* Objects go, and nothing else changes but what is being fetched.
LEMMA GoneInv ==
  ASSUME CacheInv, phase = "up", todo = <<>>,
         NEW gone \in SUBSET ToSet(cache), Dispose(gone, cache), cachenr' = cachenr,
         phase' = phase, awcr' = awcr, awcu' = awcu, files' = files, now' = now,
         crashes' = crashes, faults' = faults, fetching' \subseteq fetching,
         sizeadded' \in 0..CHKAFTER, flushing' \in 0..MaxNr,
         \A x \in ToSet(cache) \ gone : x.as \in {"vcache", "ocache"} => x.url \in fetching'
  PROVE  CacheInv'
<1>. DEFINE S == ToSet(cache)
<1>1. /\ cache \in Seq(Objects) /\ S \subseteq Objects /\ Distinct(cache)
      /\ Sound(S, cachenr, fetching) /\ cadisksize = SizeOf(cache)
      /\ nradded \in 0..NRCHKPT /\ cachenr \in 0..MaxNr
      /\ fetching \subseteq Urls /\ now \in BOOLEAN
  BY InvFacts
<1>2. /\ cache' \in Seq(Objects) /\ Distinct(cache') /\ ToSet(cache') = S \ gone
      /\ cadisksize' = SizeOf(cache')
      /\ todo' \in Seq(Steps) /\ Linked(todo') /\ nradded' \in 0..NRCHKPT
  BY <1>1, DisposeFacts
<1>. HIDE DEF S
<1>3. Sound(ToSet(cache'), cachenr, fetching')
  <2>1. ToSet(cache') \subseteq S
        /\ \A x \in ToSet(cache') : x.as \in {"vcache", "ocache"} => x.url \in fetching'
    BY <1>2 DEF S
  <2>. QED  BY <1>1, <2>1, SoundSubset
<1>4. Accounted'
  BY <1>2, <1>3 DEF Accounted
<1>. QED  BY <1>1, <1>2, <1>4, OperationInv

LEMMA RolesHeld ==
  ASSUME CacheInv
  PROVE  \A x \in ToSet(cache) : x.as \in {"vcache", "ocache"} => x.url \in fetching
BY InvFacts DEF Sound, Verifying, Reloading

LEMMA VerifyEndsInv ==
  ASSUME CacheInv, NEW u \in Urls, VerifyEnds(u)
  PROVE  CacheInv'
<1>1. /\ Ready /\ Held(u, "vcache") # {} /\ Dispose(Held(u, "vcache"), cache)
      /\ fetching' = fetching \ {u} /\ cachenr' = cachenr
      /\ phase' = phase /\ sizeadded' = sizeadded /\ flushing' = flushing
      /\ awcr' = awcr /\ awcu' = awcu /\ files' = files /\ now' = now
      /\ crashes' = crashes /\ faults' = faults
  BY DEF VerifyEnds, onDisk
<1>2. sizeadded \in 0..CHKAFTER /\ flushing \in 0..MaxNr /\ Held(u, "vcache") \subseteq ToSet(cache)
  BY InvFacts DEF Held
<1>3. Reloading(ToSet(cache), fetching)
  BY InvFacts DEF Sound
<1>4. \A x \in ToSet(cache) \ Held(u, "vcache") :
        x.as \in {"vcache", "ocache"} => x.url \in fetching'
  BY <1>1, <1>3, RolesHeld DEF Held, Reloading
<1>. QED  BY <1>1, <1>2, <1>4, GoneInv DEF Ready

LEMMA DeleteCacheInv ==
  ASSUME CacheInv, NEW u \in Urls, DeleteCache(u)
  PROVE  CacheInv'
<1>1. /\ Ready /\ Dispose(Held(u, "cache"), cache)
      /\ fetching' = fetching /\ cachenr' = cachenr
      /\ phase' = phase /\ sizeadded' = sizeadded /\ flushing' = flushing
      /\ awcr' = awcr /\ awcu' = awcu /\ files' = files /\ now' = now
      /\ crashes' = crashes /\ faults' = faults
  BY DEF DeleteCache, onDisk
<1>2. sizeadded \in 0..CHKAFTER /\ flushing \in 0..MaxNr /\ Held(u, "cache") \subseteq ToSet(cache)
  BY InvFacts DEF Held
<1>. QED  BY <1>1, <1>2, RolesHeld, GoneInv DEF Ready

LEMMA DupcheckInv ==
  ASSUME CacheInv, NEW u \in Urls, Dupcheck(u)
  PROVE  CacheInv'
<1>1. /\ Ready /\ Dispose(Held(u, "dup"), cache)
      /\ fetching' = fetching /\ cachenr' = cachenr
      /\ phase' = phase /\ sizeadded' = sizeadded /\ flushing' = flushing
      /\ awcr' = awcr /\ awcu' = awcu /\ files' = files /\ now' = now
      /\ crashes' = crashes /\ faults' = faults
  BY DEF Dupcheck, onDisk
<1>2. sizeadded \in 0..CHKAFTER /\ flushing \in 0..MaxNr /\ Held(u, "dup") \subseteq ToSet(cache)
  BY InvFacts DEF Held
<1>. QED  BY <1>1, <1>2, RolesHeld, GoneInv DEF Ready

\* The first object of a list that is not empty.
LEMMA FirstFacts ==
  ASSUME NEW l \in Seq(Objects), NEW o \in ToSet(l)
  PROVE  l[1].nr \in 0..MaxNr
<1>1. Len(l) \in Nat /\ DOMAIN l = 1..Len(l) /\ l \in [1..Len(l) -> Objects]
  OBVIOUS
<1>2. PICK i \in 1..Len(l) : l[i] = o
  BY <1>1 DEF ToSet
<1>3. 1 \in 1..Len(l)
  BY <1>1, <1>2
<1>4. l[1] \in Objects
  BY <1>1, <1>3
<1>. QED  BY <1>4, CacheAssumption DEF Objects, Nr

\* The object with one more unit of data.
Grown(o) == [o EXCEPT !.named = TRUE, !.open = TRUE, !.size = @ + 1]

LEMMA GrownFacts ==
  ASSUME NEW o \in Objects
  PROVE  /\ Grown(o) \in Objects /\ Grown(o).nr = o.nr /\ Grown(o).twin = o.twin
         /\ Grown(o).url = o.url /\ Grown(o).as = o.as /\ Grown(o).size = o.size + 1
         /\ Grown(o).open /\ Grown(o).named
<1>. DEFINE s == o.size + 1
<1>1. s \in Nat
  BY DEF Objects
<1>2. Grown(o) = [o EXCEPT !.named = TRUE, !.open = TRUE, !.size = s]
  BY DEF Grown
<1>. HIDE DEF s
<1>3. /\ Grown(o) \in Objects /\ Grown(o).nr = o.nr /\ Grown(o).twin = o.twin
      /\ Grown(o).url = o.url /\ Grown(o).as = o.as /\ Grown(o).size = s
      /\ Grown(o).open /\ Grown(o).named
  BY <1>1, <1>2 DEF Objects
<1>. QED  BY <1>3 DEF s

LEMMA DataInv ==
  ASSUME CacheInv, NEW u \in Urls, Data(u)
  PROVE  CacheInv'
<1>. DEFINE S == ToSet(cache)
<1>1. /\ Ready /\ fetching' = fetching /\ cachenr' = cachenr /\ nradded' = nradded
      /\ cadisksize' = cadisksize + 1
      /\ phase' = phase /\ awcr' = awcr /\ awcu' = awcu /\ files' = files /\ now' = now
      /\ crashes' = crashes /\ faults' = faults
  BY DEF Data, onDisk
<1>2. /\ cache \in Seq(Objects) /\ S \subseteq Objects /\ Distinct(cache)
      /\ Sound(S, cachenr, fetching) /\ cadisksize = SizeOf(cache)
      /\ nradded \in 0..NRCHKPT /\ cachenr \in 0..MaxNr
      /\ fetching \subseteq Urls /\ sizeadded \in 0..CHKAFTER /\ flushing \in 0..MaxNr
      /\ now \in BOOLEAN
  BY InvFacts
<1>3. PICK o \in Held(u, "cache") :
        /\ cache' = [i \in 1..Len(cache) |-> IF cache[i] = o THEN Grown(o) ELSE cache[i]]
        /\ todo' = IF o.named THEN <<>> ELSE <<[do |-> "create", nr |-> o.nr]>>
  BY DEF Data, Grown
<1>4. o \in S /\ o \in Objects /\ o.url = u /\ o.as = "cache"
  BY <1>2 DEF Held
<1>5. /\ Grown(o) \in Objects /\ Grown(o).nr = o.nr /\ Grown(o).twin = o.twin
      /\ Grown(o).url = o.url /\ Grown(o).as = o.as /\ Grown(o).size = o.size + 1
  BY <1>4, GrownFacts
<1>. DEFINE f == [x \in S |-> IF x = o THEN Grown(o) ELSE x]
<1>6. \A x \in S : f[x] = IF x = o THEN Grown(o) ELSE x
  OBVIOUS
<1>. HIDE DEF f
<1>7. IsMapped(cache', cache, f)
  <2>1. \A i \in 1..Len(cache) : cache[i] \in S
    <3>1. DOMAIN cache = 1..Len(cache)
      BY <1>2
    <3>. QED  BY <3>1 DEF ToSet
  <2>. HIDE DEF S
  <2>. QED  BY <1>3, <1>6, <2>1 DEF IsMapped
<1>8. Renews(f, S)
  BY <1>2, <1>5, <1>6 DEF Renews
<1>9. /\ cache' \in Seq(Objects) /\ Distinct(cache') /\ ToSet(cache') = {f[x] : x \in S}
      /\ Len(cache') = Len(cache)
      /\ \A i \in 1..Len(cache) : cache[i] \in S /\ cache'[i] = f[cache[i]]
  BY <1>2, <1>7, <1>8, MapFacts
<1>10. PICK p \in 1..Len(cache) : cache[p] = o
  <2>1. DOMAIN cache = 1..Len(cache)
    BY <1>2
  <2>. QED  BY <1>4, <2>1 DEF ToSet
<1>11. ASSUME NEW i \in 1..Len(cache), i # p  PROVE cache'[i].size = cache[i].size
  <2>1. cache[i] # o
    BY <1>2, <1>10, <1>11 DEF Distinct
  <2>. QED  BY <1>6, <1>9, <2>1
<1>12. cache'[p].size = cache[p].size + 1
  BY <1>5, <1>6, <1>9, <1>10
<1>. HIDE DEF S
<1>13. SizeOf(cache') = SizeOf(cache) + 1
  BY <1>2, <1>9, <1>11, <1>12, SizeGrow
<1>14. Sound(ToSet(cache'), cachenr, fetching)
  <2>1. \A x \in S : /\ f[x].nr = x.nr /\ f[x].twin = x.twin /\ f[x].url = x.url
                     /\ f[x].as = x.as /\ (x.as = "vcache" => f[x].named = x.named)
    BY <1>4, <1>5, <1>6
  <2>2. Sound({f[x] : x \in S}, cachenr, fetching)
    BY <1>2, <2>1, ChangedSound
  <2>. QED  BY <1>9, <2>2
<1>15. Accounted'
  BY <1>1, <1>2, <1>9, <1>13, <1>14 DEF Accounted
<1>16. todo' \in Seq(Steps) /\ Linked(todo')
  <2>. DEFINE x == [do |-> "create", nr |-> o.nr]
  <2>1. Simple(x)
    BY <1>4 DEF Simple, Steps, Objects
  <2>2. todo' = IF o.named THEN <<>> ELSE <<x>>
    BY <1>3
  <2>. HIDE DEF x
  <2>. QED  BY <2>1, <2>2, OneStep, EmptyLinked
<1>17. sizeadded' \in 0..CHKAFTER /\ flushing' \in 0..MaxNr
  <2>1. cache[1].nr \in 0..MaxNr
    BY <1>2, <1>4, FirstFacts DEF S
  <2>2. IF sizeadded + 1 > CHKAFTER
        THEN sizeadded' = 0 /\ flushing' = cache[1].nr
        ELSE sizeadded' = sizeadded + 1 /\ flushing' = flushing
    BY DEF Data
  <2>3. CHKAFTER \in Nat
    BY CacheAssumption
  <2>. QED  BY <1>2, <2>1, <2>2, <2>3
<1>. QED  BY <1>1, <1>2, <1>9, <1>15, <1>16, <1>17, OperationInv DEF Ready

\* The copy that a failed reload puts back.
Putback(o) == [o EXCEPT !.as = "cache", !.restored = TRUE]

LEMMA PutbackFacts ==
  ASSUME NEW o \in Objects
  PROVE  /\ Putback(o) \in Objects /\ Putback(o).nr = o.nr /\ Putback(o).twin = o.twin
         /\ Putback(o).url = o.url /\ Putback(o).as = "cache" /\ Putback(o).size = o.size
         /\ Putback(o).named = o.named /\ Putback(o).open = o.open /\ Putback(o).restored
BY DEF Putback, Objects, Roles

LEMMA FetchErrorInv ==
  ASSUME CacheInv, NEW u \in Urls, FetchError(u)
  PROVE  CacheInv'
<1>. DEFINE S == ToSet(cache)
            old == Held(u, "ocache")
            gone == Held(u, "cache")
            f == [x \in S |-> IF x \in old THEN Putback(x) ELSE x]
            k == [i \in 1..Len(cache) |-> IF cache[i] \in old THEN Putback(cache[i]) ELSE cache[i]]
<1>1. /\ Ready /\ fetching' = fetching /\ cachenr' = cachenr
      /\ phase' = phase /\ sizeadded' = sizeadded /\ flushing' = flushing
      /\ awcr' = awcr /\ awcu' = awcu /\ files' = files /\ now' = now
      /\ crashes' = crashes /\ faults' = faults /\ Dispose(gone, k)
  BY DEF FetchError, onDisk, Putback
<1>2. /\ cache \in Seq(Objects) /\ S \subseteq Objects /\ Distinct(cache)
      /\ Sound(S, cachenr, fetching) /\ cadisksize = SizeOf(cache)
      /\ nradded \in 0..NRCHKPT /\ cachenr \in 0..MaxNr
      /\ fetching \subseteq Urls /\ sizeadded \in 0..CHKAFTER /\ flushing \in 0..MaxNr
      /\ now \in BOOLEAN
  BY InvFacts
<1>3. \A x \in S : f[x] = IF x \in old THEN Putback(x) ELSE x
  OBVIOUS
<1>4. \A x \in S : (x \in old <=> x.url = u /\ x.as = "ocache")
                   /\ (x \in gone <=> x.url = u /\ x.as = "cache")
  BY DEF Held
<1>5. gone \subseteq S
  BY DEF Held
<1>6. \A i \in 1..Len(cache) : cache[i] \in S
  <2>1. DOMAIN cache = 1..Len(cache)
    BY <1>2
  <2>. QED  BY <2>1 DEF ToSet
<1>7. k = [i \in 1..Len(cache) |-> IF cache[i] \in old THEN Putback(cache[i]) ELSE cache[i]]
  OBVIOUS
<1>. HIDE DEF f, k, S, old, gone
<1>8. IsMapped(k, cache, f)
  BY <1>3, <1>6, <1>7 DEF IsMapped
<1>9. \A x \in S : /\ f[x] \in Objects /\ f[x].nr = x.nr /\ f[x].twin = x.twin /\ f[x].url = x.url
                   /\ f[x].size = x.size
                   /\ IF x \in old THEN f[x].as = "cache" ELSE f[x] = x
  BY <1>2, <1>3, PutbackFacts
<1>10. Renews(f, S)
  BY <1>9 DEF Renews
<1>11. /\ k \in Seq(Objects) /\ Distinct(k) /\ ToSet(k) = {f[x] : x \in S}
       /\ SizeOf(k) = SizeOf(cache)
  BY <1>2, <1>8, <1>9, <1>10, MapFacts DEF S
<1>12. \A x \in gone : f[x] = x
  BY <1>4, <1>5, <1>9
<1>13. gone \subseteq ToSet(k)
  BY <1>5, <1>11, <1>12
<1>14. /\ cache' \in Seq(Objects) /\ Distinct(cache') /\ ToSet(cache') = ToSet(k) \ gone
       /\ cadisksize' = SizeOf(cache')
       /\ todo' \in Seq(Steps) /\ Linked(todo') /\ nradded' \in 0..NRCHKPT
  BY <1>1, <1>2, <1>11, <1>13, DisposeFacts
<1>15. Sound(ToSet(cache'), cachenr, fetching)
  <2>1. Restores(f, S, u)
    BY <1>4, <1>9 DEF Restores
  <2>2. Outlives(ToSet(cache'), f, S, u)
    BY <1>4, <1>11, <1>12, <1>14 DEF Outlives
  <2>. QED  BY <1>2, <2>1, <2>2, ErrorSound
<1>16. Accounted'
  BY <1>1, <1>14, <1>15 DEF Accounted
<1>. QED  BY <1>1, <1>2, <1>14, <1>16, OperationInv DEF Ready

\* An object that is taken from its place and put at the end.
LEMMA TouchFacts ==
  ASSUME NEW l \in Seq(Objects), Distinct(l), NEW o \in ToSet(l),
         NEW k, k = Append(Without(l, {o}), o)
  PROVE  /\ k \in Seq(Objects) /\ Distinct(k) /\ ToSet(k) = ToSet(l)
         /\ SizeOf(k) = SizeOf(l)
<1>. DEFINE w == Without(l, {o})
<1>1. o \in Objects /\ IsInjective(l) /\ Apart(ToSet(l))
  BY ToSetFinite, DistinctFacts
<1>2. w \in Seq(Objects) /\ ToSet(w) = ToSet(l) \ {o} /\ Distinct(w)
  BY WithoutFacts, DistinctWithout
<1>. HIDE DEF w
<1>3. \A x \in ToSet(w) : x.nr # o.nr \/ x.twin # o.twin
  BY <1>1, <1>2 DEF Apart
<1>4. k = Append(w, o) /\ k \in Seq(Objects)
  BY <1>1, <1>2 DEF w
<1>5. Distinct(k) /\ ToSet(k) = ToSet(w) \cup {o}
  <2>1. Distinct(Append(w, o))
    BY <1>1, <1>2, <1>3, DistinctAppend
  <2>2. ToSet(Append(w, o)) = ToSet(w) \cup {o}
    BY <1>1, <1>2, ToSetAppend
  <2>. QED  BY <1>4, <2>1, <2>2
<1>6. ToSet(k) = ToSet(l)
  BY <1>2, <1>5
<1>7. IsInjective(k)
  BY <1>4, <1>5, DistinctFacts
<1>8. SizeOf(k) = Cardinality(Units(ToSet(k))) /\ SizeOf(l) = Cardinality(Units(ToSet(l)))
  BY <1>1, <1>4, <1>7, SizeUnits
<1>. QED  BY <1>4, <1>5, <1>6, <1>8

LEMMA TouchInv ==
  ASSUME CacheInv, NEW u \in Urls, Touch(u)
  PROVE  CacheInv'
<1>1. /\ Ready /\ fetching' = fetching /\ cachenr' = cachenr /\ nradded' = nradded
      /\ cadisksize' = cadisksize /\ todo' = todo
      /\ phase' = phase /\ sizeadded' = sizeadded /\ flushing' = flushing
      /\ awcr' = awcr /\ awcu' = awcu /\ files' = files /\ now' = now
      /\ crashes' = crashes /\ faults' = faults
  BY DEF Touch, onDisk
<1>2. PICK o \in ToSet(cache) : cache' = Append(Without(cache, {o}), o)
  BY DEF Touch, Held
<1>3. /\ cache' \in Seq(Objects) /\ Distinct(cache') /\ ToSet(cache') = ToSet(cache)
      /\ SizeOf(cache') = SizeOf(cache)
  BY <1>2, InvFacts, TouchFacts
<1>4. Accounted'
  BY <1>1, <1>3 DEF CacheInv, Accounted
<1>. QED  BY <1>1, <1>3, <1>4, InvFacts, EmptyLinked, OperationInv DEF Ready

LEMMA ExpiryPassesInv ==
  ASSUME CacheInv, ExpiryPasses
  PROVE  CacheInv'
<1>1. /\ Ready /\ fetching' = fetching /\ cachenr' = cachenr /\ nradded' = nradded
      /\ cache' = cache /\ cadisksize' = cadisksize /\ todo' = todo
      /\ phase' = phase /\ sizeadded' = sizeadded /\ flushing' = flushing
      /\ awcr' = awcr /\ awcu' = awcu /\ files' = files /\ now' = TRUE
      /\ crashes' = crashes /\ faults' = faults
  BY DEF ExpiryPasses, onDisk, memory
<1>2. Accounted'
  BY <1>1 DEF CacheInv, Accounted
<1>. QED  BY <1>1, <1>2, InvFacts, EmptyLinked, OperationInv DEF Ready

LEMMA ReadyRegisters ==
  ASSUME CacheInv, phase = "up", todo = <<>>
  PROVE  awcu.there /\ awcu \in Regs /\ awcr \in Regs
<1>1. awcu \in Regs /\ awcr \in Regs /\ awcu.there \in BOOLEAN
  BY DEF CacheInv, CacheTypes, Regs
<1>2. ~Starting(todo, awcr.there)
  BY DEF Starting
<1>. QED  BY <1>1, <1>2 DEF CacheInv, Registers

\* What Exitcache() does to the disk.
Exiting == <<[do |-> "open AWCR"], [do |-> "close AWCR"], [do |-> "delete AWCU"]>>

LEMMA ExitSaves ==
  /\ Exiting \in Seq(Steps) /\ Saving(Exiting, TRUE) /\ ~HasFixed(Exiting)
  /\ Exiting[1].do = "open AWCR" /\ Quiet(Exiting) /\ Dels(Exiting) = {}
<1>. DEFINE t == Exiting
            a == [do |-> "open AWCR"]
            b == [do |-> "close AWCR"]
            c == [do |-> "delete AWCU"]
<1>1. a \in [do : Accesses] /\ b \in [do : Accesses] /\ c \in [do : Accesses]
  BY DEF Accesses
<1>2. a \in Steps /\ b \in Steps /\ c \in Steps
  <2>. HIDE DEF a, b, c
  <2>. QED  BY <1>1 DEF Steps
<1>3. a.do = "open AWCR" /\ b.do = "close AWCR" /\ c.do = "delete AWCU"
  OBVIOUS
<1>4. t = <<a, b, c>>
  BY DEF Exiting
<1>. HIDE DEF a, b, c, t
<1>5. t \in Seq(Steps) /\ Len(t) = 3 /\ t[1] = a /\ t[2] = b /\ t[3] = c
  BY <1>2, <1>4
<1>6. \A i \in 1..3 : i = 1 \/ i = 2 \/ i = 3
  OBVIOUS
<1>7. 1 < 3 /\ 2 < 3 /\ 1 + 1 = 2 /\ 2 + 1 = 3 /\ 3 - 1 = 2
  OBVIOUS
<1>8. Saving(t, TRUE)
  BY <1>3, <1>5, <1>6, <1>7 DEF Saving
<1>9. ~HasFixed(t)
  BY <1>3, <1>5, <1>6 DEF HasFixed
<1>10. Quiet(t)
  BY <1>3, <1>5, <1>6 DEF Quiet
<1>11. Dels(t) = {}
  <2>1. DOMAIN t = 1..3
    BY <1>5
  <2>2. ~Removing(a) /\ ~Removing(b) /\ ~Removing(c)
    BY <1>3 DEF Removing
  <2>3. \A i \in 1..3 : ~Removing(t[i])
    BY <1>5, <1>6, <2>2
  <2>. QED  BY <2>1, <2>3 DEF ToSet, Dels
<1>. QED  BY <1>3, <1>5, <1>8, <1>9, <1>10, <1>11 DEF t

LEMMA ExitcacheInv ==
  ASSUME CacheInv, Exitcache
  PROVE  CacheInv'
<1>1. /\ phase = "up" /\ todo = <<>> /\ phase' = "exited"
      /\ cache' = cache /\ fetching' = fetching /\ cachenr' = cachenr
      /\ cadisksize' = cadisksize /\ nradded' = nradded /\ sizeadded' = sizeadded
      /\ flushing' = flushing /\ awcr' = awcr /\ awcu' = awcu /\ files' = files
      /\ now' = now /\ crashes' = crashes /\ faults' = faults
      /\ todo' = Exiting
  BY DEF Exitcache, Ready, onDisk, Exiting
<1>2. todo' \in Seq(Steps) /\ Saving(todo', TRUE) /\ ~HasFixed(todo') /\ todo'[1].do = "open AWCR"
  BY <1>1, ExitSaves
<1>3. awcu.there
  BY <1>1, ReadyRegisters
<1>4. CacheTypes'
  BY <1>1, <1>2 DEF CacheInv, CacheTypes
<1>5. Accounted'
  BY <1>1 DEF CacheInv, Accounted
<1>6. Registers'
  <2>1. ("exited" = "exited") = TRUE /\ phase' # "down"
    BY <1>1
  <2>2. Saving(todo', phase' = "exited")
    BY <1>1, <1>2, <2>1
  <2>. QED  BY <1>1, <1>2, <1>3, <2>1, <2>2 DEF CacheInv, Registers
<1>7. Repairing'
  BY <1>2 DEF Repairing
<1>. QED  BY <1>4, <1>5, <1>6, <1>7 DEF CacheInv

\* Where the loop of Flushexcess() is.
LEMMA FollowingFacts ==
  ASSUME cache \in Seq(Objects), NEW n
  PROVE  Following(n) \in 0..MaxNr /\ Position(n) \in 0..Len(cache)
<1>. DEFINE i == Position(n)
            I == {j \in 1..Len(cache) : cache[j].nr = n}
<1>1. i \in 0..Len(cache)
  <2>1. i = IF I # {} THEN Min(I) ELSE 0
    BY DEF Position, SelectInSeq
  <2>2. I \subseteq Nat /\ I \subseteq 0..Len(cache) /\ 0 \in 0..Len(cache)
    OBVIOUS
  <2>. HIDE DEF i, I
  <2>. QED  BY <2>1, <2>2, MinFacts
<1>2. Following(n) = IF i = 0 \/ i = Len(cache) THEN 0 ELSE cache[i + 1].nr
  BY DEF Following
<1>3. Len(cache) \in Nat /\ MaxNr \in Nat
  BY CacheAssumption
<1>. HIDE DEF i
<1>4. CASE i = 0 \/ i = Len(cache)
  BY <1>1, <1>2, <1>3, <1>4 DEF i
<1>5. CASE ~(i = 0 \/ i = Len(cache))
  <2>1. i + 1 \in 1..Len(cache)
    BY <1>1, <1>3, <1>5
  <2>2. cache[i + 1] \in Objects
    BY <2>1
  <2>3. cache[i + 1].nr \in 0..MaxNr
    BY <1>3, <2>2 DEF Objects, Nr
  <2>. QED  BY <1>1, <1>2, <1>5, <2>3 DEF i
<1>. QED  BY <1>4, <1>5

LEMMA FlushexcessInv ==
  ASSUME CacheInv, Flushexcess
  PROVE  CacheInv'
<1>1. /\ phase = "up" /\ todo = <<>> /\ fetching' = fetching /\ cachenr' = cachenr
      /\ phase' = phase /\ awcr' = awcr /\ awcu' = awcu /\ files' = files /\ now' = now
      /\ crashes' = crashes /\ faults' = faults
  BY DEF Flushexcess, onDisk
<1>2. /\ cache \in Seq(Objects) /\ nradded \in 0..NRCHKPT /\ cachenr \in 0..MaxNr
      /\ fetching \subseteq Urls /\ now \in BOOLEAN
  BY InvFacts
<1>3. 0 \in 0..MaxNr /\ 0 \in 0..CHKAFTER
  BY CacheAssumption
<1>. DEFINE i == Position(flushing)
            gone == Victims(cache[i])
            next == Following(flushing)
<1>4. i \in 0..Len(cache) /\ next \in 0..MaxNr /\ Following(next) \in 0..MaxNr
  BY <1>2, FollowingFacts
<1>5. CASE i = 0 \/ cadisksize <= CacheMax
  <2>1. /\ flushing' = 0 /\ sizeadded' = 0 /\ cache' = cache /\ cadisksize' = cadisksize
        /\ todo' = todo /\ nradded' = nradded
    BY <1>5 DEF Flushexcess
  <2>2. Accounted'
    BY <1>1, <2>1 DEF CacheInv, Accounted
  <2>. QED  BY <1>1, <1>2, <1>3, <2>1, <2>2, EmptyLinked, OperationInv
<1>6. CASE ~(i = 0 \/ cadisksize <= CacheMax)
  <2>1. /\ Dispose(gone, cache) /\ sizeadded' = 0
        /\ IF \E o \in gone : o.nr = next
           THEN flushing' \in {0, Following(next)} ELSE flushing' = next
    BY <1>6 DEF Flushexcess
  <2>2. cache[i] \in ToSet(cache)
    <3>1. i \in 1..Len(cache) /\ DOMAIN cache = 1..Len(cache)
      BY <1>2, <1>4, <1>6
    <3>. QED  BY <3>1 DEF ToSet
  <2>3. gone \subseteq ToSet(cache)
    BY <2>2 DEF Victims, Held
  <2>. HIDE DEF i, gone, next
  <2>4. flushing' \in 0..MaxNr
    BY <1>3, <1>4, <2>1
  <2>. QED  BY <1>1, <1>3, <2>1, <2>3, <2>4, RolesHeld, GoneInv
<1>. QED  BY <1>5, <1>6

\* Files that are created or closed, or deleted, one after the other.
Access(act, n) == [do |-> act, nr |-> n]
Deleting(n) == [do |-> "unlink", nr |-> n]

LEMMA NumberSteps ==
  ASSUME NEW n \in Nr
  PROVE  /\ \A act \in {"create", "close"} :
              Access(act, n) \in Steps /\ Access(act, n).do = act /\ Access(act, n).nr = n
         /\ Deleting(n) \in Steps /\ Deleting(n).do = "unlink" /\ Deleting(n).nr = n
BY DEF Access, Deleting, Steps

LEMMA PlainLinked ==
  ASSUME NEW t \in Seq(Steps), \A i \in 1..Len(t) : t[i].do \in {"create", "close", "unlink"}
  PROVE  Linked(t)
BY DEF Linked

\* The steps of a set of numbers, in some order.
LEMMA WriteAll ==
  ASSUME NEW T, IsFiniteSet(T), \A x \in T : x.nr \in Nr, NEW act \in {"create", "close"}
  PROVE  /\ SetToSeq({[do |-> act, nr |-> x.nr] : x \in T}) \in Seq(Steps)
         /\ Linked(SetToSeq({[do |-> act, nr |-> x.nr] : x \in T}))
<1>. DEFINE f == [x \in T |-> Access(act, x.nr)]
            C == {f[x] : x \in DOMAIN f}
            t == SetToSeq(C)
<1>1. DOMAIN f = T /\ f = [x \in DOMAIN f |-> f[x]]
  OBVIOUS
<1>2. {[do |-> act, nr |-> x.nr] : x \in T} = C
  BY DEF Access
<1>3. \A y \in C : y \in Steps /\ y.do \in {"create", "close"}
  BY NumberSteps
<1>. HIDE DEF f
<1>4. IsFiniteSet(C)
  BY <1>1, ImageFinite
<1>. HIDE DEF C
<1>5. t \in Seq(Steps) /\ ToSet(t) = C
  BY <1>3, <1>4, SetToSeqFacts DEF Lists
<1>. HIDE DEF t
<1>6. \A i \in 1..Len(t) : t[i] \in C
  <2>1. DOMAIN t = 1..Len(t)
    BY <1>5
  <2>. QED  BY <1>5, <2>1 DEF ToSet
<1>7. Linked(t)
  BY <1>3, <1>5, <1>6, PlainLinked
<1>. QED  BY <1>2, <1>5, <1>7 DEF t

LEMMA EnterAll ==
  ASSUME NEW T \in SUBSET Objects, IsFiniteSet(T), NEW added \in 0..NRCHKPT
  PROVE  Tidy(Addregentries(SetToSeq({Entry(x, FALSE) : x \in T}), added), {})
<1>. DEFINE f == [x \in T |-> Entry(x, FALSE)]
            C == {f[x] : x \in DOMAIN f}
<1>1. DOMAIN f = T /\ f = [x \in DOMAIN f |-> f[x]]
  OBVIOUS
<1>2. {Entry(x, FALSE) : x \in T} = C
  OBVIOUS
<1>3. C \in SUBSET Additions
  <2>1. ASSUME NEW x \in T  PROVE f[x] \in Additions
    <3>1. x.nr \in Nr /\ x.url \in Urls /\ x.size \in Nat
      BY DEF Objects
    <3>2. Entry(x, FALSE) \in Additions
      BY <3>1 DEF Entry, Entries, Additions
    <3>. QED  BY <3>2
  <2>. QED  BY <2>1
<1>. HIDE DEF f
<1>4. IsFiniteSet(C)
  BY <1>1, ImageFinite
<1>. HIDE DEF C
<1>5. SetToSeq(C) \in Seq(Additions)
  BY <1>3, <1>4, SetToSeqFacts
<1>6. Tidy(Addregentries(SetToSeq(C), added), {})
  BY <1>5, AddregentriesFacts
<1>. QED  BY <1>2, <1>6

\* The objects of a set that go.
LEMMA DisposeAll ==
  ASSUME NEW list \in Seq(Objects), Distinct(list), NEW gone \in SUBSET ToSet(list),
         NEW added \in 0..NRCHKPT
  PROVE  /\ Tidy(Disposals(SetToSeq(gone), added), FilesOf(gone)) /\ IsFiniteSet(gone)
         /\ Without(list, gone) \in Seq(Objects) /\ Distinct(Without(list, gone))
         /\ ToSet(Without(list, gone)) = ToSet(list) \ gone
         /\ SizeOf(Without(list, gone)) = SizeOf(list) - SizeOf(SetToSeq(gone))
<1>1. IsFiniteSet(gone) /\ gone \in SUBSET Objects
  <2>1. IsFiniteSet(ToSet(list)) /\ ToSet(list) \subseteq Objects
    BY ToSetFinite
  <2>. QED  BY <2>1, FS_Subset
<1>2. SetToSeq(gone) \in Seq(Objects) /\ ToSet(SetToSeq(gone)) = gone
  BY <1>1, SetToSeqFacts DEF Lists
<1>3. Tidy(Disposals(SetToSeq(gone), added), FilesOf(gone))
  BY <1>2, DisposalsFacts
<1>4. IsInjective(list)
  BY DistinctFacts
<1>. QED  BY <1>1, <1>3, <1>4, WithoutFacts, DistinctWithout, SizeWithout

\* An object whose file is closed.
Closed(o) == [o EXCEPT !.named = TRUE, !.open = FALSE]

LEMMA ClosedFacts ==
  ASSUME NEW o \in Objects
  PROVE  /\ Closed(o) \in Objects /\ Closed(o).nr = o.nr /\ Closed(o).twin = o.twin
         /\ Closed(o).url = o.url /\ Closed(o).as = o.as /\ Closed(o).named
         /\ Closed(o).size = o.size /\ ~Closed(o).open
BY DEF Closed, Objects

LEMMA FinishInv ==
  ASSUME CacheInv, NEW u \in Urls, Finish(u)
  PROVE  CacheInv'
<1>. DEFINE S == ToSet(cache)
            old == Held(u, "ocache")
            done == {o \in Held(u, "cache") : o.open \/ ~o.named}
            new == {x \in done : ~x.named}
            d == Disposals(SetToSeq(old), nradded)
            reg == Addregentries(SetToSeq({Entry(o, FALSE) : o \in done}), d.added)
            created == SetToSeq({[do |-> "create", nr |-> o.nr] : o \in new})
            closed == SetToSeq({[do |-> "close", nr |-> o.nr] : o \in done})
            left == Without(cache, old)
            f == [x \in S |-> IF x \in done THEN Closed(x) ELSE x]
<1>1. /\ Ready /\ Held(u, "vcache") = {} /\ fetching' = fetching \ {u} /\ cachenr' = cachenr
      /\ sizeadded' = sizeadded
      /\ phase' = phase /\ awcr' = awcr /\ awcu' = awcu /\ files' = files /\ now' = now
      /\ crashes' = crashes /\ faults' = faults
  BY DEF Finish, onDisk
<1>2. /\ cache' = [i \in 1..Len(left) |-> IF left[i] \in done THEN Closed(left[i]) ELSE left[i]]
      /\ cadisksize' = cadisksize - SizeOf(SetToSeq(old))
      /\ todo' = d.todo \o created \o closed \o reg.todo /\ nradded' = reg.added
      /\ flushing' = IF done = {} THEN 0 ELSE left[1].nr
  BY DEF Finish, Closed
<1>3. /\ cache \in Seq(Objects) /\ S \subseteq Objects /\ Distinct(cache)
      /\ Sound(S, cachenr, fetching) /\ cadisksize = SizeOf(cache)
      /\ nradded \in 0..NRCHKPT /\ cachenr \in 0..MaxNr
      /\ fetching \subseteq Urls /\ sizeadded \in 0..CHKAFTER
      /\ now \in BOOLEAN
  BY InvFacts
<1>4. old \subseteq S /\ done \subseteq S \ old /\ new \subseteq done
      /\ (\A x \in done : x.as = "cache")
      /\ \A x \in S : /\ x \in old <=> x.url = u /\ x.as = "ocache"
                      /\ x.as = "vcache" => x.url # u
  BY <1>1 DEF Held
<1>5. \A x \in S : f[x] = IF x \in done THEN Closed(x) ELSE x
  OBVIOUS
<1>. HIDE DEF f, S, old
<1>6. /\ Tidy(d, FilesOf(old))
      /\ left \in Seq(Objects) /\ Distinct(left) /\ ToSet(left) = S \ old
      /\ SizeOf(left) = SizeOf(cache) - SizeOf(SetToSeq(old))
  BY <1>3, <1>4, DisposeAll DEF S
<1>7. IsFiniteSet(done) /\ done \in SUBSET Objects
  <2>1. IsFiniteSet(S)
    BY <1>3, ToSetFinite DEF S
  <2>. HIDE DEF done
  <2>. QED  BY <1>3, <1>4, <2>1, FS_Subset
<1>8. d.todo \in Seq(Steps) /\ Linked(d.todo) /\ d.added \in 0..NRCHKPT
  <2>. HIDE DEF d
  <2>. QED  BY <1>6 DEF Tidy, Tidies, Plans
<1>. HIDE DEF d, left, done, new
<1>9. Tidy(reg, {})
  BY <1>7, <1>8, EnterAll
<1>10. reg.todo \in Seq(Steps) /\ Linked(reg.todo) /\ reg.added \in 0..NRCHKPT
  <2>. HIDE DEF reg
  <2>. QED  BY <1>9 DEF Tidy, Tidies, Plans
<1>11. closed \in Seq(Steps) /\ Linked(closed) /\ created \in Seq(Steps) /\ Linked(created)
  <2>1. IsFiniteSet(new) /\ \A x \in done : x.nr \in Nr
    BY <1>4, <1>7, FS_Subset DEF Objects
  <2>2. closed \in Seq(Steps) /\ Linked(closed)
    BY <1>7, <2>1, WriteAll
  <2>3. created \in Seq(Steps) /\ Linked(created)
    <3>1. \A x \in new : x.nr \in Nr
      BY <1>4, <2>1
    <3>. QED  BY <2>1, <3>1, WriteAll
  <2>. QED  BY <2>2, <2>3
<1>. HIDE DEF reg, closed, created
<1>12. todo' \in Seq(Steps) /\ Linked(todo')
  <2>. DEFINE a == d.todo \o created
  <2>1. a \in Seq(Steps) /\ Linked(a)
    BY <1>8, <1>11, LinkedConcat
  <2>. DEFINE s == a \o closed
              t == reg.todo
  <2>2. t \in Seq(Steps) /\ Linked(t) /\ todo' = s \o t
    BY <1>2, <1>10
  <2>. HIDE DEF a, t
  <2>5. s \in Seq(Steps) /\ Linked(s)
    BY <1>11, <2>1, LinkedConcat
  <2>. HIDE DEF s
  <2>3. s \o t \in Seq(Steps)
    BY <2>2, <2>5
  <2>4. Linked(s \o t)
    BY <2>2, <2>5, LinkedConcat
  <2>. QED  BY <2>2, <2>3, <2>4
<1>13. \A i \in 1..Len(left) : left[i] \in S \ old
  <2>1. DOMAIN left = 1..Len(left)
    BY <1>6
  <2>. QED  BY <1>6, <2>1 DEF ToSet
<1>14. IsMapped(cache', left, f)
  BY <1>2, <1>5, <1>13 DEF IsMapped
<1>15. \A x \in S \ old :
         /\ f[x] \in Objects /\ f[x].nr = x.nr /\ f[x].twin = x.twin /\ f[x].url = x.url
         /\ f[x].as = x.as /\ (x.as = "vcache" => f[x].named = x.named) /\ f[x].size = x.size
  BY <1>3, <1>4, <1>5, ClosedFacts
<1>16. Renews(f, ToSet(left))
  BY <1>6, <1>15 DEF Renews
<1>17. /\ cache' \in Seq(Objects) /\ Distinct(cache') /\ ToSet(cache') = {f[x] : x \in ToSet(left)}
       /\ SizeOf(cache') = SizeOf(left)
  <2>1. \A x \in ToSet(left) : f[x].size = x.size
    BY <1>6, <1>15
  <2>2. left \in Seq(Objects) /\ Distinct(left)
    BY <1>6
  <2>. QED  BY <1>14, <1>16, <2>1, <2>2, MapFacts
<1>18. Sound(ToSet(cache'), cachenr, fetching')
  <2>1. Sound(ToSet(left), cachenr, fetching')
    <3>1. \A x \in S : x.as \in {"vcache", "ocache"} => x.url \in fetching
      BY RolesHeld DEF S
    <3>2. ToSet(left) \subseteq S
          /\ \A x \in ToSet(left) : x.as \in {"vcache", "ocache"} => x.url \in fetching'
      BY <1>1, <1>4, <1>6, <3>1
    <3>. QED  BY <1>3, <3>2, SoundSubset
  <2>2. \A x \in ToSet(left) : /\ f[x].nr = x.nr /\ f[x].twin = x.twin /\ f[x].url = x.url
                               /\ f[x].as = x.as /\ (x.as = "vcache" => f[x].named = x.named)
    BY <1>6, <1>15
  <2>3. Sound({f[x] : x \in ToSet(left)}, cachenr, fetching')
    BY <2>1, <2>2, ChangedSound
  <2>. QED  BY <1>17, <2>3
<1>19. Accounted'
  BY <1>1, <1>2, <1>3, <1>6, <1>17, <1>18 DEF Accounted
<1>20. flushing' \in 0..MaxNr
  <2>1. done # {} => \E o : o \in ToSet(left)
    BY <1>4, <1>6
  <2>2. done # {} => left[1].nr \in 0..MaxNr
    BY <1>6, <2>1, FirstFacts
  <2>. QED  BY <1>2, <2>2, CacheAssumption
<1>. QED  BY <1>1, <1>2, <1>3, <1>10, <1>12, <1>17, <1>19, <1>20, OperationInv DEF Ready

LEMMA DeleteAll ==
  ASSUME NEW T \in SUBSET Nr, IsFiniteSet(T)
  PROVE  /\ SetToSeq({[do |-> "unlink", nr |-> n] : n \in T}) \in Seq(Steps)
         /\ Linked(SetToSeq({[do |-> "unlink", nr |-> n] : n \in T}))
         /\ Quiet(SetToSeq({[do |-> "unlink", nr |-> n] : n \in T}))
         /\ Unlinks(SetToSeq({[do |-> "unlink", nr |-> n] : n \in T})) = T
         /\ Dels(SetToSeq({[do |-> "unlink", nr |-> n] : n \in T})) = {}
<1>. DEFINE f == [n \in T |-> Deleting(n)]
            C == {f[n] : n \in DOMAIN f}
            t == SetToSeq(C)
<1>1. DOMAIN f = T /\ f = [n \in DOMAIN f |-> f[n]]
  OBVIOUS
<1>2. {[do |-> "unlink", nr |-> n] : n \in T} = C
  BY DEF Deleting
<1>3. \A y \in C : y \in Steps /\ y.do = "unlink" /\ y.nr \in T
  BY NumberSteps
<1>4. \A n \in T : \E y \in C : y.nr = n
  <2>1. \A n \in T : f[n] \in C /\ f[n].nr = n
    BY NumberSteps
  <2>. QED  BY <2>1
<1>. HIDE DEF f
<1>5. IsFiniteSet(C)
  BY <1>1, ImageFinite
<1>. HIDE DEF C
<1>6. t \in Seq(Steps) /\ ToSet(t) = C
  BY <1>3, <1>5, SetToSeqFacts DEF Lists
<1>. HIDE DEF t
<1>7. DOMAIN t = 1..Len(t)
  BY <1>6
<1>8. \A i \in 1..Len(t) : t[i] \in C
  BY <1>6, <1>7 DEF ToSet
<1>9. Linked(t) /\ Quiet(t)
  <2>1. \A i \in 1..Len(t) : t[i].do = "unlink"
    BY <1>3, <1>8
  <2>. QED  BY <1>6, <2>1, PlainLinked DEF Quiet
<1>10. ASSUME NEW n \in T  PROVE n \in Unlinks(t)
  <2>1. PICK y \in C : y.nr = n
    BY <1>4
  <2>2. PICK i \in 1..Len(t) : t[i] = y
    BY <1>6, <1>7 DEF ToSet
  <2>. QED  BY <1>3, <2>1, <2>2 DEF Unlinks, Unlinking
<1>11. \A n \in Unlinks(t) : n \in T
  BY <1>3, <1>8 DEF Unlinks, Unlinking
<1>12. Unlinks(t) = T
  BY <1>10, <1>11
<1>13. Dels(t) = {}
  BY <1>3, <1>6 DEF Dels, Removing
<1>. QED  BY <1>2, <1>6, <1>9, <1>12, <1>13 DEF t

\* The last access of a repair.
LastFix(shared) == [do |-> "fixed", shared |-> shared]

LEMMA LastFixFacts ==
  ASSUME NEW shared \in SUBSET Nr
  PROVE  /\ LastFix(shared) \in Steps /\ LastFix(shared).do = "fixed"
         /\ LastFix(shared).shared = shared /\ <<LastFix(shared)>> \in Seq(Steps)
         /\ Quiet(<<LastFix(shared)>>) /\ Unlinks(<<LastFix(shared)>>) = {}
<1>. DEFINE x == LastFix(shared)
<1>1. x \in [do : {"fixed"}, shared : SUBSET Nr] /\ x.do = "fixed" /\ x.shared = shared
  BY DEF LastFix
<1>. HIDE DEF x
<1>2. x \in Steps
  BY <1>1 DEF Steps
<1>3. <<x>> \in Seq(Steps) /\ Len(<<x>>) = 1 /\ <<x>>[1] = x
  BY <1>2
<1>4. 1..1 = {1}
  OBVIOUS
<1>5. Quiet(<<x>>) /\ Unlinking(<<x>>) = {}
  BY <1>1, <1>3, <1>4 DEF Quiet, Unlinking
<1>6. Unlinks(<<x>>) = {}
  BY <1>5 DEF Unlinks
<1>. QED  BY <1>1, <1>2, <1>3, <1>5, <1>6 DEF x

LEMMA NotEmpty ==
  ASSUME NEW a \in Seq(Steps)
  PROVE  a \o Compaction # <<>>
<1>. DEFINE c == Compaction
<1>1. Len(c) = 4
  BY DEF Compaction
<1>2. c \in Seq(Steps)
  BY CompactionFacts
<1>. HIDE DEF c
<1>3. Len(a \o c) = Len(a) + Len(c) /\ Len(a) \in Nat
  BY <1>2, ConcatFacts
<1>4. Len(a \o c) # 0
  BY <1>1, <1>3
<1>. QED  BY <1>4 DEF c

\* All that a repair does to the disk: s deletes the files of no object, t those
\* of the objects that go.
Repair(s, t, shared) == s \o t \o Compaction \o <<LastFix(shared)>>

LEMMA FixPlan ==
  ASSUME NEW s \in Seq(Steps), Linked(s), Quiet(s), NEW t \in Seq(Steps), Linked(t), Quiet(t),
         NEW shared \in SUBSET Nr, NEW w, w = Repair(s, t, shared)
  PROVE  /\ w \in Seq(Steps) /\ Quiet(w) /\ Unlinks(w) = Unlinks(s) \cup Unlinks(t)
         /\ Saving(w, FALSE) /\ w # <<>> /\ w[1].do # "delete AWCU" /\ Spared(w) = shared
<1>. DEFINE a == s \o t
            b == a \o Compaction
<1>1. a \in Seq(Steps) /\ Linked(a) /\ Quiet(a) /\ Unlinks(a) = Unlinks(s) \cup Unlinks(t)
  BY LinkedConcat, QuietConcat, UnlinksConcat
<1>. HIDE DEF a
<1>2. /\ Compaction \in Seq(Steps) /\ Linked(Compaction) /\ Quiet(Compaction)
      /\ Unlinks(Compaction) = {}
  BY CompactionFacts
<1>3. b \in Seq(Steps) /\ Linked(b) /\ Quiet(b) /\ Unlinks(b) = Unlinks(a)
  BY <1>1, <1>2, LinkedConcat, QuietConcat, UnlinksConcat
<1>4. b # <<>>
  BY <1>1, NotEmpty
<1>. HIDE DEF b
<1>5. w = b \o <<LastFix(shared)>>
  BY DEF a, b, Repair
<1>6. /\ w \in Seq(Steps) /\ Saving(w, FALSE) /\ w # <<>> /\ w[1].do # "delete AWCU"
  BY <1>3, <1>4, <1>5, LastFixFacts, LinkedFixed
<1>7. Quiet(w) /\ Unlinks(w) = Unlinks(b)
  <2>. DEFINE c == <<LastFix(shared)>>
  <2>1. c \in Seq(Steps) /\ Quiet(c) /\ Unlinks(c) = {} /\ w = b \o c
    BY <1>5, LastFixFacts
  <2>. HIDE DEF c
  <2>2. Quiet(b \o c)
    BY <1>3, <2>1, QuietConcat
  <2>3. Unlinks(b \o c) = Unlinks(b) \cup Unlinks(c)
    BY <1>3, <2>1, UnlinksConcat
  <2>. QED  BY <2>1, <2>2, <2>3
<1>8. Spared(w) = shared
  <2>. DEFINE x == LastFix(shared)
  <2>1. x \in Steps /\ x.shared = shared /\ w = b \o <<x>>
    BY <1>5, LastFixFacts
  <2>. HIDE DEF x
  <2>2. w[Len(w)] = x
    <3>1. Append(b, x) = b \o <<x>> /\ Len(Append(b, x)) = Len(b) + 1
          /\ Append(b, x)[Len(b) + 1] = x
      BY <1>3, <2>1
    <3>. QED  BY <2>1, <3>1
  <2>. QED  BY <2>1, <2>2 DEF Spared
<1>. QED  BY <1>1, <1>3, <1>6, <1>7, <1>8

\* What the repair finds: strays are the files of no object, and lost at least the
\* objects without a file.  An object can lose its file to another that goes only
\* when they share their number.
LEMMA RepairSet ==
  ASSUME NEW S, NEW fs,
         NEW known, known = {o \in S : o.named},
         NEW stray, stray = {n \in Nr : fs[n] # "none" /\ \A o \in known : o.nr # n},
         NEW lost, \A o \in known : fs[o.nr] = "none" => o \in lost,
         NEW shared,
         shared = {o.nr : o \in {x \in known : \E y \in known : y # x /\ y.nr = x.nr}},
         NEW gone \in SUBSET S,
         \A l \in lost : Registered(l) => l \in gone
  PROVE  Synchronizes(S \ gone, fs, stray \cup FilesOf(gone), shared)
<1>1. ASSUME NEW n \in Nr, fs[n] # "none"
      PROVE  n \in stray \cup FilesOf(gone) \/ \E o \in S \ gone : o.nr = n /\ o.named
  <2>1. CASE \A o \in known : o.nr # n
    BY <1>1, <2>1
  <2>2. CASE \E o \in known : o.nr = n
    <3>1. PICK o \in known : o.nr = n
      BY <2>2
    <3>2. o \in S /\ o.named
      BY <3>1
    <3>3. o \in gone => n \in FilesOf(gone)
      BY <3>1, <3>2 DEF FilesOf
    <3>. QED  BY <3>1, <3>2, <3>3
  <2>. QED  BY <2>1, <2>2
<1>2. ASSUME NEW o \in S \ gone, Registered(o), o.named, o.nr \notin shared
      PROVE  fs[o.nr] # "none" /\ o.nr \notin stray \cup FilesOf(gone)
  <2>1. o \in known
    BY <1>2
  <2>2. fs[o.nr] # "none"
    BY <1>2, <2>1
  <2>3. o.nr \notin stray
    BY <2>1
  <2>4. ASSUME NEW x \in gone, x.named, x.nr = o.nr  PROVE FALSE
    <3>1. x \in known /\ x # o
      BY <2>4
    <3>. QED  BY <1>2, <2>1, <2>4, <3>1
  <2>5. o.nr \notin FilesOf(gone)
    BY <2>4 DEF FilesOf
  <2>. QED  BY <2>2, <2>3, <2>5
<1>. QED  BY <1>1, <1>2 DEF Synchronizes

LEMMA FixcacheInv ==
  ASSUME CacheInv, Fixcache
  PROVE  CacheInv'
<1>. DEFINE S == ToSet(cache)
            known == {o \in S : o.named}
            shared == {o.nr : o \in {x \in known : \E y \in known : y # x /\ y.nr = x.nr}}
            stray == {n \in Nr : files[n] # "none" /\ \A o \in known : o.nr # n}
            lost == {o \in known : files[o.nr] = "none" \/ ~Foundfirst(o)}
            gone == UNION {Victims(o) : o \in lost}
            d == Disposals(SetToSeq(gone), nradded)
            s == SetToSeq({[do |-> "unlink", nr |-> n] : n \in stray})
<1>1. /\ phase = "up" /\ todo = <<>> /\ fetching' = fetching /\ cachenr' = cachenr
      /\ sizeadded' = sizeadded /\ flushing' = flushing
      /\ phase' = phase /\ awcr' = awcr /\ awcu' = awcu /\ files' = files /\ now' = now
      /\ crashes' = crashes /\ faults' = faults
  BY DEF Fixcache, Ready, onDisk
<1>2. /\ cache' = Without(cache, gone)
      /\ cadisksize' = cadisksize - SizeOf(SetToSeq(gone))
      /\ todo' = Repair(s, d.todo, shared)
      /\ nradded' = d.added
  BY DEF Fixcache, Repair, LastFix, Named, Shared
<1>3. /\ cache \in Seq(Objects) /\ S \subseteq Objects /\ Distinct(cache)
      /\ Sound(S, cachenr, fetching) /\ cadisksize = SizeOf(cache)
      /\ nradded \in 0..NRCHKPT /\ cachenr \in 0..MaxNr
      /\ fetching \subseteq Urls /\ sizeadded \in 0..CHKAFTER /\ flushing \in 0..MaxNr
      /\ now \in BOOLEAN
  BY InvFacts
<1>4. gone \subseteq S
  BY DEF Victims, Held
<1>5. \A l \in lost : Registered(l) => l \in gone
  BY DEF Victims
<1>6. shared \in SUBSET Nr
  BY <1>3 DEF Objects
<1>. HIDE DEF S, gone
<1>7. stray \subseteq Nr /\ IsFiniteSet(stray)
  <2>1. 1 \in Int /\ MaxNr \in Int
    BY CacheAssumption
  <2>2. IsFiniteSet(Nr)
    BY <2>1, FS_Interval DEF Nr
  <2>3. stray \subseteq Nr
    OBVIOUS
  <2>. HIDE DEF stray
  <2>. QED  BY <2>2, <2>3, FS_Subset
<1>8. Synchronizes(S \ gone, files, stray \cup FilesOf(gone), shared)
  <2>1. /\ \A o \in known : files[o.nr] = "none" => o \in lost
        /\ known = {o \in S : o.named}
        /\ stray = {n \in Nr : files[n] # "none" /\ \A o \in known : o.nr # n}
        /\ shared = {o.nr : o \in {x \in known : \E y \in known : y # x /\ y.nr = x.nr}}
    OBVIOUS
  <2>. HIDE DEF stray, lost, known, shared
  <2>. QED  BY <1>4, <1>5, <2>1, RepairSet, ZenonT(60)
<1>. HIDE DEF stray, lost, known, shared
<1>9. /\ Tidy(d, FilesOf(gone))
      /\ cache' \in Seq(Objects) /\ Distinct(cache') /\ ToSet(cache') = S \ gone
      /\ SizeOf(cache') = SizeOf(cache) - SizeOf(SetToSeq(gone))
  <2>1. gone \in SUBSET ToSet(cache)
    BY <1>4 DEF S
  <2>. QED  BY <1>2, <1>3, <2>1, DisposeAll DEF S
<1>10. /\ d.todo \in Seq(Steps) /\ Linked(d.todo) /\ Quiet(d.todo) /\ d.added \in 0..NRCHKPT
       /\ Unlinks(d.todo) = FilesOf(gone)
  <2>. HIDE DEF d
  <2>. QED  BY <1>9 DEF Tidy, Tidies, Plans
<1>11. s \in Seq(Steps) /\ Linked(s) /\ Quiet(s) /\ Unlinks(s) = stray
  BY <1>7, DeleteAll
<1>. HIDE DEF s, d
<1>12. /\ todo' \in Seq(Steps) /\ Quiet(todo') /\ Unlinks(todo') = stray \cup FilesOf(gone)
       /\ Saving(todo', FALSE) /\ todo' # <<>> /\ todo'[1].do # "delete AWCU"
       /\ Spared(todo') = shared
  <2>. DEFINE t == d.todo
  <2>1. /\ t \in Seq(Steps) /\ Linked(t) /\ Quiet(t) /\ Unlinks(t) = FilesOf(gone)
        /\ todo' = Repair(s, t, shared)
    BY <1>2, <1>10
  <2>. DEFINE w == todo'
  <2>2. w = Repair(s, t, shared)
    BY <2>1
  <2>. HIDE DEF t, w
  <2>3. /\ w \in Seq(Steps) /\ Quiet(w) /\ Unlinks(w) = Unlinks(s) \cup Unlinks(t)
        /\ Saving(w, FALSE) /\ w # <<>> /\ w[1].do # "delete AWCU" /\ Spared(w) = shared
    <3>1. s \in Seq(Steps) /\ Linked(s) /\ Quiet(s)
      BY <1>11
    <3>2. t \in Seq(Steps) /\ Linked(t) /\ Quiet(t)
      BY <2>1
    <3>. QED  BY <1>6, <2>2, <3>1, <3>2, FixPlan
  <2>. QED  BY <1>11, <2>1, <2>3 DEF w
<1>13. Sound(ToSet(cache'), cachenr, fetching)
  <2>1. \A x \in S : x.as \in {"vcache", "ocache"} => x.url \in fetching
    BY RolesHeld DEF S
  <2>2. ToSet(cache') \subseteq S
        /\ \A x \in ToSet(cache') : x.as \in {"vcache", "ocache"} => x.url \in fetching
    BY <1>9, <2>1
  <2>. QED  BY <1>3, <2>2, SoundSubset
<1>14. Accounted'
  BY <1>1, <1>2, <1>3, <1>9, <1>13 DEF Accounted
<1>15. CacheTypes'
  BY <1>1, <1>2, <1>3, <1>9, <1>10, <1>12 DEF CacheInv, CacheTypes
<1>16. Registers'
  BY <1>1, <1>12, OperationKeeps DEF CacheInv
<1>17. Repairing'
  BY <1>1, <1>8, <1>9, <1>12 DEF Repairing
<1>. QED  BY <1>14, <1>15, <1>16, <1>17 DEF CacheInv

LEMMA FixEndsInv ==
  ASSUME CacheInv, FixEnds
  PROVE  CacheInv'
<1>1. /\ todo # <<>> /\ todo[1].do = "fixed" /\ todo' = <<>>
      /\ phase' = phase /\ cache' = cache /\ fetching' = fetching /\ cachenr' = cachenr
      /\ cadisksize' = cadisksize /\ nradded' = nradded /\ sizeadded' = sizeadded
      /\ flushing' = flushing /\ awcr' = awcr /\ awcu' = awcu /\ files' = files
      /\ now' = now /\ crashes' = crashes /\ faults' = faults
  <2>1. todo # <<>> /\ todo \in Seq(Steps) => Head(todo) = todo[1]
    OBVIOUS
  <2>. QED  BY <2>1 DEF FixEnds, onDisk, memory, CacheInv, CacheTypes
<1>2. CacheTypes'
  BY <1>1, EmptyLinked DEF CacheInv, CacheTypes
<1>3. Accounted'
  BY <1>1 DEF CacheInv, Accounted
<1>4. Linked(<<>>) /\ Saving(<<>>, phase = "exited") /\ ~HasFixed(<<>>)
  <2>1. 1..Len(<<>>) = {}
    OBVIOUS
  <2>. QED  BY <2>1 DEF Linked, Saving, HasFixed
<1>5. awcu.there
  <2>1. awcu.there \in BOOLEAN /\ todo \in Seq(Steps) /\ awcr.there \in BOOLEAN
    BY DEF CacheInv, CacheTypes, Regs
  <2>2. ~Starting(todo, awcr.there)
    <3>1. 1 \in 1..Len(todo) /\ Len(todo) \in Nat
      BY <1>1, <2>1
    <3>2. 1 \in 1..(Len(todo) - 1) \/ Len(todo) = 1
      BY <3>1
    <3>. QED  BY <1>1, <3>2 DEF Starting
  <2>. QED  BY <1>1, <2>1, <2>2 DEF CacheInv, Registers
<1>6. Registers'
  BY <1>1, <1>4, <1>5 DEF CacheInv, Registers
<1>7. Repairing'
  BY <1>1, <1>4 DEF Repairing
<1>. QED  BY <1>2, <1>3, <1>6, <1>7 DEF CacheInv

-----------------------------------------------------------------------------
(* The accesses to the disk.                                                 *)

LEMMA EntriesList ==
  ASSUME NEW l \in Seq(Objects)
  PROVE  [i \in 1..Len(l) |-> Entry(l[i], FALSE)] \in Logs
<1>. DEFINE w == [i \in 1..Len(l) |-> Entry(l[i], FALSE)]
            n == Len(l)
<1>1. n \in Nat /\ \A i \in 1..n : l[i] \in Objects
  OBVIOUS
<1>2. ASSUME NEW i \in 1..n  PROVE w[i] \in Entries \cup {Torn}
  <2>1. l[i].nr \in Nr /\ l[i].url \in Urls /\ l[i].size \in Nat
    BY <1>1 DEF Objects
  <2>2. Entry(l[i], FALSE) \in Entries
    BY <2>1 DEF Entry, Entries
  <2>. QED  BY <2>2
<1>3. w \in [1..n -> Entries \cup {Torn}]
  <2>1. w = [i \in 1..n |-> w[i]]
    OBVIOUS
  <2>. HIDE DEF w, n
  <2>. QED  BY <1>2, <2>1
<1>. HIDE DEF w, n
<1>4. w \in Logs
  BY <1>1, <1>3 DEF Logs
<1>. QED  BY <1>4 DEF w, n

\* The objects that Savecachereg() registers.
Listed == Without(cache, {o \in ToSet(cache) : ~Registered(o)})

LEMMA RegistrationFacts ==
  ASSUME CacheTypes
  PROVE  /\ Registration \in Regs /\ Registration.there /\ Listed \in Seq(Objects)
         /\ Registration.log = [i \in 1..Len(Listed) |-> Entry(Listed[i], FALSE)]
         /\ ToSet(Listed) = {o \in ToSet(cache) : Registered(o)}
<1>. DEFINE out == {o \in ToSet(cache) : ~Registered(o)}
            log == [i \in 1..Len(Listed) |-> Entry(Listed[i], FALSE)]
<1>1. cache \in Seq(Objects) /\ cachenr \in 0..MaxNr
  BY DEF CacheTypes
<1>2. Listed \in Seq(Objects) /\ ToSet(Listed) = ToSet(cache) \ out
  BY <1>1, WithoutFacts DEF Listed
<1>3. log \in Logs
  BY <1>2, EntriesList
<1>4. Registration = [there |-> TRUE, lastnr |-> cachenr, log |-> log]
  BY DEF Registration, Listed
<1>. HIDE DEF log
<1>5. Registration \in Regs /\ Registration.there /\ Registration.log = log
  BY <1>1, <1>3, <1>4 DEF Regs
<1>. QED  BY <1>2, <1>5 DEF log

LEMMA NoFileFacts ==
  /\ NoFile \in Regs /\ ~NoFile.there /\ NoFile.log = <<>>
  /\ [NoFile EXCEPT !.there = TRUE] \in Regs /\ [NoFile EXCEPT !.there = TRUE].there
<1>1. <<>> \in Logs /\ 0 \in 0..MaxNr
  BY CacheAssumption DEF Logs
<1>. QED  BY <1>1 DEF NoFile, Regs

\* An entry joins a registration.
Entered(reg, e) == [reg EXCEPT !.there = TRUE, !.log = Append(@, e)]

LEMMA EnteredFacts ==
  ASSUME NEW reg \in Regs, NEW e \in Entries \cup {Torn}
  PROVE  /\ Entered(reg, e) \in Regs /\ Entered(reg, e).there
         /\ Entered(reg, e).lastnr = reg.lastnr /\ Entered(reg, e).log = Append(reg.log, e)
<1>. DEFINE w == Append(reg.log, e)
<1>1. w \in Logs
  BY DEF Regs, Logs
<1>2. Entered(reg, e) = [reg EXCEPT !.there = TRUE, !.log = w]
  BY DEF Entered
<1>. HIDE DEF w
<1>3. Entered(reg, e) \in Regs /\ Entered(reg, e).there
      /\ Entered(reg, e).lastnr = reg.lastnr /\ Entered(reg, e).log = w
  BY <1>1, <1>2 DEF Regs
<1>. QED  BY <1>3 DEF w

LEMMA FirstStep ==
  ASSUME NEW t \in Seq(Steps), t # <<>>
  PROVE  /\ Head(t) = t[1] /\ t[1] \in Steps /\ Tail(t) \in Seq(Steps)
         /\ Len(t) \in Nat /\ Len(t) >= 1 /\ Len(Tail(t)) = Len(t) - 1
         /\ \A i \in 1..(Len(t) - 1) : Tail(t)[i] = t[i + 1]
         /\ (Tail(t) # <<>> <=> Len(t) > 1) /\ Len(<<>>) = 0
<1>. DEFINE n == Len(t)
            w == Tail(t)
<1>1. /\ Head(t) = t[1] /\ t[1] \in Steps /\ w \in Seq(Steps) /\ n \in Nat /\ n >= 1
      /\ Len(w) = n - 1 /\ \A i \in 1..(n - 1) : w[i] = t[i + 1]
  OBVIOUS
<1>2. Len(<<>>) = 0 /\ \A x \in Seq(Steps) : Len(x) = 0 => x = <<>>
  OBVIOUS
<1>. HIDE DEF n, w
<1>3. w # <<>> <=> n > 1
  <2>1. n - 1 = 0 <=> ~(n > 1)
    BY <1>1
  <2>. QED  BY <1>1, <1>2, <2>1
<1>. QED  BY <1>1, <1>2, <1>3 DEF n, w

\* What a step does to the rest.
LEMMA TailFacts ==
  ASSUME NEW t \in Seq(Steps), t # <<>>
  PROVE  /\ HasFixed(Tail(t)) => HasFixed(t) /\ Spared(Tail(t)) = Spared(t)
         /\ Quiet(t) => Quiet(Tail(t))
         /\ t[1].do # "unlink" => Unlinks(Tail(t)) = Unlinks(t)
         /\ t[1].do = "unlink" => Unlinks(t) = Unlinks(Tail(t)) \cup {t[1].nr}
<1>. DEFINE n == Len(t)
            w == Tail(t)
<1>1. /\ w \in Seq(Steps) /\ n \in Nat /\ n >= 1 /\ Len(w) = n - 1
      /\ \A i \in 1..(n - 1) : w[i] = t[i + 1]
  BY FirstStep
<1>. HIDE DEF n, w
<1>2. /\ \A i \in 1..(n - 1) : i + 1 \in 1..n
      /\ \A i \in 1..n : i = 1 \/ (i - 1 \in 1..(n - 1) /\ (i - 1) + 1 = i)
      /\ 1 \in 1..n
  BY <1>1
<1>3. \A i \in 1..n : i = 1 \/ (i - 1 \in 1..(n - 1) /\ w[i - 1] = t[i])
  BY <1>1, <1>2
<1>4. HasFixed(w) => HasFixed(t) /\ Spared(w) = Spared(t)
  <2>1. HasFixed(w) => HasFixed(t) /\ n - 1 \in 1..(n - 1) /\ (n - 1) + 1 = n
    BY <1>1, <1>2 DEF HasFixed, n
  <2>. QED  BY <1>1, <2>1 DEF Spared, n
<1>5. Quiet(t) => Quiet(w)
  BY <1>1, <1>2 DEF Quiet, n
<1>6. \A x \in Unlinks(w) : x \in Unlinks(t)
  BY <1>1, <1>2 DEF Unlinks, Unlinking, n
<1>7. ASSUME NEW x \in Unlinks(t)
      PROVE  x \in Unlinks(w) \/ (t[1].do = "unlink" /\ x = t[1].nr)
  <2>1. PICK i \in 1..n : t[i].do = "unlink" /\ x = t[i].nr
    BY DEF Unlinks, Unlinking, n
  <2>2. CASE i = 1
    BY <2>1, <2>2
  <2>3. CASE i # 1
    <3>1. i - 1 \in 1..Len(w) /\ w[i - 1] = t[i]
      BY <1>1, <1>3, <2>3
    <3>. QED  BY <2>1, <3>1 DEF Unlinks, Unlinking
  <2>. QED  BY <2>2, <2>3
<1>8. t[1].do = "unlink" => t[1].nr \in Unlinks(t)
  BY <1>2 DEF Unlinks, Unlinking, n
<1>. QED  BY <1>4, <1>5, <1>6, <1>7, <1>8 DEF w

LEMMA SavingFirst ==
  ASSUME NEW t \in Seq(Steps), t # <<>>, NEW ex \in BOOLEAN, Saving(t, ex)
  PROVE  /\ Saving(Tail(t), ex) /\ t[1].do # "create AWCU"
         /\ Tail(t) # <<>> /\ Tail(t)[1].do = "delete AWCU" => t[1].do = "close AWCR"
         /\ t[1].do = "delete AWCU" =>
              IF ex THEN Tail(t) = <<>> ELSE Tail(t) # <<>> /\ Tail(t)[1].do = "rename"
         /\ t[1].do = "close AWCR" => Tail(t) # <<>> /\ Tail(t)[1].do = "delete AWCU"
<1>. DEFINE n == Len(t)
            w == Tail(t)
<1>1. /\ n \in Nat /\ n >= 1 /\ Len(w) = n - 1 /\ (w # <<>> <=> n > 1)
      /\ \A i \in 1..(n - 1) : w[i] = t[i + 1]
  BY FirstStep
<1>2. Saving(w, ex)
  BY SavingTail
<1>. HIDE DEF n, w
<1>3. 1 \in 1..n /\ ~(1 > 1) /\ (n > 1 => 1 \in 1..(n - 1) /\ 2 \in 1..n /\ w[1] = t[2])
      /\ 1 + 1 = 2 /\ 2 - 1 = 1 /\ 2 > 1 /\ (1 < n <=> n > 1) /\ (n = 1 <=> ~(n > 1))
  <2>1. 1 \in 1..n /\ (n > 1 => 1 \in 1..(n - 1) /\ 2 \in 1..n)
    BY <1>1
  <2>2. n > 1 => w[1] = t[1 + 1]
    BY <1>1, <2>1
  <2>. QED  BY <1>1, <2>1, <2>2
<1>4. t[1].do # "create AWCU"
  BY <1>3 DEF Saving, n
<1>5. w # <<>> /\ w[1].do = "delete AWCU" => t[1].do = "close AWCR"
  BY <1>1, <1>3 DEF Saving, n
<1>6. t[1].do = "delete AWCU" => IF ex THEN w = <<>> ELSE w # <<>> /\ w[1].do = "rename"
  BY <1>1, <1>3 DEF Saving, n
<1>7. t[1].do = "close AWCR" => w # <<>> /\ w[1].do = "delete AWCU"
  BY <1>1, <1>3 DEF Saving, n
<1>. QED  BY <1>2, <1>4, <1>5, <1>6, <1>7 DEF w

LEMMA StartingFirst ==
  ASSUME NEW t \in Seq(Steps), NEW renames \in BOOLEAN, Starting(t, renames)
  PROVE  /\ t # <<>>
         /\ Tail(t) = <<>> => t[1].do = IF renames THEN "rename" ELSE "create AWCU"
         /\ Tail(t) # <<>> => /\ t[1].do = "unlink" /\ Starting(Tail(t), renames)
                              /\ Tail(t)[1].do # "delete AWCU"
<1>. DEFINE n == Len(t)
            w == Tail(t)
<1>0. t # <<>>
  BY DEF Starting
<1>1. /\ n \in Nat /\ n >= 1 /\ Len(w) = n - 1 /\ (w # <<>> <=> n > 1)
      /\ \A i \in 1..(n - 1) : w[i] = t[i + 1]
  BY <1>0, FirstStep
<1>2. /\ \A i \in 1..(n - 1) : t[i].do = "unlink"
      /\ t[n].do = IF renames THEN "rename" ELSE "create AWCU"
  BY DEF Starting
<1>. HIDE DEF n, w
<1>3. w = <<>> => t[1].do = IF renames THEN "rename" ELSE "create AWCU"
  <2>1. w = <<>> => n = 1
    BY <1>1
  <2>. QED  BY <1>2, <2>1
<1>4. ASSUME w # <<>>
      PROVE  t[1].do = "unlink" /\ Starting(w, renames) /\ w[1].do # "delete AWCU"
  <2>1. n > 1 /\ 1 \in 1..(n - 1) /\ n - 1 \in 1..(n - 1) /\ (n - 1) + 1 = n
    BY <1>1, <1>4
  <2>2. t[1].do = "unlink"
    BY <1>2, <2>1
  <2>3. w[n - 1] = t[n]
    <3>1. w[n - 1] = t[(n - 1) + 1]
      BY <1>1, <2>1
    <3>. QED  BY <2>1, <3>1
  <2>4. ASSUME NEW i \in 1..((n - 1) - 1)  PROVE w[i].do = "unlink"
    <3>1. i \in 1..(n - 1) /\ i + 1 \in 1..(n - 1)
      BY <1>1
    <3>. QED  BY <1>1, <1>2, <3>1
  <2>5. Starting(w, renames)
    BY <1>1, <1>2, <1>4, <2>3, <2>4 DEF Starting
  <2>6. w[1].do # "delete AWCU"
    <3>1. n - 1 = 1 \/ 1 \in 1..((n - 1) - 1)
      BY <1>1, <2>1
    <3>2. CASE n - 1 = 1
      BY <1>2, <2>3, <3>2
    <3>3. CASE 1 \in 1..((n - 1) - 1)
      <4>1. w[1].do = "unlink"
        BY <2>4, <3>3
      <4>. QED  BY <4>1
    <3>. QED  BY <3>1, <3>2, <3>3
  <2>. QED  BY <2>2, <2>5, <2>6
<1>. QED  BY <1>0, <1>3, <1>4 DEF w

\* What a step of the disk leaves alone.
Steady ==
  /\ phase' = phase /\ cache' = cache /\ fetching' = fetching /\ cachenr' = cachenr
  /\ cadisksize' = cadisksize /\ nradded' = nradded /\ sizeadded' = sizeadded
  /\ flushing' = flushing /\ now' = now /\ crashes' = crashes

LEMMA SteadyFacts ==
  ASSUME CacheInv, Steady
  PROVE  Accounted' /\ Registration' = Registration
<1>1. Accounted'
  BY DEF CacheInv, Accounted, Steady
<1>2. Registration' = Registration
  BY DEF Registration, Steady, Registered
<1>. QED  BY <1>1, <1>2

LEMMA DiskCases ==
  ASSUME CacheInv, DiskStep
  PROVE  /\ Steady /\ faults' = faults /\ todo # <<>> /\ phase # "down" /\ todo' = Tail(todo)
         /\ \/ /\ todo[1].do \in {"create", "close", "unlink"} /\ awcr' = awcr /\ awcu' = awcu
               /\ \E v \in {"none", "partial", "whole"} :
                    /\ files' = [files EXCEPT ![todo[1].nr] = v]
                    /\ todo[1].do = "unlink" => v = "none"
            \/ /\ todo[1].do = "append" /\ awcr' = awcr /\ files' = files
               /\ awcu' = Entered(awcu, todo[1].entry)
            \/ /\ todo[1].do = "create AWCU" /\ awcr' = awcr /\ files' = files
               /\ awcu' = [NoFile EXCEPT !.there = TRUE]
            \/ /\ todo[1].do = "open AWCR" /\ awcu' = awcu /\ files' = files
               /\ awcr' = [NoFile EXCEPT !.there = TRUE]
            \/ /\ todo[1].do = "close AWCR" /\ awcu' = awcu /\ files' = files
               /\ awcr' = Registration
            \/ /\ todo[1].do = "delete AWCU" /\ awcr' = awcr /\ files' = files
               /\ awcu' = NoFile
            \/ /\ todo[1].do = "rename" /\ files' = files
               /\ IF awcr.there /\ ~awcu.there
                  THEN awcu' = awcr /\ awcr' = NoFile
                  ELSE awcu' = awcu /\ awcr' = awcr
<1>1. todo # <<>> /\ todo \in Seq(Steps)
  BY DEF DiskStep, CacheInv, CacheTypes
<1>2. Head(todo) = todo[1]
  BY <1>1, FirstStep
<1>3. Steady /\ faults' = faults /\ phase # "down" /\ todo' = Tail(todo)
  BY DEF DiskStep, Steady, memory
<1>. QED  BY <1>1, <1>2, <1>3 DEF DiskStep, Entered

LEMMA StepTypes ==
  ASSUME NEW x \in Steps
  PROVE  /\ x.do \in {"create", "close", "unlink"} => x.nr \in Nr
         /\ x.do = "append" => x.entry \in Entries
<1>1. CASE x \in [do : {"create", "close", "unlink"}, nr : Nr]
  BY <1>1
<1>2. CASE x \in [do : {"append"}, entry : Entries]
  BY <1>2
<1>3. CASE x \in [do : Accesses]
  BY <1>3 DEF Accesses
<1>4. CASE x \in [do : {"fixed"}, shared : SUBSET Nr]
  BY <1>4
<1>. QED  BY <1>1, <1>2, <1>3, <1>4 DEF Steps

LEMMA DiskRegs ==
  ASSUME CacheInv, DiskStep
  PROVE  awcr' \in Regs /\ awcu' \in Regs /\ \A reg \in {awcr', awcu'} : ~reg.there => reg = NoFile
<1>1. awcr \in Regs /\ awcu \in Regs /\ todo \in Seq(Steps)
      /\ (~awcr.there => awcr = NoFile) /\ (~awcu.there => awcu = NoFile)
  BY DEF CacheInv, CacheTypes, Registers
<1>2. Registration \in Regs /\ Registration.there
  BY RegistrationFacts DEF CacheInv
<1>3. /\ NoFile \in Regs
      /\ [NoFile EXCEPT !.there = TRUE] \in Regs /\ [NoFile EXCEPT !.there = TRUE].there
  BY NoFileFacts
<1>4. todo # <<>> => todo[1] \in Steps
  BY <1>1, FirstStep
<1>5. CASE todo[1].do = "append" /\ todo # <<>>
  <2>1. todo[1].entry \in Entries
    BY <1>4, <1>5, StepTypes
  <2>2. Entered(awcu, todo[1].entry) \in Regs /\ Entered(awcu, todo[1].entry).there
    BY <1>1, <2>1, EnteredFacts
  <2>. QED  BY <1>1, <1>5, <2>2, DiskCases
<1>6. CASE todo[1].do # "append"
  <2>. DEFINE p == [NoFile EXCEPT !.there = TRUE]
  <2>1. p \in Regs /\ p.there /\ NoFile \in Regs
    BY <1>3
  <2>2. \/ awcr' = awcr /\ awcu' = awcu
        \/ awcr' = awcr /\ awcu' = p
        \/ awcu' = awcu /\ awcr' = p
        \/ awcu' = awcu /\ awcr' = Registration
        \/ awcr' = awcr /\ awcu' = NoFile
        \/ awcu' = awcr /\ awcr' = NoFile
    BY <1>6, DiskCases
  <2>. HIDE DEF p
  <2>. QED  BY <1>1, <1>2, <2>1, <2>2
<1>. QED  BY <1>5, <1>6, DiskCases

LEMMA DiskFiles ==
  ASSUME CacheInv, DiskStep
  PROVE  files' \in [Nr -> {"none", "partial", "whole"}] /\ Repairing'
<1>1. files \in [Nr -> {"none", "partial", "whole"}] /\ todo \in Seq(Steps) /\ todo # <<>>
      /\ todo' = Tail(todo) /\ cache' = cache
  BY DiskCases DEF CacheInv, CacheTypes, Steady
<1>2. todo[1] \in Steps
  BY <1>1, FirstStep
<1>3. CASE todo[1].do \in {"create", "close", "unlink"}
  <2>1. todo[1].nr \in Nr
    BY <1>2, <1>3, StepTypes
  <2>2. PICK v \in {"none", "partial", "whole"} :
          files' = [files EXCEPT ![todo[1].nr] = v] /\ (todo[1].do = "unlink" => v = "none")
    BY <1>3, DiskCases
  <2>3. files' \in [Nr -> {"none", "partial", "whole"}]
    BY <1>1, <2>1, <2>2
  <2>4. ASSUME HasFixed(todo')
        PROVE  /\ Quiet(todo')
               /\ Synchronizes(ToSet(cache'), files', Unlinks(todo'), Spared(todo'))
    <3>1. /\ HasFixed(todo) /\ Quiet(todo) /\ Spared(todo') = Spared(todo)
          /\ Synchronizes(ToSet(cache), files, Unlinks(todo), Spared(todo))
      BY <1>1, <2>4, TailFacts DEF CacheInv, Repairing
    <3>2. Quiet(todo')
      BY <1>1, <3>1, TailFacts
    <3>3. todo[1].do = "unlink"
      <4>1. 1 \in 1..Len(todo)
        BY <1>1
      <4>. QED  BY <1>3, <3>1, <4>1 DEF Quiet
    <3>4. Unlinks(todo) = Unlinks(todo') \cup {todo[1].nr}
      BY <1>1, <3>3, TailFacts
    <3>5. \A n \in Nr : files'[n] = IF n = todo[1].nr THEN "none" ELSE files[n]
      BY <1>1, <2>1, <2>2, <3>3
    <3>6. \A o \in ToSet(cache) : o.nr \in Nr
      BY InvFacts DEF Objects
    <3>7. Synchronizes(ToSet(cache), files', Unlinks(todo'), Spared(todo'))
      BY <3>1, <3>4, <3>5, <3>6 DEF Synchronizes
    <3>. QED  BY <1>1, <3>2, <3>7
  <2>. QED  BY <2>3, <2>4 DEF Repairing
<1>4. CASE todo[1].do \notin {"create", "close", "unlink"}
  <2>1. files' = files
    BY <1>4, DiskCases
  <2>2. Unlinks(todo') = Unlinks(todo)
        /\ (HasFixed(todo') => HasFixed(todo) /\ Spared(todo') = Spared(todo))
        /\ (Quiet(todo) => Quiet(todo'))
    BY <1>1, <1>4, TailFacts
  <2>3. Repairing'
    BY <1>1, <2>1, <2>2 DEF CacheInv, Repairing
  <2>. QED  BY <1>1, <2>1, <2>3
<1>. QED  BY <1>3, <1>4

LEMMA DiskRegisters ==
  ASSUME CacheInv, DiskStep
  PROVE  Registers'
<1>. DEFINE ex == phase = "exited"
<1>1. /\ Steady /\ todo # <<>> /\ phase # "down" /\ todo' = Tail(todo) /\ todo \in Seq(Steps)
      /\ phase' = phase
  BY DiskCases DEF CacheInv, CacheTypes, Steady
<1>2. \A reg \in {awcr', awcu'} : ~reg.there => reg = NoFile
  BY DiskRegs
<1>3. Registration' = Registration /\ Registration.there /\ ~NoFile.there
      /\ awcr.there \in BOOLEAN /\ awcu.there \in BOOLEAN
  BY <1>1, SteadyFacts, RegistrationFacts, NoFileFacts DEF CacheInv, CacheTypes, Regs
<1>4. ex \in BOOLEAN /\ (phase' = "exited") = ex
  BY <1>1
<1>. HIDE DEF ex
<1>5. Saving(<<>>, ex)
  <2>1. 1..Len(<<>>) = {}
    OBVIOUS
  <2>. QED  BY <2>1 DEF Saving
<1>6. CASE awcu.there
  <2>1. Saving(todo, ex)
    BY <1>6 DEF CacheInv, Registers, ex
  <2>2. /\ Saving(todo', ex) /\ todo[1].do # "create AWCU"
        /\ todo' # <<>> /\ todo'[1].do = "delete AWCU" => todo[1].do = "close AWCR"
        /\ todo[1].do = "delete AWCU" =>
              IF ex THEN todo' = <<>> ELSE todo' # <<>> /\ todo'[1].do = "rename"
    BY <1>1, <1>4, <2>1, SavingFirst
  <2>3. CASE todo[1].do = "delete AWCU"
    <3>1. awcu' = NoFile /\ awcr' = awcr /\ awcr = Registration
      BY <1>1, <2>3, DiskCases DEF CacheInv, Registers
    <3>2. \/ todo' = <<>> /\ phase' # "up"
          \/ todo' # <<>> /\ awcr'.there /\ todo'[1].do = "rename" /\ Saving(todo', ex)
      BY <1>1, <1>3, <2>2, <2>3, <3>1 DEF ex
    <3>3. todo' # <<>> => todo'[1].do # "delete AWCU"
      BY <2>2, <2>3
    <3>. QED  BY <1>1, <1>2, <1>3, <1>4, <3>1, <3>2, <3>3 DEF Registers
  <2>4. CASE todo[1].do # "delete AWCU"
    <3>1. awcu'.there
      <4>1. CASE todo[1].do = "append"
        <5>1. todo[1].entry \in Entries /\ awcu \in Regs
          BY <1>1, <4>1, FirstStep, StepTypes DEF CacheInv, CacheTypes
        <5>2. awcu' = Entered(awcu, todo[1].entry)
          BY <4>1, DiskCases
        <5>. QED  BY <5>1, <5>2, EnteredFacts
      <4>2. CASE todo[1].do # "append"
        <5>1. awcu' = awcu
          BY <1>6, <2>2, <2>4, <4>2, DiskCases
        <5>. QED  BY <1>6, <5>1
      <4>. QED  BY <4>1, <4>2
    <3>2. todo' # <<>> /\ todo'[1].do = "delete AWCU" => awcr' = Registration
      <4>1. todo[1].do = "close AWCR" => awcr' = Registration
        BY DiskCases
      <4>. QED  BY <2>2, <4>1
    <3>. QED  BY <1>1, <1>2, <1>3, <1>4, <2>2, <3>1, <3>2 DEF Registers
  <2>. QED  BY <2>3, <2>4
<1>7. CASE ~awcu.there /\ awcr.there /\ todo[1].do = "rename" /\ Saving(todo, ex)
  <2>1. /\ Saving(todo', ex)
        /\ todo' # <<>> /\ todo'[1].do = "delete AWCU" => todo[1].do = "close AWCR"
    BY <1>1, <1>4, <1>7, SavingFirst
  <2>2. awcu' = awcr
    BY <1>7, DiskCases
  <2>. QED  BY <1>1, <1>2, <1>4, <1>7, <2>1, <2>2 DEF Registers
<1>8. CASE ~awcu.there /\ Starting(todo, awcr.there)
  <2>1. /\ todo' = <<>> => todo[1].do = IF awcr.there THEN "rename" ELSE "create AWCU"
        /\ todo' # <<>> => /\ todo[1].do = "unlink" /\ Starting(todo', awcr.there)
                           /\ todo'[1].do # "delete AWCU"
    BY <1>1, <1>3, <1>8, StartingFirst
  <2>2. CASE todo' = <<>>
    <3>1. awcu'.there
      <4>1. CASE awcr.there
        BY <1>8, <2>1, <2>2, <4>1, DiskCases
      <4>2. CASE ~awcr.there
        <5>1. awcu' = [NoFile EXCEPT !.there = TRUE]
          BY <2>1, <2>2, <4>2, DiskCases
        <5>. QED  BY <5>1, NoFileFacts
      <4>. QED  BY <4>1, <4>2
    <3>. QED  BY <1>1, <1>2, <1>4, <1>5, <2>2, <3>1 DEF Registers
  <2>3. CASE todo' # <<>>
    <3>1. awcu' = awcu /\ awcr' = awcr
      BY <2>1, <2>3, DiskCases
    <3>. QED  BY <1>1, <1>2, <1>8, <2>1, <2>3, <3>1 DEF Registers
  <2>. QED  BY <2>2, <2>3
<1>. QED  BY <1>1, <1>3, <1>6, <1>7, <1>8 DEF CacheInv, Registers, ex

LEMMA DiskStepInv ==
  ASSUME CacheInv, DiskStep
  PROVE  CacheInv'
<1>1. /\ Steady /\ faults' = faults /\ todo # <<>> /\ todo' = Tail(todo) /\ todo \in Seq(Steps)
  BY DiskCases DEF CacheInv, CacheTypes
<1>2. todo' \in Seq(Steps)
  BY <1>1, FirstStep
<1>3. CacheTypes'
  BY <1>1, <1>2, DiskRegs, DiskFiles DEF CacheInv, CacheTypes, Steady
<1>. QED  BY <1>1, <1>3, SteadyFacts, DiskFiles, DiskRegisters DEF CacheInv

LEMMA SaveFailsInv ==
  ASSUME CacheInv, SaveFails
  PROVE  CacheInv'
<1>. DEFINE ex == phase = "exited"
            w == Tail(todo)
<1>1. /\ todo # <<>> /\ Head(todo).do = "close AWCR" /\ phase # "down"
      /\ awcr' = NoFile /\ awcu' = awcu /\ files' = files /\ faults' = faults + 1
      /\ crashes + faults < MaxTroubles /\ todo' = Tail(w)
  BY DEF SaveFails
<1>2. Steady
  BY DEF SaveFails, Steady, memory
<1>3. todo \in Seq(Steps) /\ awcr.there \in BOOLEAN /\ awcu.there \in BOOLEAN
  BY DEF CacheInv, CacheTypes, Regs
<1>4. todo[1].do = "close AWCR" /\ w \in Seq(Steps)
  BY <1>1, <1>3, FirstStep
<1>5. awcu.there /\ Saving(todo, ex)
  <2>1. ~Starting(todo, awcr.there)
    <3>1. SUFFICES ASSUME Starting(todo, awcr.there)  PROVE FALSE
      OBVIOUS
    <3>. QED  BY <1>3, <1>4, <3>1, StartingFirst
  <2>. QED  BY <1>1, <1>3, <1>4, <2>1 DEF CacheInv, Registers, ex
<1>6. ex \in BOOLEAN /\ (phase' = "exited") = ex
  BY <1>2 DEF Steady
<1>. HIDE DEF ex
<1>7. Saving(w, ex) /\ w # <<>> /\ w[1].do = "delete AWCU"
  BY <1>1, <1>3, <1>4, <1>5, <1>6, SavingFirst
<1>8. /\ Saving(Tail(w), ex)
      /\ Tail(w) # <<>> => Tail(w)[1].do # "delete AWCU"
  BY <1>4, <1>6, <1>7, SavingFirst
<1>9. /\ Tail(w) \in Seq(Steps)
      /\ HasFixed(Tail(w)) => HasFixed(todo) /\ Spared(Tail(w)) = Spared(todo)
      /\ Quiet(todo) => Quiet(Tail(w))
      /\ Unlinks(Tail(w)) = Unlinks(todo)
  <2>1. /\ HasFixed(w) => HasFixed(todo) /\ Spared(w) = Spared(todo)
        /\ Quiet(todo) => Quiet(w)
        /\ Unlinks(w) = Unlinks(todo)
    BY <1>1, <1>3, <1>4, TailFacts
  <2>. HIDE DEF w
  <2>2. /\ HasFixed(Tail(w)) => HasFixed(w) /\ Spared(Tail(w)) = Spared(w)
        /\ Quiet(w) => Quiet(Tail(w))
        /\ Unlinks(Tail(w)) = Unlinks(w)
    BY <1>4, <1>7, TailFacts
  <2>3. Tail(w) \in Seq(Steps)
    BY <1>4, <1>7, FirstStep
  <2>. QED  BY <2>1, <2>2, <2>3
<1>. HIDE DEF w
<1>10. CacheTypes'
  <2>1. /\ phase' \in {"down", "up", "exited"}
        /\ cache' \in Seq(Objects) /\ fetching' \subseteq Urls /\ cachenr' \in 0..MaxNr
        /\ nradded' \in 0..NRCHKPT /\ sizeadded' \in 0..CHKAFTER /\ flushing' \in 0..MaxNr
        /\ todo' \in Seq(Steps) /\ awcr' \in Regs /\ awcu' \in Regs
        /\ files' \in [Nr -> {"none", "partial", "whole"}] /\ now' \in BOOLEAN
    BY <1>1, <1>2, <1>9, NoFileFacts DEF CacheInv, CacheTypes, Steady
  <2>2. crashes' \in Nat /\ faults' \in Nat /\ crashes' + faults' <= MaxTroubles
    <3>1. crashes \in Nat /\ faults \in Nat /\ MaxTroubles \in Nat /\ crashes' = crashes
      BY <1>2, CacheAssumption DEF CacheInv, CacheTypes, Steady
    <3>2. faults' = faults + 1 /\ crashes + faults < MaxTroubles
      BY DEF SaveFails
    <3>. QED  BY <3>1, <3>2
  <2>. QED  BY <2>1, <2>2 DEF CacheTypes
<1>11. Registers'
  BY <1>1, <1>2, <1>5, <1>6, <1>8 DEF CacheInv, Registers, Steady
<1>12. Repairing'
  BY <1>1, <1>2, <1>9 DEF CacheInv, Repairing, Steady
<1>. QED  BY <1>2, <1>10, <1>11, <1>12, SteadyFacts DEF CacheInv

LEMMA EmptyAccounted ==
  ASSUME NEW nr, NEW f
  PROVE  /\ <<>> \in Seq(Objects) /\ Distinct(<<>>) /\ ToSet(<<>>) = {} /\ SizeOf(<<>>) = 0
         /\ Sound({}, nr, f) /\ Saving(<<>>, TRUE) /\ Saving(<<>>, FALSE) /\ ~HasFixed(<<>>)
<1>1. <<>> \in Seq(Objects) /\ Len(<<>>) = 0 /\ 1..0 = {} /\ DOMAIN <<>> = {}
  OBVIOUS
<1>2. SizeOf(<<>>) = 0
  <2>1. PICK s : Sums(s, <<>>) /\ SizeOf(<<>>) = s[Len(<<>>)]
    BY <1>1, SizeOfFacts
  <2>. QED  BY <1>1, <2>1 DEF Sums
<1>3. Distinct(<<>>) /\ Saving(<<>>, TRUE) /\ Saving(<<>>, FALSE) /\ ~HasFixed(<<>>)
  BY <1>1 DEF Distinct, Saving, HasFixed
<1>4. ToSet(<<>>) = {}
  BY <1>1 DEF ToSet
<1>5. Sound({}, nr, f)
  BY DEF Sound, Numbered, Fresher, OneHeld, Verifying, Reloading, Replayed
<1>. QED  BY <1>1, <1>2, <1>3, <1>4, <1>5

LEMMA CrashCases ==
  ASSUME CacheInv, Crash
  PROVE  /\ awcu' = awcu \/ awcu' = Entered(awcu, Torn)
         /\ phase' = "down" /\ cache' = <<>> /\ fetching' = {} /\ cachenr' = 0 /\ cadisksize' = 0
         /\ nradded' = 0 /\ sizeadded' = 0 /\ flushing' = 0 /\ todo' = <<>>
         /\ awcr' = awcr /\ files' = files /\ now' = now /\ faults' = faults
         /\ crashes' = crashes + 1 /\ crashes + faults < MaxTroubles
BY DEF Crash, Entered

LEMMA CrashInv ==
  ASSUME CacheInv, Crash
  PROVE  CacheInv'
<1>1. /\ awcu' = awcu \/ awcu' = Entered(awcu, Torn)
      /\ phase' = "down" /\ cache' = <<>> /\ fetching' = {} /\ cachenr' = 0 /\ cadisksize' = 0
      /\ nradded' = 0 /\ sizeadded' = 0 /\ flushing' = 0 /\ todo' = <<>>
      /\ awcr' = awcr /\ files' = files /\ now' = now /\ faults' = faults
      /\ crashes' = crashes + 1 /\ crashes + faults < MaxTroubles
  BY CrashCases
<1>2. awcu \in Regs /\ awcu.there \in BOOLEAN
  BY DEF CacheInv, CacheTypes, Regs
<1>3. Entered(awcu, Torn) \in Regs /\ Entered(awcu, Torn).there
  BY <1>2, EnteredFacts
<1>4. awcu' \in Regs /\ (~awcu'.there => awcu' = NoFile)
  BY <1>1, <1>2, <1>3 DEF CacheInv, Registers
<1>5. CacheTypes'
  <2>1. /\ phase' \in {"down", "up", "exited"}
        /\ cache' \in Seq(Objects) /\ fetching' \subseteq Urls /\ cachenr' \in 0..MaxNr
        /\ nradded' \in 0..NRCHKPT /\ sizeadded' \in 0..CHKAFTER /\ flushing' \in 0..MaxNr
        /\ todo' \in Seq(Steps) /\ awcr' \in Regs /\ awcu' \in Regs
        /\ files' \in [Nr -> {"none", "partial", "whole"}] /\ now' \in BOOLEAN
    BY <1>1, <1>4, CacheAssumption, EmptyLinked, EmptyAccounted DEF CacheInv, CacheTypes
  <2>2. crashes' \in Nat /\ faults' \in Nat /\ crashes' + faults' <= MaxTroubles
    <3>1. crashes \in Nat /\ faults \in Nat /\ MaxTroubles \in Nat
      BY CacheAssumption DEF CacheInv, CacheTypes
    <3>2. crashes' = crashes + 1 /\ faults' = faults /\ crashes + faults < MaxTroubles
      BY CrashCases
    <3>. QED  BY <3>1, <3>2
  <2>. QED  BY <2>1, <2>2 DEF CacheTypes
<1>6. Accounted'
  BY <1>1, EmptyAccounted DEF Accounted
<1>7. Registers'
  <2>1. (phase' = "exited") = FALSE /\ phase' # "up"
    BY <1>1
  <2>. QED  BY <1>1, <1>4, <2>1, EmptyAccounted DEF CacheInv, Registers
<1>8. Repairing'
  BY <1>1, EmptyAccounted DEF Repairing
<1>. QED  BY <1>5, <1>6, <1>7, <1>8 DEF CacheInv

\* A start: the files of expired and deleted objects go,
Clearing(deleted) == [i \in 1..Len(deleted) |-> [do |-> "unlink", nr |-> deleted[i]]]

LEMMA ClearingFacts ==
  ASSUME NEW deleted \in Seq(Nr)
  PROVE  /\ Clearing(deleted) \in Seq(Steps) /\ Linked(Clearing(deleted))
         /\ \A i \in 1..Len(Clearing(deleted)) : Clearing(deleted)[i].do = "unlink"
<1>. DEFINE n == Len(deleted)
            t == Clearing(deleted)
<1>1. n \in Nat /\ \A i \in 1..n : deleted[i] \in Nr
  OBVIOUS
<1>2. t = [i \in 1..n |-> Deleting(deleted[i])]
  BY DEF Clearing, Deleting
<1>. HIDE DEF n, t
<1>3. \A i \in 1..n : t[i] \in Steps /\ t[i].do = "unlink"
  BY <1>1, <1>2, NumberSteps
<1>4. t \in [1..n -> Steps]
  BY <1>2, <1>3
<1>5. t \in Seq(Steps) /\ Len(t) = n
  BY <1>1, <1>2, <1>4
<1>6. Linked(t)
  BY <1>3, <1>5, PlainLinked
<1>. QED  BY <1>3, <1>5, <1>6 DEF t

\* and then AWCU is made of what there is.
Making(x, renames) == x.do = IF renames THEN "rename" ELSE "create AWCU"

LEMMA StartingFacts ==
  ASSUME NEW s \in Seq(Steps), \A i \in 1..Len(s) : s[i].do = "unlink",
         NEW x \in Steps, NEW renames \in BOOLEAN, Making(x, renames)
  PROVE  /\ s \o <<x>> \in Seq(Steps) /\ Starting(s \o <<x>>, renames)
         /\ ~HasFixed(s \o <<x>>)
         /\ s \o <<x>> # <<>> => (s \o <<x>>)[1].do # "delete AWCU"
<1>. DEFINE w == Append(s, x)
            n == Len(s)
<1>1. /\ n \in Nat /\ w \in Seq(Steps) /\ Len(w) = n + 1 /\ w[n + 1] = x
      /\ \A i \in 1..n : w[i] = s[i]
  OBVIOUS
<1>2. w = s \o <<x>>
  BY AppendConcat
<1>. HIDE DEF w, n
<1>3. w # <<>> /\ (n + 1) - 1 = n
  <2>1. Len(w) # 0 /\ Len(<<>>) = 0
    BY <1>1
  <2>. QED  BY <1>1, <2>1
<1>4. Starting(w, renames)
  BY <1>1, <1>3 DEF Starting, Making, n
<1>5. ASSUME NEW i \in 1..Len(w)  PROVE w[i].do # "fixed" /\ w[i].do # "delete AWCU"
  <2>1. i \in 1..n \/ i = n + 1
    BY <1>1
  <2>2. CASE i \in 1..n
    <3>1. w[i].do = "unlink"
      BY <1>1, <2>2 DEF n
    <3>. QED  BY <3>1
  <2>3. CASE i = n + 1
    BY <1>1, <2>3 DEF Making
  <2>. QED  BY <2>1, <2>2, <2>3
<1>6. ~HasFixed(w) /\ w[1].do # "delete AWCU"
  <2>1. 1 \in 1..Len(w)
    BY <1>1
  <2>. QED  BY <1>5, <2>1 DEF HasFixed
<1>. QED  BY <1>1, <1>2, <1>4, <1>6

LEMMA ReadSound ==
  ASSUME NEW late \in BOOLEAN, NEW r, Goodread(r, late)
  PROVE  /\ r.cache \in Seq(Objects) /\ Distinct(r.cache) /\ r.deleted \in Seq(Nr)
         /\ r.lastnr \in 0..MaxNr /\ Sound(ToSet(r.cache), r.lastnr, {})
<1>. DEFINE S == ToSet(r.cache)
<1>1. /\ r.cache \in Seq(Objects) /\ Distinct(r.cache) /\ r.deleted \in Seq(Nr)
      /\ r.lastnr \in 0..MaxNr /\ OneCache(S)
      /\ \A x \in S : x.nr <= r.lastnr /\ x.twin > 0 /\ x.as \in {"cache", "dup"}
  BY DEF Goodread, Reads, Restored
<1>. HIDE DEF S
<1>2. Numbered(S, r.lastnr) /\ Fresher(S)
  BY <1>1 DEF Numbered, Fresher
<1>3. OneHeld(S)
  BY <1>1 DEF OneHeld, OneCache
<1>4. Verifying(S, {}) /\ Reloading(S, {})
  BY <1>1 DEF Verifying, Reloading
<1>5. Replayed(S)
  BY <1>1 DEF Replayed, OneCache
<1>. QED  BY <1>1, <1>2, <1>3, <1>4, <1>5 DEF Sound, S

LEMMA InitcacheCases ==
  ASSUME CacheInv, Initcache, NEW r, r = Replay(Recoverable, now)
  PROVE  /\ phase \in {"down", "exited"} /\ todo = <<>> /\ phase' = "up" /\ fetching' = {}
         /\ nradded' = 0 /\ sizeadded' = 0 /\ flushing' = 0
         /\ awcr' = awcr /\ awcu' = awcu /\ files' = files /\ now' = now
         /\ crashes' = crashes /\ faults' = faults
         /\ cache' = r.cache /\ cachenr' = r.lastnr /\ cadisksize' = SizeOf(r.cache)
         /\ awcu.there => todo' = Clearing(r.deleted) \o Compaction
         /\ ~awcu.there /\ awcr.there => todo' = Clearing(r.deleted) \o <<[do |-> "rename"]>>
         /\ ~awcu.there /\ ~awcr.there => todo' = Clearing(r.deleted) \o <<[do |-> "create AWCU"]>>
BY DEF Initcache, onDisk, Clearing

LEMMA InitcacheInv ==
  ASSUME CacheInv, Initcache
  PROVE  CacheInv'
<1>. DEFINE r == Replay(Recoverable, now)
            s == Clearing(r.deleted)
<1>1. /\ todo = <<>> /\ phase' = "up" /\ fetching' = {}
      /\ nradded' = 0 /\ sizeadded' = 0 /\ flushing' = 0
      /\ awcr' = awcr /\ awcu' = awcu /\ files' = files /\ now' = now
      /\ crashes' = crashes /\ faults' = faults
      /\ cache' = r.cache /\ cachenr' = r.lastnr /\ cadisksize' = SizeOf(r.cache)
  BY InitcacheCases
<1>2. /\ awcu.there => todo' = s \o Compaction
      /\ ~awcu.there /\ awcr.there => todo' = s \o <<[do |-> "rename"]>>
      /\ ~awcu.there /\ ~awcr.there => todo' = s \o <<[do |-> "create AWCU"]>>
  BY InitcacheCases
<1>3. awcr \in Regs /\ awcu \in Regs /\ awcr.there \in BOOLEAN /\ awcu.there \in BOOLEAN
      /\ now \in BOOLEAN
  BY DEF CacheInv, CacheTypes, Regs
<1>4. Goodread(r, now)
  <2>1. Recoverable \in Regs
    BY <1>3 DEF Recoverable
  <2>. QED  BY <1>3, <2>1, ReplayGood
<1>. HIDE DEF r
<1>5. /\ r.cache \in Seq(Objects) /\ Distinct(r.cache) /\ r.deleted \in Seq(Nr)
      /\ r.lastnr \in 0..MaxNr /\ Sound(ToSet(r.cache), r.lastnr, {})
  BY <1>3, <1>4, ReadSound
<1>6. s \in Seq(Steps) /\ Linked(s) /\ \A i \in 1..Len(s) : s[i].do = "unlink"
  BY <1>5, ClearingFacts
<1>. HIDE DEF s
<1>. DEFINE w == todo'
<1>7. /\ w \in Seq(Steps) /\ ~HasFixed(w) /\ (w # <<>> => w[1].do # "delete AWCU")
      /\ awcu.there => Saving(w, FALSE)
      /\ ~awcu.there => Starting(w, awcr.there)
  <2>1. CASE awcu.there
    <3>. DEFINE t == s \o Compaction
    <3>1. w = t
      BY <1>2, <2>1
    <3>2. t \in Seq(Steps) /\ Linked(t)
      BY <1>6, CompactionFacts, LinkedConcat
    <3>. HIDE DEF w, t
    <3>3. Saving(t, FALSE) /\ ~HasFixed(t) /\ (t # <<>> => t[1].do # "delete AWCU")
      BY <3>2, LinkedSaving
    <3>. QED  BY <2>1, <3>1, <3>2, <3>3
  <2>2. CASE ~awcu.there
    <3>. DEFINE x == IF awcr.there THEN [do |-> "rename"] ELSE [do |-> "create AWCU"]
    <3>1. x \in [do : Accesses] /\ Making(x, awcr.there)
      BY DEF Accesses, Making
    <3>2. w = s \o <<x>>
      BY <1>2, <2>2
    <3>. HIDE DEF w, x
    <3>3. x \in Steps
      BY <3>1 DEF Steps
    <3>4. /\ s \o <<x>> \in Seq(Steps) /\ Starting(s \o <<x>>, awcr.there)
          /\ ~HasFixed(s \o <<x>>)
          /\ s \o <<x>> # <<>> => (s \o <<x>>)[1].do # "delete AWCU"
      BY <1>3, <1>6, <3>1, <3>3, StartingFacts
    <3>. QED  BY <2>2, <3>2, <3>4
  <2>. QED  BY <2>1, <2>2
<1>8. 0 \in 0..NRCHKPT /\ 0 \in 0..CHKAFTER /\ 0 \in 0..MaxNr
  BY CacheAssumption
<1>9. CacheTypes'
  BY <1>1, <1>3, <1>5, <1>7, <1>8 DEF CacheInv, CacheTypes
<1>10. Accounted'
  BY <1>1, <1>5 DEF Accounted
<1>11. Registers'
  <2>1. (phase' = "exited") = FALSE /\ phase' # "down"
    BY <1>1
  <2>. QED  BY <1>1, <1>7, <2>1 DEF CacheInv, Registers
<1>12. Repairing'
  BY <1>7 DEF Repairing
<1>. QED  BY <1>9, <1>10, <1>11, <1>12 DEF CacheInv

-----------------------------------------------------------------------------
(* The invariant holds.                                                      *)

LEMMA CacheInitInv ==
  ASSUME CacheInit
  PROVE  CacheInv
<1>1. /\ phase = "down" /\ cache = <<>> /\ fetching = {} /\ cachenr = 0
      /\ cadisksize = 0 /\ nradded = 0 /\ sizeadded = 0 /\ flushing = 0 /\ todo = <<>>
      /\ awcr = NoFile /\ awcu = NoFile /\ files = [n \in Nr |-> "none"]
      /\ now = FALSE /\ crashes = 0 /\ faults = 0
  BY DEF CacheInit
<1>2. CacheTypes
  <2>1. /\ 0 \in 0..NRCHKPT /\ 0 \in 0..CHKAFTER /\ 0 \in 0..MaxNr
        /\ 0 \in Nat /\ 0 + 0 <= MaxTroubles
    BY CacheAssumption
  <2>2. files \in [Nr -> {"none", "partial", "whole"}]
    BY <1>1
  <2>. QED  BY <1>1, <2>1, <2>2, EmptyLinked, EmptyAccounted, NoFileFacts DEF CacheTypes
<1>3. Accounted
  BY <1>1, EmptyAccounted DEF Accounted
<1>4. Registers
  BY <1>1, NoFileFacts DEF Registers
<1>5. Repairing
  BY <1>1, EmptyAccounted DEF Repairing
<1>. QED  BY <1>2, <1>3, <1>4, <1>5 DEF CacheInv

LEMMA CacheStuttersInv ==
  ASSUME CacheInv, UNCHANGED cacheVars
  PROVE  CacheInv'
<1>1. Steady /\ todo' = todo /\ awcr' = awcr /\ awcu' = awcu /\ files' = files /\ faults' = faults
  BY DEF cacheVars, memory, onDisk, Steady
<1>2. CacheTypes' /\ Repairing'
  BY <1>1 DEF CacheInv, CacheTypes, Repairing, Steady
<1>3. Registers'
  <2>1. Registration' = Registration /\ phase' = phase
    BY <1>1, SteadyFacts DEF Steady
  <2>. QED  BY <1>1, <2>1 DEF CacheInv, Registers
<1>. QED  BY <1>1, <1>2, <1>3, SteadyFacts DEF CacheInv

LEMMA CacheStepInv ==
  ASSUME CacheInv, [CacheNext]_cacheVars
  PROVE  CacheInv'
<1>1. CASE \E u \in Urls : Load(u) \/ LoadHistory(u) \/ Reload(u) \/ Verify(u)
  BY <1>1, LoadInv, LoadHistoryInv, ReloadInv, VerifyInv
<1>2. CASE \E u \in Urls : VerifyModified(u) \/ VerifyEnds(u) \/ Data(u) \/ Finish(u)
  BY <1>2, VerifyModifiedInv, VerifyEndsInv, DataInv, FinishInv
<1>3. CASE \E u \in Urls : FetchError(u) \/ Touch(u) \/ DeleteCache(u) \/ Dupcheck(u)
  BY <1>3, FetchErrorInv, TouchInv, DeleteCacheInv, DupcheckInv
<1>4. CASE DiskStep \/ SaveFails \/ Crash \/ Initcache
  BY <1>4, DiskStepInv, SaveFailsInv, CrashInv, InitcacheInv
<1>5. CASE Exitcache \/ ExpiryPasses \/ Flushexcess \/ Fixcache \/ FixEnds
  BY <1>5, ExitcacheInv, ExpiryPassesInv, FlushexcessInv, FixcacheInv, FixEndsInv
<1>6. CASE UNCHANGED cacheVars
  BY <1>6, CacheStuttersInv
<1>. QED  BY <1>1, <1>2, <1>3, <1>4, <1>5, <1>6 DEF CacheNext

\* Every step keeps the invariant: the objects and what the disk holds agree.
THEOREM CacheInvariant == CacheSpec => []CacheInv
<1>1. CacheInit => CacheInv
  BY CacheInitInv
<1>2. CacheInv /\ [CacheNext]_cacheVars => CacheInv'
  BY CacheStepInv
<1>. QED  BY <1>1, <1>2, PTL DEF CacheSpec

-----------------------------------------------------------------------------
(* What follows from it.                                                     *)

\* The variables of the cache keep their types (cache.c).
THEOREM CacheTypesHold == CacheSpec => []CacheTypeOK
<1>1. ASSUME CacheInv  PROVE CacheTypeOK
  <2>1. \A o \in ToSet(cache) : ObjectOK(o)
    <3>1. \A o \in Objects :
            /\ o.nr \in Nr /\ o.twin \in Nat /\ o.url \in Urls /\ o.as \in Roles
            /\ o.named \in BOOLEAN /\ o.open \in BOOLEAN /\ o.size \in Nat
      BY DEF Objects
    <3>2. Nr \subseteq Nat
      BY DEF Nr
    <3>. QED  BY <1>1, <3>1, <3>2, InvFacts DEF Roles, ObjectOK
  <2>2. cadisksize \in Nat
    BY <1>1, InvFacts, SizeType
  <2>3. ASSUME NEW reg \in Regs
        PROVE  RegistrationOK(reg)
    <3>1. reg.there \in BOOLEAN /\ reg.lastnr \in 0..MaxNr /\ reg.log \in Seq(Entries \cup {Torn})
      BY DEF Regs, Logs
    <3>2. ToSet(reg.log) \subseteq Entries \cup {Torn}
      BY <3>1, ToSetFinite
    <3>3. \A e \in Entries : e.nr \in Nr /\ e.url \in Urls
      BY DEF Entries
    <3>. QED  BY <3>1, <3>2, <3>3 DEF RegistrationOK
  <2>4. RegistrationOK(awcr) /\ RegistrationOK(awcu)
    <3>1. awcr \in Regs /\ awcu \in Regs
      BY <1>1 DEF CacheInv, CacheTypes
    <3>. QED  BY <2>3, <3>1
  <2>5. /\ phase \in {"down", "up", "exited"}
        /\ fetching \subseteq Urls /\ cachenr \in 0..MaxNr
        /\ nradded \in 0..NRCHKPT /\ sizeadded \in 0..CHKAFTER /\ flushing \in 0..MaxNr
        /\ files \in [Nr -> {"none", "partial", "whole"}]
        /\ now \in BOOLEAN /\ crashes \in Nat /\ faults \in Nat /\ crashes + faults <= MaxTroubles
    BY <1>1 DEF CacheInv, CacheTypes
  <2>. QED  BY <2>1, <2>2, <2>4, <2>5 DEF CacheTypeOK
<1>2. CacheInv => CacheTypeOK
  BY <1>1
<1>. QED  BY <1>2, CacheInvariant, PTL

\* cadisksize, which Flushexcess() compares with the limit, is the size of the
\* objects there are: no path of an object in or out of the list (cache.c) leaves
\* its size behind or takes it off twice.
THEOREM SizeStaysAccounted == CacheSpec => []SizeAccounted
<1>1. CacheInv => SizeAccounted
  BY DEF CacheInv, Accounted, SizeAccounted
<1>. QED  BY <1>1, CacheInvariant, PTL

\* When Dofixcache() ends, no file on the disk is without an object, and no
\* registered object without its file, unless it shared its number with another
\* object when the repair began: then the file may have gone with that one.
THEOREM RepairSynchronizes == CacheSpec => []FixSynchronizes
<1>1. ASSUME CacheInv, todo # <<>>, Head(todo).do = "fixed"
      PROVE  Synchronizes(ToSet(cache), files, {}, Head(todo).shared)
  <2>1. /\ todo \in Seq(Steps) /\ awcu.there \in BOOLEAN /\ awcr.there \in BOOLEAN
    BY <1>1 DEF CacheInv, CacheTypes, Regs
  <2>2. todo[1].do = "fixed"
    BY <1>1, <2>1, FirstStep
  <2>3. ~Starting(todo, awcr.there)
    <3>1. SUFFICES ASSUME Starting(todo, awcr.there)  PROVE FALSE
      OBVIOUS
    <3>. QED  BY <2>1, <2>2, <3>1, StartingFirst
  <2>4. Saving(todo, phase = "exited")
    BY <1>1, <2>1, <2>2, <2>3 DEF CacheInv, Registers
  <2>5. Len(todo) = 1 /\ 1 \in 1..Len(todo) /\ 1..1 = {1}
    <3>. DEFINE ex == phase = "exited"
    <3>1. 1 \in 1..Len(todo) /\ Saving(todo, ex)
      BY <1>1, <2>1, <2>4
    <3>. HIDE DEF ex
    <3>2. 1 = Len(todo)
      BY <2>2, <3>1 DEF Saving
    <3>. QED  BY <3>1, <3>2
  <2>6. HasFixed(todo) /\ Unlinks(todo) = {}
    <3>1. Unlinking(todo) = {}
      BY <2>2, <2>5 DEF Unlinking
    <3>. QED  BY <2>2, <2>5, <3>1 DEF HasFixed, Unlinks
  <2>7. Spared(todo) = Head(todo).shared
    BY <1>1, <2>1, <2>5, FirstStep DEF Spared
  <2>. QED  BY <1>1, <2>6, <2>7 DEF CacheInv, Repairing
<1>2. CacheInv => FixSynchronizes
  BY <1>1 DEF FixSynchronizes, Synchronizes, Named
<1>. QED  BY <1>2, CacheInvariant, PTL

\* A step of the disk drops from what a start recovers only what its entry deletes,
\* or what is not the cache of its url.
LEMMA KnownRecall == Known = Recall(Recoverable, now)
BY DEF Known, Recall, Ids

\* Without AWCU only a start, or the renaming that ends a compaction, is left.
LEMMA WithoutLog ==
  ASSUME CacheInv, ~awcu.there, todo # <<>>
  PROVE  /\ todo[1].do \in {"unlink", "rename", "create AWCU"} /\ todo \in Seq(Steps)
         /\ todo[1].do = "create AWCU" => awcr = NoFile
<1>1. todo \in Seq(Steps) /\ awcr.there \in BOOLEAN
  BY DEF CacheInv, CacheTypes, Regs
<1>2. CASE Starting(todo, awcr.there)
  <2>1. todo[1].do = "unlink" \/ todo[1].do = IF awcr.there THEN "rename" ELSE "create AWCU"
    BY <1>1, <1>2, StartingFirst
  <2>. QED  BY <1>1, <2>1 DEF CacheInv, Registers
<1>3. CASE todo[1].do = "rename"
  BY <1>1, <1>3
<1>. QED  BY <1>2, <1>3 DEF CacheInv, Registers

LEMMA StepKeeps ==
  ASSUME CacheInv, DiskStep, NEW late \in BOOLEAN, NEW k \in Recall(Recoverable, late)
  PROVE  \/ k \in Recall(Recoverable', late)
         \/ todo[1].do = "append" /\ todo[1].entry.nr = k.nr
         \/ \A o \in ToSet(cache) : Id(o) = k => ~Registered(o)
<1>1. /\ awcr \in Regs /\ awcu \in Regs /\ todo \in Seq(Steps)
      /\ awcu.there \in BOOLEAN /\ (~awcr.there => awcr = NoFile) /\ ~NoFile.there
      /\ todo # <<>>
  BY DiskCases, NoFileFacts DEF CacheInv, CacheTypes, Regs, Registers
<1>2. Recoverable = (IF awcu.there THEN awcu ELSE awcr)
      /\ Recoverable' = (IF awcu'.there THEN awcu' ELSE awcr')
  BY DEF Recoverable
<1>3. CASE todo[1].do \in {"create", "close", "unlink"}
  <2>1. awcu' = awcu /\ awcr' = awcr
    BY <1>3, DiskCases
  <2>. QED  BY <1>2, <2>1
<1>4. CASE todo[1].do = "append"
  <2>1. awcu.there /\ awcu' = Entered(awcu, todo[1].entry)
    BY <1>1, <1>4, WithoutLog, DiskCases
  <2>2. todo[1].entry \in Entries
    BY <1>1, <1>4, FirstStep, StepTypes
  <2>3. /\ awcu' \in Regs /\ awcu'.there
        /\ awcu'.lastnr = awcu.lastnr /\ awcu'.log = Append(awcu.log, todo[1].entry)
    BY <1>1, <2>1, <2>2, EnteredFacts
  <2>4. k \in Recall(awcu', late) \/ todo[1].entry.nr = k.nr
    BY <1>1, <1>2, <2>1, <2>2, <2>3, RecallAppend
  <2>. QED  BY <1>2, <1>4, <2>3, <2>4
<1>5. CASE todo[1].do = "create AWCU"
  <2>1. ~awcu.there
    <3>1. SUFFICES ASSUME awcu.there  PROVE FALSE
      BY <1>1
    <3>2. Saving(todo, phase = "exited")
      BY <3>1 DEF CacheInv, Registers
    <3>. QED  BY <1>1, <1>5, <3>2, SavingFirst
  <2>2. Recoverable = NoFile
    BY <1>1, <1>2, <1>5, <2>1, WithoutLog
  <2>3. Recall(NoFile, late) = {}
    BY <1>1, NoFileFacts, RecallEmpty
  <2>. QED  BY <2>2, <2>3
<1>6. CASE todo[1].do \in {"open AWCR", "close AWCR"}
  <2>1. awcu.there /\ awcu' = awcu
    BY <1>1, <1>6, WithoutLog, DiskCases
  <2>. QED  BY <1>2, <2>1
<1>7. CASE todo[1].do = "delete AWCU"
  <2>1. awcr = Registration /\ awcr' = awcr /\ awcu' = NoFile
    BY <1>1, <1>7, DiskCases DEF CacheInv, Registers
  <2>2. Recoverable' = Registration
    BY <1>1, <1>2, <2>1
  <2>3. /\ Registration \in Regs /\ Listed \in Seq(Objects)
        /\ Registration.log = [i \in 1..Len(Listed) |-> Entry(Listed[i], FALSE)]
        /\ ToSet(Listed) = {o \in ToSet(cache) : Registered(o)}
    BY RegistrationFacts DEF CacheInv
  <2>4. Recoverable \in Regs
    BY <1>1, <1>2
  <2>5. ASSUME NEW o \in ToSet(cache), Id(o) = k, Registered(o)
        PROVE  k \in Recall(Registration, late)
    <3>1. k = [nr |-> o.nr, url |-> o.url] /\ k.url = o.url
      BY <2>5 DEF Id
    <3>2. ~(late /\ o.url \in Expiring)
      BY <1>1, <2>4, <3>1, RecallFresh
    <3>3. o \in ToSet(Listed)
      BY <2>3, <2>5
    <3>. QED  BY <1>1, <2>3, <3>1, <3>2, <3>3, RecallRegistered
  <2>. QED  BY <2>2, <2>5
<1>8. CASE todo[1].do = "rename"
  <2>1. IF awcr.there /\ ~awcu.there
        THEN awcu' = awcr /\ awcr' = NoFile
        ELSE awcu' = awcu /\ awcr' = awcr
    BY <1>8, DiskCases
  <2>2. Recoverable' = Recoverable
    BY <1>1, <1>2, <2>1
  <2>. QED  BY <2>2
<1>. QED  BY <1>3, <1>4, <1>5, <1>6, <1>7, <1>8, DiskCases

LEMMA CrashKeeps ==
  ASSUME CacheInv, Crash
  PROVE  Recall(Recoverable', now) = Recall(Recoverable, now)
<1>1. /\ awcr \in Regs /\ awcu \in Regs /\ now \in BOOLEAN /\ todo \in Seq(Steps)
      /\ awcu.there \in BOOLEAN
  BY DEF CacheInv, CacheTypes, Regs
<1>2. Recoverable = (IF awcu.there THEN awcu ELSE awcr)
      /\ Recoverable' = (IF awcu'.there THEN awcu' ELSE awcr') /\ awcr' = awcr
  BY CrashCases DEF Recoverable
<1>3. CASE awcu' = awcu
  BY <1>2, <1>3
<1>4. CASE awcu' # awcu
  <2>1. todo # <<>> /\ Head(todo).do = "append" /\ awcu' = Entered(awcu, Torn)
    BY <1>4 DEF Crash, Entered
  <2>2. todo[1].do = "append"
    BY <1>1, <2>1, FirstStep
  <2>3. awcu.there
    BY <1>1, <2>1, <2>2, WithoutLog
  <2>4. /\ awcu' \in Regs /\ awcu'.there
        /\ awcu'.lastnr = awcu.lastnr /\ awcu'.log = Append(awcu.log, Torn)
    BY <1>1, <2>1, EnteredFacts
  <2>5. Recall(awcu', now) = Recall(awcu, now)
    BY <1>1, <2>4, RecallTorn
  <2>. QED  BY <1>2, <2>3, <2>4, <2>5
<1>. QED  BY <1>3, <1>4

\* No other step touches the registration that the next start will read.
LEMMA OthersKeep ==
  ASSUME CacheInv, [CacheNext]_cacheVars, ~DiskStep, ~Crash
  PROVE  Recoverable' = Recoverable
<1>1. CASE SaveFails
  <2>1. todo # <<>> /\ Head(todo).do = "close AWCR" /\ awcu' = awcu
    BY <1>1 DEF SaveFails
  <2>2. todo \in Seq(Steps) /\ awcu.there \in BOOLEAN
    BY DEF CacheInv, CacheTypes, Regs
  <2>3. todo[1].do = "close AWCR"
    BY <2>1, <2>2, FirstStep
  <2>4. awcu.there
    BY <2>1, <2>2, <2>3, WithoutLog
  <2>. QED  BY <2>1, <2>4 DEF Recoverable
<1>2. CASE UNCHANGED <<awcr, awcu>>
  BY <1>2 DEF Recoverable
<1>3. CASE \E u \in Urls : Load(u) \/ LoadHistory(u) \/ Reload(u) \/ Verify(u)
                           \/ VerifyModified(u) \/ VerifyEnds(u)
  BY <1>2, <1>3 DEF Load, LoadHistory, Reload, Verify, VerifyModified, VerifyEnds, onDisk
<1>4. CASE \E u \in Urls : Data(u) \/ Finish(u) \/ FetchError(u) \/ Touch(u) \/ DeleteCache(u)
                           \/ Dupcheck(u)
  BY <1>2, <1>4 DEF Data, Finish, FetchError, Touch, DeleteCache, Dupcheck, onDisk
<1>5. CASE Initcache \/ Exitcache \/ ExpiryPasses \/ Flushexcess \/ Fixcache \/ FixEnds
  BY <1>2, <1>5 DEF Initcache, Exitcache, ExpiryPasses, Flushexcess, Fixcache, FixEnds, onDisk
<1>6. CASE UNCHANGED cacheVars
  BY <1>2, <1>6 DEF cacheVars, onDisk
<1>. QED  BY <1>1, <1>3, <1>4, <1>5, <1>6 DEF CacheNext

\* No crash, compaction, failed save, exit or restart drops an object from what
\* the next start recovers while it is the cache of its url.
THEOREM RegistrationKept == CacheSpec => KeepsRegistration
<1>. DEFINE Keeps ==
       Recoverable' # Recoverable /\ now' = now => \A k \in Known :
         \/ k \in Known'
         \/ todo # <<>> /\ Head(todo).do = "append" /\ Head(todo).entry.nr = k.nr
         \/ phase # "down" /\ \A o \in ToSet(cache) : Id(o) = k => ~Registered(o)
<1>1. ASSUME CacheInv, [CacheNext]_cacheVars, Recoverable' # Recoverable, now' = now,
             NEW k \in Known
      PROVE  \/ k \in Known'
             \/ todo # <<>> /\ Head(todo).do = "append" /\ Head(todo).entry.nr = k.nr
             \/ phase # "down" /\ \A o \in ToSet(cache) : Id(o) = k => ~Registered(o)
  <2>1. k \in Recall(Recoverable, now) /\ Known' = Recall(Recoverable', now)
    <3>1. Known' = Recall(Recoverable', now')
      BY DEF Known, Recall, Ids
    <3>. QED  BY <1>1, <3>1, KnownRecall
  <2>2. CASE DiskStep
    <3>1. todo # <<>> /\ phase # "down" /\ Head(todo) = todo[1]
      BY <1>1, <2>2, DiskCases, FirstStep DEF CacheInv, CacheTypes
    <3>2. now \in BOOLEAN
      BY <1>1 DEF CacheInv, CacheTypes
    <3>. QED  BY <1>1, <2>1, <2>2, <3>1, <3>2, StepKeeps
  <2>3. CASE Crash
    BY <1>1, <2>1, <2>3, CrashKeeps
  <2>. QED  BY <1>1, <2>2, <2>3, OthersKeep
<1>2. CacheInv /\ [CacheNext]_cacheVars => [Keeps]_cacheVars
  BY <1>1
<1>. QED  BY <1>2, CacheInvariant, PTL DEF CacheSpec, KeepsRegistration

-----------------------------------------------------------------------------
(* What a start between two operations recovers.                             *)

\* An object whose registration must be found: it is the cache of its url, its
\* file is complete, and it was not put back by a failed reload.
Wanted(o) == Registered(o) /\ o.named /\ ~o.open /\ ~o.restored

\* What the accesses t of an operation will do: write the files of objects, save
\* the registration, enter an object.
Writing(x) == x.do \in {"create", "close"}
Writes(t) == {x.nr : x \in {y \in ToSet(t) : Writing(y)}}
Stores(x) == x.do \in {"close AWCR", "delete AWCU"}
Saves(t) == \E x \in ToSet(t) : Stores(x)
Entering(x, k) == x.do = "append" /\ ~x.entry.del /\ x.entry.nr = k.nr /\ x.entry.url = k.url
Enters(t, k) == \E x \in ToSet(t) : Entering(x, k)

\* Only a new object is without a complete file.
Begun(S) == \A x \in S : x.open \/ ~x.named => x.twin = 0

\* A file that is written is not one that is removed.
Ordered(t) == Writes(t) \cap (Unlinks(t) \cup Dels(t)) = {}

\* Where an entry deletes, the file is gone or goes.
Deleted(t, fs) == \A n \in Dels(t) : n \in Unlinks(t) \/ fs[n] = "none"

\* After a torn entry nothing is found, until the registration is saved.
Intact(log, t) == Torns(log) # {} => Saves(t)

\* The object o has its file, or will have it when t is done.
Awaited(o, t, fs) ==
  Wanted(o) /\ (fs[o.nr] = "whole" \/ o.nr \in Writes(t)) /\ o.nr \notin Unlinks(t)

\* reg recalls o, now and when the dates have passed, unless it expires.
Later(past, late, u) == (past => late) /\ ~(late /\ u \in Expiring)
Recalled(o, reg, past) ==
  \A late \in BOOLEAN : Later(past, late, o.url) => Id(o) \in Recall(reg, late)

Complete(S, t, fs, reg, past) ==
  \A o \in S : Awaited(o, t, fs) => Saves(t) \/ Enters(t, Id(o)) \/ Recalled(o, reg, past)

Undisturbed == phase = "up" /\ faults = 0

Recorded ==
  /\ Begun(ToSet(cache)) /\ Ordered(todo) /\ Deleted(todo, files) /\ Plain(awcr.log)
  /\ Undisturbed => Intact(awcu.log, todo)
  /\ Undisturbed => Complete(ToSet(cache), todo, files, Recoverable, now)

LEMMA NothingToDo ==
  /\ Writes(<<>>) = {} /\ Unlinks(<<>>) = {} /\ Dels(<<>>) = {} /\ ~Saves(<<>>)
  /\ \A k : ~Enters(<<>>, k)
<1>1. ToSet(<<>>) = {} /\ 1..Len(<<>>) = {}
  BY DEF ToSet
<1>. QED  BY <1>1 DEF Writes, Unlinks, Unlinking, Dels, Saves, Enters

LEMMA FirstAndRest ==
  ASSUME NEW t \in Seq(Steps), t # <<>>
  PROVE  ToSet(t) = {t[1]} \cup ToSet(Tail(t)) /\ Tail(t) \in Seq(Steps)
<1>. DEFINE n == Len(t)
            w == Tail(t)
<1>1. /\ w \in Seq(Steps) /\ n \in Nat /\ n >= 1 /\ Len(w) = n - 1
      /\ \A i \in 1..(n - 1) : w[i] = t[i + 1]
  BY FirstStep
<1>2. DOMAIN t = 1..n /\ DOMAIN w = 1..(n - 1)
  BY <1>1
<1>. HIDE DEF n, w
<1>3. /\ \A i \in 1..(n - 1) : i + 1 \in 1..n
      /\ \A i \in 1..n : i = 1 \/ (i - 1 \in 1..(n - 1) /\ (i - 1) + 1 = i)
      /\ 1 \in 1..n
  BY <1>1
<1>4. \A i \in 1..n : i = 1 \/ (i - 1 \in 1..(n - 1) /\ w[i - 1] = t[i])
  BY <1>1, <1>3
<1>5. ASSUME NEW x \in ToSet(t)  PROVE x \in {t[1]} \cup ToSet(w)
  <2>1. PICK i \in 1..n : x = t[i]
    BY <1>2 DEF ToSet
  <2>. QED  BY <1>2, <1>4, <2>1 DEF ToSet
<1>6. ASSUME NEW x \in ToSet(w)  PROVE x \in ToSet(t)
  <2>1. PICK i \in 1..(n - 1) : x = w[i]
    BY <1>2 DEF ToSet
  <2>. QED  BY <1>1, <1>2, <1>3, <2>1 DEF ToSet
<1>7. t[1] \in ToSet(t)
  BY <1>2, <1>3 DEF ToSet
<1>. QED  BY <1>1, <1>5, <1>6, <1>7 DEF w

\* What is left after the first access.
LEMMA RestFacts ==
  ASSUME NEW t \in Seq(Steps), t # <<>>
  PROVE  /\ Writes(Tail(t)) \subseteq Writes(t) /\ Dels(Tail(t)) \subseteq Dels(t)
         /\ Unlinks(Tail(t)) \subseteq Unlinks(t)
         /\ Writing(t[1]) => t[1].nr \in Writes(t)
         /\ Removing(t[1]) => t[1].entry.nr \in Dels(t)
         /\ t[1].do = "unlink" => t[1].nr \in Unlinks(t)
         /\ \A n \in Unlinks(t) : n \in Unlinks(Tail(t)) \/ (t[1].do = "unlink" /\ n = t[1].nr)
         /\ Saves(t) => Stores(t[1]) \/ Saves(Tail(t))
         /\ \A k : Enters(t, k) => Entering(t[1], k) \/ Enters(Tail(t), k)
<1>1. ToSet(t) = {t[1]} \cup ToSet(Tail(t))
  BY FirstAndRest
<1>2. /\ t[1].do # "unlink" => Unlinks(Tail(t)) = Unlinks(t)
      /\ t[1].do = "unlink" => Unlinks(t) = Unlinks(Tail(t)) \cup {t[1].nr}
  BY TailFacts
<1>3. Writes(Tail(t)) \subseteq Writes(t) /\ (Writing(t[1]) => t[1].nr \in Writes(t))
  BY <1>1 DEF Writes
<1>4. Dels(Tail(t)) \subseteq Dels(t) /\ (Removing(t[1]) => t[1].entry.nr \in Dels(t))
  BY <1>1 DEF Dels
<1>5. Saves(t) => Stores(t[1]) \/ Saves(Tail(t))
  BY <1>1 DEF Saves
<1>6. \A k : Enters(t, k) => Entering(t[1], k) \/ Enters(Tail(t), k)
  BY <1>1 DEF Enters
<1>. QED  BY <1>2, <1>3, <1>4, <1>5, <1>6

LEMMA PartsConcat ==
  ASSUME NEW s \in Seq(Steps), NEW t \in Seq(Steps)
  PROVE  /\ Writes(s \o t) = Writes(s) \cup Writes(t)
         /\ Saves(s) \/ Saves(t) => Saves(s \o t)
         /\ \A k : Enters(s, k) \/ Enters(t, k) => Enters(s \o t, k)
<1>1. ToSet(s \o t) = ToSet(s) \cup ToSet(t)
  BY ConcatSet
<1>2. Writes(s \o t) = Writes(s) \cup Writes(t)
  BY <1>1 DEF Writes
<1>3. Saves(s) \/ Saves(t) => Saves(s \o t)
  BY <1>1 DEF Saves
<1>4. \A k : Enters(s, k) \/ Enters(t, k) => Enters(s \o t, k)
  BY <1>1 DEF Enters
<1>. QED  BY <1>2, <1>3, <1>4

LEMMA QuietWrites ==
  ASSUME NEW t \in Seq(Steps), Quiet(t)
  PROVE  Writes(t) = {} /\ Ordered(t)
<1>1. DOMAIN t = 1..Len(t)
  OBVIOUS
<1>2. \A x \in ToSet(t) : ~Writing(x)
  BY <1>1 DEF ToSet, Quiet, Writing
<1>. QED  BY <1>2 DEF Writes, Ordered

LEMMA CompactionSaves == Saves(Compaction)
<1>. DEFINE x == [do |-> "close AWCR"]
<1>1. Compaction[2] = x /\ 2 \in DOMAIN Compaction /\ x.do = "close AWCR"
  BY DEF Compaction
<1>. HIDE DEF x
<1>2. x \in ToSet(Compaction)
  BY <1>1 DEF ToSet
<1>. QED  BY <1>1, <1>2 DEF Saves, Stores

\* The objects of one number are several only after a restart.
LEMMA NumbersOfNew ==
  ASSUME CacheInv, Begun(ToSet(cache)), NEW x \in ToSet(cache), NEW y \in ToSet(cache),
         x.nr = y.nr, x.open \/ ~x.named
  PROVE  x = y
<1>1. Fresher(ToSet(cache)) /\ x.twin = 0
  BY DEF CacheInv, Accounted, Sound, Begun
<1>2. x # y => x.twin > 0
  BY <1>1 DEF Fresher
<1>. QED  BY <1>1, <1>2

LEMMA RegistrationPlain ==
  ASSUME CacheTypes
  PROVE  Plain(Registration.log)
<1>1. /\ Listed \in Seq(Objects)
      /\ Registration.log = [i \in 1..Len(Listed) |-> Entry(Listed[i], FALSE)]
  BY RegistrationFacts
<1>2. ASSUME NEW i \in 1..Len(Listed)  PROVE Entry(Listed[i], FALSE) \in Additions
  <2>1. Listed[i] \in Objects
    BY <1>1
  <2>. QED  BY <2>1 DEF Objects, Entry, Entries, Additions
<1>3. [i \in 1..Len(Listed) |-> Entry(Listed[i], FALSE)] \in Seq(Additions)
  <2>. DEFINE n == Len(Listed)
              w == [i \in 1..n |-> Entry(Listed[i], FALSE)]
  <2>0. n \in Nat
    BY <1>1
  <2>1. w \in [1..n -> Additions]
    BY <1>2
  <2>. HIDE DEF n, w
  <2>2. w \in Seq(Additions)
    BY <2>0, <2>1
  <2>. QED  BY <2>2 DEF w, n
<1>. QED  BY <1>1, <1>3 DEF Plain

LEMMA NoFilePlain == Plain(NoFile.log) /\ Plain([NoFile EXCEPT !.there = TRUE].log)
<1>1. NoFile.log = <<>> /\ [NoFile EXCEPT !.there = TRUE].log = <<>>
  BY DEF NoFile
<1>2. Plain(<<>>)
  BY DEF Plain
<1>. QED  BY <1>1, <1>2

\* What an access of an operation awaits, it awaited before.
LEMMA DiskAwaits ==
  ASSUME CacheInv, Recorded, DiskStep, NEW o \in ToSet(cache), Awaited(o, todo', files')
  PROVE  Awaited(o, todo, files)
<1>1. /\ todo \in Seq(Steps) /\ todo # <<>> /\ todo' = Tail(todo) /\ todo[1] \in Steps
      /\ files \in [Nr -> {"none", "partial", "whole"}]
  BY DiskCases, FirstStep DEF CacheInv, CacheTypes
<1>2. o.nr \in Nr
  <2>1. o \in Objects
    BY InvFacts
  <2>. QED  BY <2>1 DEF Objects
<1>3. /\ Writes(todo') \subseteq Writes(todo)
      /\ Writing(todo[1]) => todo[1].nr \in Writes(todo)
      /\ todo[1].do = "unlink" => todo[1].nr \in Unlinks(todo)
      /\ \A n \in Unlinks(todo) :
           n \in Unlinks(todo') \/ (todo[1].do = "unlink" /\ n = todo[1].nr)
  BY <1>1, RestFacts
<1>4. /\ Wanted(o) /\ (files'[o.nr] = "whole" \/ o.nr \in Writes(todo'))
      /\ o.nr \notin Unlinks(todo')
  BY DEF Awaited
<1>5. Writes(todo) \cap Unlinks(todo) = {}
  BY DEF Recorded, Ordered
<1>6. CASE files' = files \/ todo[1].nr # o.nr
  <2>1. files'[o.nr] = files[o.nr]
    <3>1. CASE files' = files
      BY <3>1
    <3>2. CASE files' # files
      <4>1. \E v \in {"none", "partial", "whole"} : files' = [files EXCEPT ![todo[1].nr] = v]
        BY <3>2, DiskCases
      <4>. QED  BY <1>1, <1>2, <1>6, <3>2, <4>1
    <3>. QED  BY <3>1, <3>2
  <2>2. o.nr \notin Unlinks(todo)
    <3>1. SUFFICES ASSUME o.nr \in Unlinks(todo)  PROVE FALSE
      OBVIOUS
    <3>2. todo[1].do = "unlink" /\ o.nr = todo[1].nr
      BY <1>3, <1>4, <3>1
    <3>3. files' = files
      BY <1>6, <3>2
    <3>4. PICK v \in {"none", "partial", "whole"} :
            files' = [files EXCEPT ![todo[1].nr] = v] /\ v = "none"
      BY <3>2, DiskCases
    <3>5. files'[o.nr] = "none"
      BY <1>1, <1>2, <3>2, <3>4
    <3>. QED  BY <1>3, <1>4, <1>5, <3>1, <3>5
  <2>. QED  BY <1>3, <1>4, <2>1, <2>2 DEF Awaited
<1>7. CASE files' # files /\ todo[1].nr = o.nr
  <2>1. todo[1].do \in {"create", "close", "unlink"}
    BY <1>7, DiskCases
  <2>2. CASE todo[1].do = "unlink"
    <3>1. \E v \in {"none", "partial", "whole"} :
            files' = [files EXCEPT ![todo[1].nr] = v] /\ v = "none"
      BY <2>2, DiskCases
    <3>2. files'[o.nr] = "none"
      BY <1>1, <1>2, <1>7, <3>1
    <3>. QED  BY <1>3, <1>4, <1>5, <1>7, <2>2, <3>2
  <2>3. CASE todo[1].do # "unlink"
    <3>1. o.nr \in Writes(todo)
      BY <1>3, <1>7, <2>1, <2>3 DEF Writing
    <3>2. o.nr \notin Unlinks(todo)
      BY <1>5, <3>1
    <3>. QED  BY <1>4, <3>1, <3>2 DEF Awaited
  <2>. QED  BY <2>2, <2>3
<1>. QED  BY <1>6, <1>7

\* An operation that saves the registration has saved it, or goes on to.
LEMMA DiskSaves ==
  ASSUME CacheInv, DiskStep, phase = "up", Saves(todo), NEW o \in ToSet(cache), Wanted(o)
  PROVE  Saves(todo') \/ Recalled(o, Recoverable', now)
<1>1. /\ todo \in Seq(Steps) /\ todo # <<>> /\ todo' = Tail(todo) /\ awcu.there \in BOOLEAN
      /\ Tail(todo) \in Seq(Steps)
  BY DiskCases, FirstStep DEF CacheInv, CacheTypes, Regs
<1>2. Stores(todo[1]) \/ Saves(todo')
  BY <1>1, RestFacts
<1>3. CASE todo[1].do = "close AWCR"
  <2>1. awcu.there
    BY <1>1, <1>3, WithoutLog
  <2>2. Saving(todo, phase = "exited")
    BY <2>1 DEF CacheInv, Registers
  <2>3. Tail(todo) # <<>> /\ Tail(todo)[1].do = "delete AWCU"
    <3>. DEFINE ex == phase = "exited"
    <3>1. ex \in BOOLEAN /\ Saving(todo, ex)
      BY <2>2
    <3>. HIDE DEF ex
    <3>. QED  BY <1>1, <1>3, <3>1, SavingFirst
  <2>4. Tail(todo)[1] \in ToSet(Tail(todo))
    BY <1>1, <2>3, FirstAndRest
  <2>. QED  BY <1>1, <2>3, <2>4 DEF Saves, Stores
<1>4. CASE todo[1].do = "delete AWCU"
  <2>1. awcr = Registration /\ awcr' = awcr /\ awcu' = NoFile
    BY <1>1, <1>4, DiskCases DEF CacheInv, Registers
  <2>2. Recoverable' = Registration
    BY <2>1, NoFileFacts DEF Recoverable
  <2>3. /\ Registration \in Regs /\ Listed \in Seq(Objects)
        /\ Registration.log = [i \in 1..Len(Listed) |-> Entry(Listed[i], FALSE)]
        /\ ToSet(Listed) = {x \in ToSet(cache) : Registered(x)}
    BY RegistrationFacts DEF CacheInv
  <2>4. o \in ToSet(Listed)
    BY <2>3 DEF Wanted
  <2>5. ASSUME NEW late \in BOOLEAN, ~(late /\ o.url \in Expiring)
        PROVE  Id(o) \in Recall(Registration, late)
    BY <2>3, <2>4, <2>5, RecallRegistered DEF Id
  <2>. QED  BY <2>2, <2>5 DEF Recalled, Later
<1>. QED  BY <1>2, <1>3, <1>4 DEF Stores

\* The first access of an operation appends an entry: AWCU is there.
LEMMA DiskAppends ==
  ASSUME CacheInv, DiskStep, todo[1].do = "append"
  PROVE  /\ todo[1].entry \in Entries /\ Recoverable = awcu /\ Recoverable' = awcu'
         /\ awcu \in Regs /\ awcu' \in Regs /\ awcu'.lastnr = awcu.lastnr
         /\ awcu'.log = Append(awcu.log, todo[1].entry)
<1>1. todo \in Seq(Steps) /\ todo # <<>> /\ awcu.there \in BOOLEAN /\ awcu \in Regs
  BY DiskCases DEF CacheInv, CacheTypes, Regs
<1>2. awcu.there /\ awcu' = Entered(awcu, todo[1].entry)
  BY <1>1, WithoutLog, DiskCases
<1>3. todo[1].entry \in Entries
  BY <1>1, FirstStep, StepTypes
<1>4. /\ awcu' \in Regs /\ awcu'.there
      /\ awcu'.lastnr = awcu.lastnr /\ awcu'.log = Append(awcu.log, todo[1].entry)
  BY <1>1, <1>2, <1>3, EnteredFacts
<1>. QED  BY <1>1, <1>2, <1>3, <1>4 DEF Recoverable

LEMMA DiskCovers ==
  ASSUME CacheInv, Recorded, DiskStep, Undisturbed, NEW o \in ToSet(cache),
         Awaited(o, todo, files)
  PROVE  Saves(todo') \/ Enters(todo', Id(o)) \/ Recalled(o, Recoverable', now)
<1>1. /\ todo \in Seq(Steps) /\ todo # <<>> /\ todo' = Tail(todo) /\ phase = "up"
      /\ Wanted(o) /\ Registered(o)
  BY DiskCases DEF CacheInv, CacheTypes, Undisturbed, Awaited, Wanted
<1>2. Saves(todo) \/ Enters(todo, Id(o)) \/ Recalled(o, Recoverable, now)
  BY DEF Recorded, Complete
<1>3. CASE Saves(todo)
  BY <1>1, <1>3, DiskSaves
<1>4. CASE ~Saves(todo) /\ Enters(todo, Id(o))
  <2>1. CASE Enters(todo', Id(o))
    BY <2>1
  <2>2. CASE ~Enters(todo', Id(o))
    <3>1. Entering(todo[1], Id(o))
      BY <1>1, <1>4, <2>2, RestFacts
    <3>. DEFINE e == todo[1].entry
    <3>2. /\ todo[1].do = "append" /\ ~e.del
          /\ e.nr = o.nr /\ e.url = o.url
      BY <3>1 DEF Entering, Id
    <3>3. /\ e \in Entries /\ Recoverable' = awcu'
          /\ awcu \in Regs /\ awcu' \in Regs /\ awcu'.lastnr = awcu.lastnr
          /\ awcu'.log = Append(awcu.log, e)
      BY <3>2, DiskAppends
    <3>4. Torns(awcu.log) = {}
      BY <1>4 DEF Recorded, Intact
    <3>. HIDE DEF e
    <3>5. e \in Additions
      BY <3>2, <3>3 DEF Additions
    <3>6. ASSUME NEW late \in BOOLEAN, Later(now, late, o.url)
          PROVE  Id(o) \in Recall(Recoverable', late)
      <4>1. ~(late /\ e.url \in Expiring)
        BY <3>2, <3>6 DEF Later
      <4>2. [nr |-> e.nr, url |-> e.url] \in Recall(awcu', late)
        BY <3>3, <3>4, <3>5, <4>1, RecallNew
      <4>. QED  BY <3>2, <3>3, <4>2 DEF Id
    <3>. QED  BY <3>6 DEF Recalled
  <2>. QED  BY <2>1, <2>2
<1>5. CASE Recalled(o, Recoverable, now)
  <2>1. ASSUME NEW late \in BOOLEAN, Later(now, late, o.url)
        PROVE  Id(o) \in Recall(Recoverable', late)
    <3>. DEFINE k == Id(o)
                e == todo[1].entry
    <3>1. k \in Recall(Recoverable, late) /\ k.nr = o.nr
      BY <1>5, <2>1 DEF Recalled, Id
    <3>2. Id(o) = k
      OBVIOUS
    <3>. HIDE DEF k
    <3>3. CASE todo[1].do = "append" /\ e.nr = o.nr
      <4>1. /\ e \in Entries /\ Recoverable = awcu /\ Recoverable' = awcu'
            /\ awcu \in Regs /\ awcu' \in Regs /\ awcu'.lastnr = awcu.lastnr
            /\ awcu'.log = Append(awcu.log, e)
        BY <3>3, DiskAppends
      <4>2. e \in Additions
        <5>1. SUFFICES ASSUME e.del  PROVE FALSE
          BY <4>1 DEF Additions
        <5>2. o.nr \in Dels(todo)
          BY <1>1, <3>3, <5>1, RestFacts DEF Removing
        <5>3. o.nr \notin Writes(todo) /\ (o.nr \in Unlinks(todo) \/ files[o.nr] = "none")
          BY <5>2 DEF Recorded, Ordered, Deleted
        <5>. QED  BY <5>3 DEF Awaited
      <4>. HIDE DEF e
      <4>3. Recall(awcu, late) \subseteq Recall(awcu', late)
        BY <4>1, <4>2, RecallAdd
      <4>. QED  BY <3>1, <3>2, <4>1, <4>3
    <3>4. CASE ~(todo[1].do = "append" /\ e.nr = o.nr)
      <4>1. \/ k \in Recall(Recoverable', late)
            \/ todo[1].do = "append" /\ todo[1].entry.nr = k.nr
            \/ \A x \in ToSet(cache) : Id(x) = k => ~Registered(x)
        BY <3>1, StepKeeps
      <4>. QED  BY <1>1, <3>1, <3>2, <3>4, <4>1
    <3>. QED  BY <3>3, <3>4
  <2>. QED  BY <2>1 DEF Recalled
<1>. QED  BY <1>2, <1>3, <1>4, <1>5

LEMMA DiskStepRecorded ==
  ASSUME CacheInv, Recorded, DiskStep
  PROVE  Recorded'
<1>1. /\ todo \in Seq(Steps) /\ todo # <<>> /\ todo' = Tail(todo) /\ todo[1] \in Steps
      /\ files \in [Nr -> {"none", "partial", "whole"}]
      /\ phase' = phase /\ faults' = faults /\ cache' = cache /\ now' = now
      /\ awcu.there \in BOOLEAN
  BY DiskCases, FirstStep DEF CacheInv, CacheTypes, Steady, Regs
<1>2. /\ Writes(todo') \subseteq Writes(todo) /\ Dels(todo') \subseteq Dels(todo)
      /\ Unlinks(todo') \subseteq Unlinks(todo)
      /\ Writing(todo[1]) => todo[1].nr \in Writes(todo)
      /\ Saves(todo) => Stores(todo[1]) \/ Saves(todo')
      /\ \A n \in Unlinks(todo) :
           n \in Unlinks(todo') \/ (todo[1].do = "unlink" /\ n = todo[1].nr)
  BY <1>1, RestFacts
<1>3. Begun(ToSet(cache'))
  BY <1>1 DEF Recorded
<1>4. Ordered(todo')
  BY <1>2 DEF Recorded, Ordered
<1>5. Deleted(todo', files')
  <2>1. ASSUME NEW n \in Dels(todo'), n \notin Unlinks(todo')  PROVE files'[n] = "none"
    <3>1. n \in Dels(todo) /\ (n \in Unlinks(todo) \/ files[n] = "none")
          /\ n \notin Writes(todo)
      BY <1>2, <2>1 DEF Recorded, Deleted, Ordered
    <3>2. n \in Nr
      <4>1. PICK x \in ToSet(todo) : Removing(x) /\ n = x.entry.nr
        BY <3>1 DEF Dels
      <4>2. x \in Steps
        <5>1. DOMAIN todo = 1..Len(todo)
          BY <1>1
        <5>. QED  BY <1>1, <4>1, <5>1 DEF ToSet
      <4>3. x.entry \in Entries
        BY <4>1, <4>2, StepTypes DEF Removing
      <4>. QED  BY <4>1, <4>3 DEF Entries
    <3>3. CASE todo[1].do = "unlink"
      <4>1. PICK v \in {"none", "partial", "whole"} :
              files' = [files EXCEPT ![todo[1].nr] = v] /\ v = "none"
        BY <3>3, DiskCases
      <4>2. n = todo[1].nr \/ files[n] = "none"
        BY <1>2, <2>1, <3>1
      <4>. QED  BY <1>1, <3>2, <4>1, <4>2
    <3>4. CASE todo[1].do # "unlink"
      <4>1. files[n] = "none"
        BY <1>2, <2>1, <3>1, <3>4
      <4>2. CASE files' = files
        BY <4>1, <4>2
      <4>3. CASE files' # files
        <5>1. PICK v \in {"none", "partial", "whole"} :
                files' = [files EXCEPT ![todo[1].nr] = v] /\ todo[1].do \in {"create", "close"}
          BY <3>4, <4>3, DiskCases
        <5>2. todo[1].nr # n
          BY <1>2, <3>1, <5>1 DEF Writing
        <5>. QED  BY <1>1, <3>2, <4>1, <5>1, <5>2
      <4>. QED  BY <4>2, <4>3
    <3>. QED  BY <3>3, <3>4
  <2>. QED  BY <2>1 DEF Deleted
<1>6. Plain(awcr'.log)
  <2>. DEFINE p == [NoFile EXCEPT !.there = TRUE]
  <2>1. Plain(awcr.log) /\ Plain(Registration.log) /\ Plain(NoFile.log) /\ Plain(p.log)
    BY RegistrationPlain, NoFilePlain DEF Recorded, CacheInv
  <2>2. awcr' = awcr \/ awcr' = p \/ awcr' = Registration \/ awcr' = NoFile
    BY DiskCases
  <2>. HIDE DEF p
  <2>. QED  BY <2>1, <2>2
<1>7. ASSUME Undisturbed'  PROVE Intact(awcu'.log, todo')
  <2>1. Intact(awcu.log, todo) /\ Undisturbed
    BY <1>1, <1>7 DEF Recorded, Undisturbed
  <2>2. CASE todo[1].do = "append"
    <3>1. /\ todo[1].entry \in Entries /\ awcu \in Regs
          /\ awcu'.log = Append(awcu.log, todo[1].entry)
      BY <2>2, DiskAppends
    <3>2. Torns(awcu'.log) # {} => Torns(awcu.log) # {}
      <4>1. todo[1].entry # Torn
        BY <3>1, TornFacts
      <4>. DEFINE l == awcu.log
                  e == todo[1].entry
                  n == Len(l)
      <4>2. l \in Logs /\ n \in Nat
        BY <3>1 DEF Regs, Logs
      <4>3. /\ Len(Append(l, e)) = n + 1 /\ Append(l, e)[n + 1] = e
            /\ \A i \in 1..n : Append(l, e)[i] = l[i]
        BY <4>2 DEF Logs
      <4>4. awcu'.log = Append(l, e)
        BY <3>1
      <4>. HIDE DEF l, e, n
      <4>5. SUFFICES ASSUME NEW i \in Torns(Append(l, e))  PROVE i \in Torns(l)
        BY <4>4 DEF l
      <4>6. i \in 1..(n + 1) /\ Append(l, e)[i] = Torn
        BY <4>3, <4>5 DEF Torns
      <4>7. i # n + 1
        BY <4>1, <4>3, <4>6 DEF e
      <4>8. i \in 1..n
        BY <4>2, <4>6, <4>7
      <4>. QED  BY <4>3, <4>6, <4>8 DEF Torns, n
    <3>3. Saves(todo) => Saves(todo')
      BY <1>2, <2>2 DEF Stores
    <3>. QED  BY <2>1, <3>2, <3>3 DEF Intact
  <2>3. CASE todo[1].do = "close AWCR"
    <3>1. awcu.there
      BY <1>1, <2>3, WithoutLog
    <3>2. Saving(todo, phase = "exited")
      BY <3>1 DEF CacheInv, Registers
    <3>3. Tail(todo) # <<>> /\ Tail(todo)[1].do = "delete AWCU" /\ Tail(todo) \in Seq(Steps)
      <4>. DEFINE ex == phase = "exited"
      <4>1. ex \in BOOLEAN /\ Saving(todo, ex)
        BY <3>2
      <4>. HIDE DEF ex
      <4>. QED  BY <1>1, <2>3, <4>1, SavingFirst, FirstStep
    <3>4. Tail(todo)[1] \in ToSet(Tail(todo))
      BY <3>3, FirstAndRest
    <3>. QED  BY <1>1, <3>3, <3>4 DEF Saves, Stores, Intact
  <2>4. CASE todo[1].do \notin {"append", "close AWCR"}
    <3>1. CASE awcu' = awcu /\ todo[1].do # "delete AWCU"
      <4>1. Saves(todo) => Saves(todo')
        BY <1>2, <2>4, <3>1 DEF Stores
      <4>. QED  BY <2>1, <3>1, <4>1 DEF Intact
    <3>2. CASE ~(awcu' = awcu /\ todo[1].do # "delete AWCU")
      <4>. DEFINE p == [NoFile EXCEPT !.there = TRUE]
      <4>1. Plain(awcr.log) /\ Plain(NoFile.log) /\ Plain(p.log)
        BY NoFilePlain DEF Recorded
      <4>2. awcu' = awcr \/ awcu' = NoFile \/ awcu' = p
        BY <2>4, <3>2, DiskCases
      <4>. HIDE DEF p
      <4>3. Plain(awcu'.log)
        BY <4>1, <4>2
      <4>. QED  BY <4>3, PlainFacts DEF Intact
    <3>. QED  BY <3>1, <3>2
  <2>. QED  BY <2>2, <2>3, <2>4
<1>8. ASSUME Undisturbed'  PROVE Complete(ToSet(cache'), todo', files', Recoverable', now')
  <2>1. Undisturbed
    BY <1>1, <1>8 DEF Undisturbed
  <2>2. ASSUME NEW o \in ToSet(cache), Awaited(o, todo', files')
        PROVE  Saves(todo') \/ Enters(todo', Id(o)) \/ Recalled(o, Recoverable', now)
    <3>1. Awaited(o, todo, files)
      BY <2>2, DiskAwaits
    <3>. QED  BY <2>1, <3>1, DiskCovers
  <2>. QED  BY <1>1, <2>2 DEF Complete
<1>. QED  BY <1>3, <1>4, <1>5, <1>6, <1>7, <1>8 DEF Recorded

LEMMA SaveFailsRecorded ==
  ASSUME CacheInv, Recorded, SaveFails
  PROVE  Recorded'
<1>1. /\ todo \in Seq(Steps) /\ todo # <<>> /\ Head(todo).do = "close AWCR"
      /\ awcr' = NoFile /\ todo' = Tail(Tail(todo)) /\ awcu' = awcu /\ files' = files
      /\ cache' = cache /\ phase' = phase /\ faults' = faults + 1 /\ faults \in Nat
      /\ awcu.there \in BOOLEAN
  BY DEF SaveFails, memory, CacheInv, CacheTypes, Regs
<1>2. todo[1].do = "close AWCR" /\ Tail(todo) \in Seq(Steps)
  BY <1>1, FirstStep
<1>3. Tail(todo) # <<>> /\ Tail(todo)[1].do = "delete AWCU"
  <2>1. awcu.there
    BY <1>1, <1>2, WithoutLog
  <2>2. Saving(todo, phase = "exited")
    BY <2>1 DEF CacheInv, Registers
  <2>. DEFINE ex == phase = "exited"
  <2>3. ex \in BOOLEAN /\ Saving(todo, ex)
    BY <2>2
  <2>. HIDE DEF ex
  <2>. QED  BY <1>1, <1>2, <2>3, SavingFirst
<1>4. /\ Writes(Tail(todo)) \subseteq Writes(todo) /\ Dels(Tail(todo)) \subseteq Dels(todo)
      /\ Unlinks(Tail(todo)) \subseteq Unlinks(todo)
      /\ \A n \in Unlinks(todo) : n \in Unlinks(Tail(todo))
  BY <1>1, <1>2, RestFacts
<1>5. /\ Writes(todo') \subseteq Writes(Tail(todo)) /\ Dels(todo') \subseteq Dels(Tail(todo))
      /\ Unlinks(todo') \subseteq Unlinks(Tail(todo))
      /\ \A n \in Unlinks(Tail(todo)) : n \in Unlinks(todo')
  BY <1>1, <1>2, <1>3, RestFacts
<1>6. Begun(ToSet(cache')) /\ Plain(awcr'.log)
  BY <1>1, NoFilePlain DEF Recorded
<1>7. Ordered(todo') /\ Deleted(todo', files')
  BY <1>1, <1>4, <1>5 DEF Recorded, Ordered, Deleted
<1>8. ~Undisturbed'
  <2>. DEFINE m == faults
  <2>0. m \in Nat
    BY DEF CacheInv, CacheTypes
  <2>. HIDE DEF m
  <2>1. m + 1 # 0
    BY <2>0
  <2>. QED  BY <1>1, <2>1 DEF Undisturbed, m
<1>. QED  BY <1>6, <1>7, <1>8 DEF Recorded

LEMMA CrashRecorded ==
  ASSUME Recorded, Crash
  PROVE  Recorded'
<1>1. phase' = "down" /\ cache' = <<>> /\ todo' = <<>> /\ awcr' = awcr
  BY DEF Crash
<1>2. ToSet(<<>>) = {}
  BY DEF ToSet
<1>3. Begun(ToSet(cache')) /\ Ordered(todo') /\ Deleted(todo', files') /\ Plain(awcr'.log)
  BY <1>1, <1>2, NothingToDo DEF Begun, Ordered, Deleted, Recorded
<1>4. ~Undisturbed'
  BY <1>1 DEF Undisturbed
<1>. QED  BY <1>3, <1>4 DEF Recorded

LEMMA ExitcacheRecorded ==
  ASSUME Recorded, Exitcache
  PROVE  Recorded'
<1>1. phase' = "exited" /\ cache' = cache /\ todo' = Exiting /\ awcr' = awcr
  BY DEF Exitcache, Exiting, onDisk
<1>2. Exiting \in Seq(Steps) /\ Quiet(Exiting) /\ Dels(Exiting) = {}
  BY ExitSaves
<1>5. Begun(ToSet(cache')) /\ Ordered(todo') /\ Deleted(todo', files') /\ Plain(awcr'.log)
  BY <1>1, <1>2, QuietWrites DEF Deleted, Recorded
<1>6. ~Undisturbed'
  BY <1>1 DEF Undisturbed
<1>. QED  BY <1>5, <1>6 DEF Recorded

LEMMA ExpiryPassesRecorded ==
  ASSUME Recorded, ExpiryPasses
  PROVE  Recorded'
<1>1. /\ phase' = phase /\ faults' = faults /\ cache' = cache /\ todo' = todo /\ files' = files
      /\ awcr' = awcr /\ awcu' = awcu /\ now' = TRUE
  BY DEF ExpiryPasses, memory, onDisk
<1>2. Recoverable' = Recoverable /\ Undisturbed' = Undisturbed
  BY <1>1 DEF Recoverable, Undisturbed
<1>3. ASSUME NEW o, Recalled(o, Recoverable, now)  PROVE Recalled(o, Recoverable, TRUE)
  BY <1>3 DEF Recalled, Later
<1>4. Undisturbed' => Complete(ToSet(cache'), todo', files', Recoverable', now')
  BY <1>1, <1>2, <1>3 DEF Recorded, Complete
<1>. QED  BY <1>1, <1>2, <1>4 DEF Recorded

LEMMA ClearingParts ==
  ASSUME NEW deleted \in Seq(Nr)
  PROVE  /\ Clearing(deleted) \in Seq(Steps) /\ Quiet(Clearing(deleted))
         /\ Dels(Clearing(deleted)) = {}
<1>. DEFINE s == Clearing(deleted)
<1>1. s \in Seq(Steps) /\ \A i \in 1..Len(s) : s[i].do = "unlink"
  BY ClearingFacts
<1>. HIDE DEF s
<1>2. DOMAIN s = 1..Len(s)
  BY <1>1
<1>3. Quiet(s)
  BY <1>1 DEF Quiet
<1>4. \A x \in ToSet(s) : ~Removing(x)
  BY <1>1, <1>2 DEF ToSet, Removing
<1>. QED  BY <1>1, <1>3, <1>4 DEF Dels, s

\* The access that ends a start without AWCU.
Lastly(x) == x \in Steps /\ x.do \in {"rename", "create AWCU"}

LEMMA LastAccess ==
  ASSUME NEW x, Lastly(x)
  PROVE  <<x>> \in Seq(Steps) /\ Quiet(<<x>>) /\ Dels(<<x>>) = {}
<1>0. x \in Steps
  BY DEF Lastly
<1>1. <<x>> \in Seq(Steps) /\ Len(<<x>>) = 1 /\ <<x>>[1] = x
  BY <1>0
<1>2. 1..1 = {1}
  OBVIOUS
<1>3. Quiet(<<x>>)
  BY <1>1, <1>2 DEF Quiet, Lastly
<1>4. ToSet(<<x>>) = {x}
  BY <1>1, <1>2 DEF ToSet
<1>5. Dels(<<x>>) = {}
  BY <1>4 DEF Dels, Removing, Lastly
<1>. QED  BY <1>1, <1>3, <1>5

LEMMA InitcacheRecorded ==
  ASSUME CacheInv, Recorded, Initcache
  PROVE  Recorded'
<1>. DEFINE r == Replay(Recoverable, now)
            s == Clearing(r.deleted)
            x == IF awcr.there THEN [do |-> "rename"] ELSE [do |-> "create AWCU"]
            t == IF awcu.there THEN Compaction ELSE <<x>>
<1>1. /\ phase' = "up" /\ awcr' = awcr /\ awcu' = awcu /\ files' = files /\ now' = now
      /\ faults' = faults /\ cache' = r.cache /\ todo' = s \o t
  BY InitcacheCases
<1>2. /\ awcr \in Regs /\ awcu \in Regs /\ awcr.there \in BOOLEAN /\ awcu.there \in BOOLEAN
      /\ now \in BOOLEAN /\ (~awcr.there => awcr = NoFile) /\ (~awcu.there => awcu = NoFile)
  BY DEF CacheInv, CacheTypes, Registers, Regs
<1>3. Goodread(r, now)
  <2>1. Recoverable \in Regs
    BY <1>2 DEF Recoverable
  <2>. QED  BY <1>2, <2>1, ReplayGood
<1>4. ToSet(r.cache) = ToSet(Replay(Recoverable, now).cache)
  OBVIOUS
<1>. HIDE DEF r
<1>5. \A o \in ToSet(r.cache) : ~o.open /\ o.named
  BY <1>3 DEF Goodread, Restored
<1>6. r.deleted \in Seq(Nr)
  BY <1>3 DEF Goodread, Reads
<1>7. s \in Seq(Steps) /\ Quiet(s) /\ Dels(s) = {}
  BY <1>6, ClearingParts
<1>8. t \in Seq(Steps) /\ Quiet(t) /\ Dels(t) = {} /\ (awcu.there => Saves(t))
  <2>1. CASE awcu.there
    BY <2>1, CompactionFacts, CompactionSaves
  <2>2. CASE ~awcu.there
    <3>1. Lastly(x)
      BY DEF Steps, Accesses, Lastly
    <3>2. t = <<x>>
      BY <2>2
    <3>. HIDE DEF x, t
    <3>3. <<x>> \in Seq(Steps) /\ Quiet(<<x>>) /\ Dels(<<x>>) = {}
      BY <3>1, LastAccess
    <3>. QED  BY <2>2, <3>2, <3>3
  <2>. QED  BY <2>1, <2>2
<1>. HIDE DEF s, t
<1>9. /\ todo' \in Seq(Steps) /\ Quiet(todo') /\ Dels(todo') = {}
      /\ awcu.there => Saves(todo')
  <2>1. s \o t \in Seq(Steps) /\ Quiet(s \o t) /\ Dels(s \o t) = {}
    BY <1>7, <1>8, QuietConcat, DelsConcat
  <2>2. Saves(t) => Saves(s \o t)
    BY <1>7, <1>8, PartsConcat
  <2>. QED  BY <1>1, <1>8, <2>1, <2>2
<1>10. Writes(todo') = {} /\ Ordered(todo')
  BY <1>9, QuietWrites
<1>11. Begun(ToSet(cache')) /\ Deleted(todo', files') /\ Plain(awcr'.log)
  BY <1>1, <1>5, <1>9 DEF Begun, Deleted, Recorded
<1>12. Intact(awcu'.log, todo')
  <2>1. CASE awcu.there
    BY <1>9, <2>1 DEF Intact
  <2>2. CASE ~awcu.there
    <3>1. Plain(awcu'.log)
      BY <1>1, <1>2, <2>2, NoFilePlain
    <3>. QED  BY <3>1, PlainFacts DEF Intact
  <2>. QED  BY <2>1, <2>2
<1>13. Recoverable' = Recoverable
  BY <1>1 DEF Recoverable
<1>14. ASSUME NEW o \in ToSet(cache')  PROVE Saves(todo') \/ Recalled(o, Recoverable, now)
  <2>1. CASE awcu.there
    BY <1>9, <2>1
  <2>2. CASE ~awcu.there
    <3>1. Recoverable = awcr /\ Plain(awcr.log)
      BY <2>2 DEF Recoverable, Recorded
    <3>2. Id(o) \in Recall(awcr, now)
      BY <1>1, <1>4, <1>14, <3>1 DEF Recall, Ids, Id
    <3>3. PICK e \in ToSet(awcr.log) : o.nr = e.nr /\ o.url = e.url
      <4>1. \E e \in ToSet(awcr.log) : Id(o).nr = e.nr /\ Id(o).url = e.url
        BY <1>2, <3>1, <3>2, RecallFrom
      <4>. QED  BY <4>1 DEF Id
    <3>4. ASSUME NEW late \in BOOLEAN, Later(now, late, o.url)  PROVE Id(o) \in Recall(awcr, late)
      <4>1. ~(late /\ e.url \in Expiring)
        BY <3>3, <3>4 DEF Later
      <4>2. [nr |-> e.nr, url |-> e.url] \in Recall(awcr, late)
        BY <1>2, <3>1, <4>1, RecallPlain
      <4>. QED  BY <3>3, <4>2 DEF Id
    <3>. QED  BY <3>1, <3>4 DEF Recalled
  <2>. QED  BY <2>1, <2>2
<1>15. Complete(ToSet(cache'), todo', files', Recoverable', now')
  BY <1>1, <1>13, <1>14 DEF Complete
<1>. QED  BY <1>10, <1>11, <1>12, <1>15 DEF Recorded

\* An operation of the urls, while what a start would read does not change.
Quietly ==
  /\ phase = "up" /\ todo = <<>> /\ phase' = phase /\ faults' = faults
  /\ awcr' = awcr /\ awcu' = awcu /\ files' = files /\ now' = now

\* The object x is recovered as one of S is.
Follows(x, S) == \E y \in S : Wanted(y) /\ Id(y) = Id(x)
Heirs(T, S) == \A x \in T : Wanted(x) => Follows(x, S)

LEMMA OperationRecorded ==
  ASSUME Recorded, Quietly, Begun(ToSet(cache')), Ordered(todo'),
         Dels(todo') \subseteq Unlinks(todo'),
         \A x \in ToSet(cache') : Awaited(x, todo', files) =>
           \/ Saves(todo') \/ Enters(todo', Id(x))
           \/ files[x.nr] = "whole" /\ Follows(x, ToSet(cache))
  PROVE  Recorded'
<1>1. /\ todo = <<>> /\ phase' = phase /\ faults' = faults
      /\ awcr' = awcr /\ awcu' = awcu /\ files' = files /\ now' = now
  BY DEF Quietly
<1>2. Deleted(todo', files') /\ Plain(awcr'.log) /\ Recoverable' = Recoverable
      /\ Undisturbed' = Undisturbed
  BY <1>1 DEF Deleted, Recorded, Recoverable, Undisturbed
<1>3. Undisturbed => Intact(awcu'.log, todo')
  BY <1>1, NothingToDo DEF Recorded, Intact
<1>4. ASSUME Undisturbed, NEW x \in ToSet(cache'), Awaited(x, todo', files)
      PROVE  Saves(todo') \/ Enters(todo', Id(x)) \/ Recalled(x, Recoverable, now)
  <2>1. SUFFICES ASSUME files[x.nr] = "whole", Follows(x, ToSet(cache))
                 PROVE  Recalled(x, Recoverable, now)
    BY <1>4
  <2>2. PICK y \in ToSet(cache) : Wanted(y) /\ Id(y) = Id(x)
    BY <2>1 DEF Follows
  <2>3. y.nr = x.nr /\ y.url = x.url
    BY <2>2 DEF Id
  <2>4. Awaited(y, todo, files)
    BY <1>1, <2>1, <2>2, <2>3, NothingToDo DEF Awaited
  <2>5. Saves(todo) \/ Enters(todo, Id(y)) \/ Recalled(y, Recoverable, now)
    BY <1>4, <2>4 DEF Recorded, Complete
  <2>6. Recalled(y, Recoverable, now)
    BY <1>1, <2>5, NothingToDo
  <2>. QED  BY <2>2, <2>3, <2>6 DEF Recalled
<1>5. Undisturbed => Complete(ToSet(cache'), todo', files', Recoverable', now')
  BY <1>1, <1>2, <1>4 DEF Complete
<1>. QED  BY <1>2, <1>3, <1>5 DEF Recorded

\* No file is written: what is recovered, was.
LEMMA QuietRecorded ==
  ASSUME Recorded, Quietly, Begun(ToSet(cache')), todo' \in Seq(Steps), Quiet(todo'),
         Dels(todo') \subseteq Unlinks(todo'), Heirs(ToSet(cache'), ToSet(cache))
  PROVE  Recorded'
<1>1. Writes(todo') = {} /\ Ordered(todo')
  <2>. DEFINE t == todo'
  <2>1. t \in Seq(Steps) /\ Quiet(t)
    OBVIOUS
  <2>. HIDE DEF t
  <2>2. Writes(t) = {} /\ Ordered(t)
    BY <2>1, QuietWrites
  <2>. QED  BY <2>2 DEF t
<1>2. \A x \in ToSet(cache') : Awaited(x, todo', files) =>
        files[x.nr] = "whole" /\ Follows(x, ToSet(cache))
  BY <1>1 DEF Awaited, Heirs
<1>. QED  BY <1>1, <1>2, OperationRecorded

LEMMA EmptyQuiet == <<>> \in Seq(Steps) /\ Quiet(<<>>) /\ Dels(<<>>) \subseteq Unlinks(<<>>)
<1>1. 1..Len(<<>>) = {}
  OBVIOUS
<1>. QED  BY <1>1, EmptyLinked, NothingToDo DEF Quiet

\* Objects of a list go.
LEMMA DisposeRecorded ==
  ASSUME CacheInv, Recorded, Quietly,
         NEW list \in Seq(Objects), Distinct(list), NEW gone \in SUBSET ToSet(list),
         SizeOf(list) = SizeOf(cache), Dispose(gone, list), Begun(ToSet(list) \ gone),
         Heirs(ToSet(list) \ gone, ToSet(cache))
  PROVE  Recorded'
<1>1. nradded \in 0..NRCHKPT /\ cadisksize = SizeOf(list)
  BY InvFacts
<1>2. /\ ToSet(cache') = ToSet(list) \ gone /\ todo' \in Seq(Steps)
      /\ Quiet(todo') /\ Dels(todo') \subseteq Unlinks(todo')
  BY <1>1, DisposeFacts
<1>. QED  BY <1>2, QuietRecorded

LEMMA SameFollow ==
  ASSUME NEW S
  PROVE  \A x \in S : Wanted(x) => Follows(x, S)
BY DEF Follows

LEMMA GoneRecorded ==
  ASSUME CacheInv, Recorded, Quietly, NEW gone \in SUBSET ToSet(cache), Dispose(gone, cache)
  PROVE  Recorded'
<1>1. Begun(ToSet(cache) \ gone)
  BY DEF Recorded, Begun
<1>2. Heirs(ToSet(cache) \ gone, ToSet(cache))
  BY SameFollow DEF Heirs
<1>. QED  BY <1>1, <1>2, InvFacts, DisposeRecorded

LEMMA LoadRecorded ==
  ASSUME CacheInv, Recorded, NEW u \in Urls, Load(u)
  PROVE  Recorded'
<1>. DEFINE n == Fresh(u)
            S == ToSet(cache)
            list == Append(cache, n)
            gone == Held(u, "cache")
<1>1. Quietly /\ cachenr < MaxNr /\ Dispose(gone, list)
  BY DEF Load, Ready, onDisk, Quietly
<1>2. /\ cache \in Seq(Objects) /\ S \subseteq Objects /\ Distinct(cache)
      /\ Sound(S, cachenr, fetching) /\ cachenr \in Nat /\ CacheTypes
  BY InvFacts
<1>3. New(n, cachenr, u) /\ n.size = 0
  BY <1>1, <1>2, FreshFacts
<1>. HIDE DEF n
<1>4. n \in Objects /\ n.twin = 0 /\ ~n.named /\ \A x \in S : x.nr # n.nr
  BY <1>2, <1>3, NewNumber DEF New
<1>5. /\ list \in Seq(Objects) /\ Distinct(list) /\ ToSet(list) = S \cup {n}
      /\ SizeOf(list) = SizeOf(cache)
  BY <1>2, <1>3, <1>4, FreshList
<1>6. gone \subseteq S
  BY DEF Held
<1>7. Begun(S)
  BY DEF Recorded
<1>. HIDE DEF list, gone
<1>8. Begun(ToSet(list) \ gone)
  BY <1>4, <1>5, <1>7 DEF Begun
<1>9. Heirs(ToSet(list) \ gone, S)
  BY <1>4, <1>5, SameFollow DEF Heirs, Wanted
<1>. QED  BY <1>1, <1>5, <1>6, <1>8, <1>9, DisposeRecorded

LEMMA LoadHistoryRecorded ==
  ASSUME CacheInv, Recorded, NEW u \in Urls, LoadHistory(u)
  PROVE  Recorded'
<1>. DEFINE n == Fresh(u)
            S == ToSet(cache)
<1>1. Quietly /\ cachenr < MaxNr /\ todo' = <<>>
  BY DEF LoadHistory, Ready, onDisk, Quietly
<1>2. /\ cache \in Seq(Objects) /\ S \subseteq Objects /\ Distinct(cache)
      /\ Sound(S, cachenr, fetching) /\ cachenr \in Nat /\ CacheTypes
  BY InvFacts
<1>3. PICK o \in Held(u, "cache") : cache' = Append(As(cache, o, "orphan"), n)
  BY DEF LoadHistory
<1>4. New(n, cachenr, u)
  BY <1>1, <1>2, FreshFacts
<1>. HIDE DEF n
<1>5. n \in Objects /\ n.twin = 0 /\ ~n.named
  BY <1>4 DEF New
<1>6. o \in S /\ o \in Objects /\ "orphan" \in Roles
  BY <1>2 DEF Held, Roles
<1>. DEFINE p == Recast(o, "orphan")
            l == As(cache, o, "orphan")
<1>7. p.twin = o.twin /\ p.as = "orphan" /\ p.named = o.named /\ p.open = o.open
  BY <1>6, RecastFacts
<1>8. l \in Seq(Objects) /\ ToSet(l) = (S \ {o}) \cup {p}
  BY <1>2, <1>6, AsFacts
<1>. HIDE DEF p, l
<1>9. ToSet(cache') = ((S \ {o}) \cup {p}) \cup {n}
  <2>1. cache' = Append(l, n)
    BY <1>3 DEF l
  <2>2. ToSet(Append(l, n)) = ToSet(l) \cup {n}
    BY <1>5, <1>8, ToSetAppend
  <2>. QED  BY <1>8, <2>1, <2>2
<1>10. Begun(S)
  BY DEF Recorded
<1>11. Begun(ToSet(cache'))
  BY <1>5, <1>6, <1>7, <1>9, <1>10 DEF Begun
<1>12. Heirs(ToSet(cache'), S)
  BY <1>5, <1>7, <1>9, SameFollow DEF Heirs, Wanted, Registered
<1>. QED  BY <1>1, <1>11, <1>12, EmptyQuiet, QuietRecorded

LEMMA ReloadRecorded ==
  ASSUME CacheInv, Recorded, NEW u \in Urls, Reload(u)
  PROVE  Recorded'
<1>. DEFINE n == Fresh(u)
            S == ToSet(cache)
            gone == Held(u, "ocache") \cup Held(u, "vcache")
<1>1. Quietly /\ cachenr < MaxNr
  BY DEF Reload, Ready, onDisk, Quietly
<1>2. /\ cache \in Seq(Objects) /\ S \subseteq Objects /\ Distinct(cache)
      /\ Sound(S, cachenr, fetching) /\ cachenr \in Nat /\ CacheTypes
  BY InvFacts
<1>3. PICK o \in Held(u, "cache") : Dispose(gone, Append(As(cache, o, "ocache"), n))
  BY DEF Reload
<1>4. New(n, cachenr, u) /\ n.size = 0
  BY <1>1, <1>2, FreshFacts
<1>. HIDE DEF n
<1>5. n \in Objects /\ n.twin = 0 /\ ~n.named /\ \A x \in S : x.nr # n.nr
  BY <1>2, <1>4, NewNumber DEF New
<1>6. o \in S /\ o \in Objects /\ o.as = "cache" /\ "ocache" \in Roles
  BY <1>2 DEF Held, Roles
<1>. DEFINE p == Recast(o, "ocache")
            l == As(cache, o, "ocache")
            list == Append(l, n)
<1>7. p.nr = o.nr /\ p.twin = o.twin /\ p.as = "ocache" /\ p.named = o.named /\ p.open = o.open
  BY <1>6, RecastFacts
<1>8. /\ l \in Seq(Objects) /\ Distinct(l) /\ ToSet(l) = (S \ {o}) \cup {p}
      /\ SizeOf(l) = SizeOf(cache)
  BY <1>2, <1>6, AsFacts
<1>9. gone \subseteq S /\ o \notin gone
  BY <1>6 DEF Held
<1>10. Begun(S)
  BY DEF Recorded
<1>. HIDE DEF p, l, gone
<1>11. \A x \in ToSet(l) : x.nr # n.nr
  BY <1>5, <1>6, <1>7, <1>8
<1>12. /\ list \in Seq(Objects) /\ Distinct(list)
       /\ ToSet(list) = ((S \ {o}) \cup {p}) \cup {n} /\ SizeOf(list) = SizeOf(cache)
  BY <1>4, <1>5, <1>8, <1>11, FreshList
<1>13. Dispose(gone, list) /\ gone \subseteq ToSet(list)
  BY <1>3, <1>9, <1>12 DEF l
<1>. HIDE DEF list
<1>14. Begun(ToSet(list) \ gone)
  BY <1>5, <1>6, <1>7, <1>10, <1>12 DEF Begun
<1>15. Heirs(ToSet(list) \ gone, S)
  BY <1>5, <1>7, <1>12, SameFollow DEF Heirs, Wanted, Registered
<1>. QED  BY <1>1, <1>12, <1>13, <1>14, <1>15, DisposeRecorded

LEMMA VerifyRecorded ==
  ASSUME CacheInv, Recorded, NEW u \in Urls, Verify(u)
  PROVE  Recorded'
<1>. DEFINE f == Fresh(u)
            n == Recast(f, "vcache")
            S == ToSet(cache)
<1>1. Quietly /\ cachenr < MaxNr /\ todo' = <<>> /\ cache' = Append(cache, n)
  BY DEF Verify, Ready, onDisk, Quietly, Recast
<1>2. cache \in Seq(Objects) /\ CacheTypes
  BY InvFacts
<1>3. New(f, cachenr, u)
  BY <1>1, <1>2, FreshFacts
<1>. HIDE DEF f
<1>4. n \in Objects /\ n.twin = 0 /\ n.named = FALSE
  <2>1. f \in Objects /\ "vcache" \in Roles /\ f.twin = 0 /\ f.named = FALSE
    BY <1>3 DEF New, Roles, Objects
  <2>. QED  BY <2>1, RecastFacts
<1>. HIDE DEF n
<1>5. ToSet(cache') = S \cup {n}
  BY <1>1, <1>2, <1>4, ToSetAppend
<1>6. Begun(S)
  BY DEF Recorded
<1>7. Begun(ToSet(cache'))
  BY <1>4, <1>5, <1>6 DEF Begun
<1>8. Heirs(ToSet(cache'), S)
  BY <1>4, <1>5, SameFollow DEF Heirs, Wanted
<1>. QED  BY <1>1, <1>7, <1>8, EmptyQuiet, QuietRecorded

LEMMA VerifyModifiedRecorded ==
  ASSUME CacheInv, Recorded, NEW u \in Urls, VerifyModified(u)
  PROVE  Recorded'
<1>. DEFINE S == ToSet(cache)
            gone == Held(u, "cache")
<1>1. Quietly
  BY DEF VerifyModified, Ready, onDisk, Quietly
<1>2. /\ cache \in Seq(Objects) /\ S \subseteq Objects /\ Distinct(cache)
      /\ Sound(S, cachenr, fetching)
  BY InvFacts
<1>3. PICK o \in Held(u, "vcache") : Dispose(gone, As(cache, o, "cache"))
  BY DEF VerifyModified
<1>4. o \in S /\ o \in Objects /\ o.as = "vcache" /\ "cache" \in Roles /\ ~o.named /\ o.twin = 0
  BY <1>2 DEF Held, Roles, Sound, Verifying
<1>. DEFINE p == Recast(o, "cache")
            l == As(cache, o, "cache")
<1>5. p.twin = o.twin /\ p.named = o.named
  BY <1>4, RecastFacts
<1>6. /\ l \in Seq(Objects) /\ Distinct(l) /\ ToSet(l) = (S \ {o}) \cup {p}
      /\ SizeOf(l) = SizeOf(cache)
  BY <1>2, <1>4, AsFacts
<1>7. gone \subseteq S /\ o \notin gone
  BY <1>4 DEF Held
<1>8. Dispose(gone, l)
  BY <1>3
<1>9. Begun(S)
  BY DEF Recorded
<1>. HIDE DEF p, l, gone
<1>10. gone \subseteq ToSet(l)
  BY <1>6, <1>7
<1>11. Begun(ToSet(l) \ gone)
  BY <1>4, <1>5, <1>6, <1>9 DEF Begun
<1>12. Heirs(ToSet(l) \ gone, S)
  BY <1>4, <1>5, <1>6, SameFollow DEF Heirs, Wanted
<1>. QED  BY <1>1, <1>6, <1>8, <1>10, <1>11, <1>12, DisposeRecorded

\* What is held for a url, or what flushing finds, goes.
LEMMA HeldRecorded ==
  ASSUME CacheInv, Recorded,
         \/ \E u \in Urls : VerifyEnds(u) \/ DeleteCache(u) \/ Dupcheck(u)
         \/ Flushexcess
  PROVE  Recorded'
<1>1. Quietly
  BY DEF VerifyEnds, DeleteCache, Dupcheck, Flushexcess, Ready, onDisk, Quietly
<1>2. CASE \E u \in Urls : VerifyEnds(u) \/ DeleteCache(u) \/ Dupcheck(u)
  <2>1. PICK u \in Urls, as \in {"vcache", "cache", "dup"} : Dispose(Held(u, as), cache)
    BY <1>2 DEF VerifyEnds, DeleteCache, Dupcheck
  <2>2. Held(u, as) \subseteq ToSet(cache)
    BY DEF Held
  <2>. QED  BY <1>1, <2>1, <2>2, GoneRecorded
<1>3. CASE Flushexcess
  <2>. DEFINE i == Position(flushing)
              gone == Victims(cache[i])
  <2>1. i \in 0..Len(cache) /\ cache \in Seq(Objects)
    BY InvFacts, FollowingFacts
  <2>2. CASE i = 0 \/ cadisksize <= CacheMax
    <3>1. cache' = cache /\ todo' = <<>>
      BY <1>1, <1>3, <2>2 DEF Flushexcess, Quietly
    <3>2. Begun(ToSet(cache')) /\ Heirs(ToSet(cache'), ToSet(cache))
      BY <3>1, SameFollow DEF Heirs, Recorded
    <3>. QED  BY <1>1, <3>1, <3>2, EmptyQuiet, QuietRecorded
  <2>3. CASE ~(i = 0 \/ cadisksize <= CacheMax)
    <3>1. Dispose(gone, cache)
      BY <1>3, <2>3 DEF Flushexcess
    <3>2. cache[i] \in ToSet(cache)
      <4>1. i \in 1..Len(cache) /\ DOMAIN cache = 1..Len(cache)
        BY <2>1, <2>3
      <4>. QED  BY <4>1 DEF ToSet
    <3>3. gone \subseteq ToSet(cache)
      BY <3>2 DEF Victims, Held
    <3>. HIDE DEF gone, i
    <3>. QED  BY <1>1, <3>1, <3>3, GoneRecorded
  <2>. QED  BY <2>2, <2>3
<1>. QED  BY <1>2, <1>3

LEMMA FetchErrorRecorded ==
  ASSUME CacheInv, Recorded, NEW u \in Urls, FetchError(u)
  PROVE  Recorded'
<1>. DEFINE S == ToSet(cache)
            old == Held(u, "ocache")
            gone == Held(u, "cache")
            f == [x \in S |-> IF x \in old THEN Putback(x) ELSE x]
            k == [i \in 1..Len(cache) |-> IF cache[i] \in old THEN Putback(cache[i]) ELSE cache[i]]
<1>1. Quietly /\ Dispose(gone, k)
  BY DEF FetchError, Ready, onDisk, Putback, Quietly
<1>2. cache \in Seq(Objects) /\ S \subseteq Objects /\ Distinct(cache)
  BY InvFacts
<1>3. \A x \in S : f[x] = IF x \in old THEN Putback(x) ELSE x
  OBVIOUS
<1>4. gone \subseteq S /\ \A x \in gone : x \notin old
  BY DEF Held
<1>5. \A i \in 1..Len(cache) : cache[i] \in S
  <2>1. DOMAIN cache = 1..Len(cache)
    BY <1>2
  <2>. QED  BY <2>1 DEF ToSet
<1>6. k = [i \in 1..Len(cache) |-> IF cache[i] \in old THEN Putback(cache[i]) ELSE cache[i]]
  OBVIOUS
<1>7. Begun(S)
  BY DEF Recorded
<1>. HIDE DEF f, k, S, old, gone
<1>8. IsMapped(k, cache, f)
  BY <1>3, <1>5, <1>6 DEF IsMapped
<1>9. \A x \in S : /\ f[x] \in Objects /\ f[x].nr = x.nr /\ f[x].twin = x.twin
                   /\ f[x].size = x.size /\ f[x].named = x.named /\ f[x].open = x.open
                   /\ f[x] = x \/ f[x].restored
  BY <1>2, <1>3, PutbackFacts
<1>10. Renews(f, S)
  BY <1>9 DEF Renews
<1>11. /\ k \in Seq(Objects) /\ Distinct(k) /\ ToSet(k) = {f[x] : x \in S}
       /\ SizeOf(k) = SizeOf(cache)
  BY <1>2, <1>8, <1>9, <1>10, MapFacts DEF S
<1>12. gone \subseteq ToSet(k)
  <2>1. \A x \in gone : f[x] = x /\ x \in S
    BY <1>3, <1>4
  <2>. QED  BY <1>11, <2>1
<1>13. Begun(ToSet(k) \ gone)
  BY <1>7, <1>9, <1>11 DEF Begun
<1>14. Heirs(ToSet(k) \ gone, S)
  BY <1>9, <1>11, SameFollow DEF Heirs, Wanted
<1>. QED  BY <1>1, <1>11, <1>12, <1>13, <1>14, DisposeRecorded DEF S

LEMMA TouchRecorded ==
  ASSUME CacheInv, Recorded, NEW u \in Urls, Touch(u)
  PROVE  Recorded'
<1>1. Quietly /\ todo' = <<>>
  BY DEF Touch, Ready, onDisk, Quietly
<1>2. PICK o \in ToSet(cache) : cache' = Append(Without(cache, {o}), o)
  BY DEF Touch, Held
<1>3. ToSet(cache') = ToSet(cache)
  BY <1>2, InvFacts, TouchFacts
<1>4. Begun(ToSet(cache')) /\ Heirs(ToSet(cache'), ToSet(cache))
  BY <1>3, SameFollow DEF Heirs, Recorded
<1>. QED  BY <1>1, <1>4, EmptyQuiet, QuietRecorded

\* A file that is opened is that of one object only.
Creating(n) == [do |-> "create", nr |-> n]

LEMMA CreateFacts ==
  ASSUME NEW n \in Nr
  PROVE  /\ Unlinks(<<Creating(n)>>) = {} /\ Dels(<<Creating(n)>>) = {}
         /\ Writes(<<Creating(n)>>) = {n}
<1>. DEFINE x == Creating(n)
<1>1. x \in Steps /\ x.do = "create" /\ x.nr = n
  BY DEF Creating, Steps
<1>. HIDE DEF x
<1>2. <<x>> \in Seq(Steps) /\ Len(<<x>>) = 1 /\ <<x>>[1] = x /\ 1..1 = {1}
  BY <1>1
<1>3. ToSet(<<x>>) = {x}
  BY <1>2 DEF ToSet
<1>4. Unlinks(<<x>>) = {}
  BY <1>1, <1>2 DEF Unlinks, Unlinking
<1>5. Dels(<<x>>) = {} /\ Writes(<<x>>) = {n}
  BY <1>1, <1>3 DEF Dels, Removing, Writes, Writing
<1>. QED  BY <1>4, <1>5 DEF x

LEMMA DataRecorded ==
  ASSUME CacheInv, Recorded, NEW u \in Urls, Data(u)
  PROVE  Recorded'
<1>. DEFINE S == ToSet(cache)
<1>1. Quietly
  BY DEF Data, Ready, onDisk, Quietly
<1>2. cache \in Seq(Objects) /\ S \subseteq Objects /\ Distinct(cache)
  BY InvFacts
<1>3. PICK o \in Held(u, "cache") :
        /\ ~o.named \/ o.open
        /\ cache' = [i \in 1..Len(cache) |-> IF cache[i] = o THEN Grown(o) ELSE cache[i]]
        /\ todo' = IF o.named THEN <<>> ELSE <<[do |-> "create", nr |-> o.nr]>>
  BY DEF Data, Grown
<1>4. o \in S /\ o \in Objects /\ o.nr \in Nr
  BY <1>2 DEF Held, Objects
<1>5. /\ Grown(o) \in Objects /\ Grown(o).nr = o.nr /\ Grown(o).twin = o.twin /\ Grown(o).open
  BY <1>4, GrownFacts
<1>. DEFINE f == [x \in S |-> IF x = o THEN Grown(o) ELSE x]
<1>6. \A x \in S : f[x] = IF x = o THEN Grown(o) ELSE x
  OBVIOUS
<1>. HIDE DEF f
<1>7. IsMapped(cache', cache, f)
  <2>1. \A i \in 1..Len(cache) : cache[i] \in S
    <3>1. DOMAIN cache = 1..Len(cache)
      BY <1>2
    <3>. QED  BY <3>1 DEF ToSet
  <2>. HIDE DEF S
  <2>. QED  BY <1>3, <1>6, <2>1 DEF IsMapped
<1>8. Renews(f, S)
  BY <1>2, <1>5, <1>6 DEF Renews
<1>9. ToSet(cache') = {f[x] : x \in S}
  BY <1>2, <1>7, <1>8, MapFacts
<1>10. Begun(S)
  BY DEF Recorded
<1>11. \A x \in S : x.nr = o.nr => x = o
  BY <1>3, <1>4, <1>10, NumbersOfNew
<1>12. o.twin = 0
  BY <1>3, <1>4, <1>10 DEF Begun
<1>. HIDE DEF S
<1>13. Begun(ToSet(cache'))
  BY <1>5, <1>6, <1>9, <1>10, <1>12 DEF Begun
<1>14. Unlinks(todo') = {} /\ Dels(todo') = {} /\ Writes(todo') \subseteq {o.nr}
  <2>1. todo' = <<>> \/ todo' = <<Creating(o.nr)>>
    BY <1>3 DEF Creating
  <2>. QED  BY <1>4, <2>1, CreateFacts, NothingToDo
<1>15. ASSUME NEW x \in ToSet(cache'), Awaited(x, todo', files)
       PROVE  files[x.nr] = "whole" /\ Follows(x, S)
  <2>1. PICK y \in S : x = f[y]
    BY <1>9
  <2>2. Wanted(x)
    BY <1>15 DEF Awaited
  <2>3. y # o
    BY <1>5, <1>6, <2>1, <2>2 DEF Wanted
  <2>4. x = y /\ x.nr # o.nr
    BY <1>6, <1>11, <2>1, <2>3
  <2>5. files[x.nr] = "whole"
    BY <1>14, <1>15, <2>4 DEF Awaited
  <2>. QED  BY <2>2, <2>4, <2>5 DEF Follows
<1>. QED  BY <1>1, <1>13, <1>14, <1>15, OperationRecorded DEF Ordered, S

\* Every entry that is added is appended.
LEMMA AddregentryEnters ==
  ASSUME NEW r \in Tidies, NEW e \in Additions
  PROVE  /\ Enters(Addregentry(r, e).todo, e)
         /\ \A k : Enters(r.todo, k) => Enters(Addregentry(r, e).todo, k)
<1>. DEFINE x == [do |-> "append", entry |-> e]
            step == Append(r.todo, x)
            c == Compaction
<1>1. r.todo \in Seq(Steps) /\ e \in Entries /\ ~e.del /\ c \in Seq(Steps)
  BY CompactionFacts DEF Tidies, Plans, Additions
<1>2. x \in Steps /\ Entering(x, e)
  <2>1. x.do = "append" /\ x.entry = e
    OBVIOUS
  <2>2. x \in Steps
    BY <1>1 DEF Steps
  <2>. HIDE DEF x
  <2>. QED  BY <1>1, <2>1, <2>2 DEF Entering
<1>3. Addregentry(r, e) = IF r.added + 1 > NRCHKPT THEN [todo |-> step \o c, added |-> 0]
                                                   ELSE [todo |-> step, added |-> r.added + 1]
  BY DEF Addregentry
<1>4. Addregentry(r, e).todo \in {step, step \o c}
  BY <1>3
<1>. HIDE DEF x, c
<1>5. step \in Seq(Steps) /\ ToSet(step) = ToSet(r.todo) \cup {x}
  BY <1>1, <1>2, ToSetAppend
<1>6. Enters(step, e) /\ \A k : Enters(r.todo, k) => Enters(step, k)
  BY <1>2, <1>5 DEF Enters
<1>. HIDE DEF step
<1>7. \A k : Enters(step, k) => Enters(step \o c, k)
  BY <1>1, <1>5, PartsConcat
<1>. QED  BY <1>4, <1>6, <1>7

LEMMA AddregentriesEnter ==
  ASSUME NEW list \in Seq(Additions), NEW added \in 0..NRCHKPT
  PROVE  \A i \in 1..Len(list) : Enters(Addregentries(list, added).todo, list[i])
<1>. DEFINE base == [todo |-> <<>>, added |-> added]
            h == CHOOSE h : IsEntered(h, list, base)
            n == Len(list)
            T == {i \in 0..n : h[1..i] \in Tidies /\ \A j \in 1..i : Enters(h[1..i].todo, list[j])}
<1>1. Addregentries(list, added) = h[DOMAIN list]
  BY DEF Addregentries, FoldLeft, MapThenFoldSet, IsEntered
<1>2. Tidy(base, {})
  BY StartPlan
<1>. HIDE DEF base
<1>3. IsEntered(h, list, base)
  BY <1>2, EnteredExist DEF Tidy
<1>4. n \in Nat /\ n \in 0..n /\ DOMAIN list = 1..n
  OBVIOUS
<1>. HIDE DEF h
<1>5. \A S \in SUBSET (1..n) :
        h[S] = IF S = {} THEN base ELSE Addregentry(h[S \ {Max(S)}], list[Max(S)])
  BY <1>3, <1>4 DEF IsEntered
<1>6. 0 \in T
  <2>1. 1..0 = {} /\ {} \in SUBSET (1..n)
    BY <1>4
  <2>2. h[1..0] \in Tidies
    BY <1>2, <1>5, <2>1 DEF Tidy
  <2>. HIDE DEF n
  <2>. QED  BY <1>4, <2>1, <2>2
<1>7. ASSUME NEW i \in 1..n, i - 1 \in T  PROVE i \in T
  <2>1. /\ 1..i \in SUBSET (1..n) /\ 1..i # {} /\ Max(1..i) = i /\ (1..i) \ {i} = 1..(i - 1)
        /\ i \in 0..n /\ list[i] \in Additions
    BY <1>4, PrefixFacts
  <2>. DEFINE g == h[1..(i - 1)]
              k == h[1..i]
  <2>2. k = Addregentry(g, list[i])
    BY <1>5, <2>1
  <2>3. g \in Tidies /\ \A j \in 1..(i - 1) : Enters(g.todo, list[j])
    BY <1>7
  <2>. HIDE DEF g, k
  <2>4. Enters(k.todo, list[i]) /\ \A j \in 1..(i - 1) : Enters(k.todo, list[j])
    BY <2>1, <2>2, <2>3, AddregentryEnters
  <2>5. k \in Tidies
    <3>1. Tidy(g, Unlinks(g.todo)) /\ list[i] \in Entries
      BY <2>1, <2>3 DEF Tidy, Additions
    <3>2. Tidy(k, Unlinks(g.todo))
      BY <2>1, <2>2, <3>1, AddregentryFacts
    <3>. QED  BY <3>2 DEF Tidy
  <2>6. \A j \in 1..i : j = i \/ j \in 1..(i - 1)
    BY <1>4
  <2>7. \A j \in 1..i : Enters(k.todo, list[j])
    BY <2>4, <2>6
  <2>. QED  BY <2>1, <2>5, <2>7 DEF k
<1>. HIDE DEF T, n
<1>8. n \in T
  BY <1>4, <1>6, <1>7, Inducts
<1>. QED  BY <1>1, <1>4, <1>8 DEF T, n

\* The steps of Finish(): the files T are closed, and entered.
LEMMA EntersAll ==
  ASSUME NEW T \in SUBSET Objects, IsFiniteSet(T), NEW added \in 0..NRCHKPT
  PROVE  \A x \in T :
           Enters(Addregentries(SetToSeq({Entry(y, FALSE) : y \in T}), added).todo, Id(x))
<1>. DEFINE f == [x \in T |-> Entry(x, FALSE)]
            C == {f[x] : x \in DOMAIN f}
            list == SetToSeq(C)
            t == Addregentries(list, added).todo
<1>1. DOMAIN f = T /\ f = [x \in DOMAIN f |-> f[x]]
  OBVIOUS
<1>2. {Entry(y, FALSE) : y \in T} = C
  OBVIOUS
<1>3. C \in SUBSET Additions /\ \A x \in T : f[x] \in C /\ f[x].nr = x.nr /\ f[x].url = x.url
  <2>1. ASSUME NEW x \in T
        PROVE  f[x] \in Additions /\ f[x].nr = x.nr /\ f[x].url = x.url
    <3>1. x.nr \in Nr /\ x.url \in Urls /\ x.size \in Nat
      BY DEF Objects
    <3>2. Entry(x, FALSE) \in Additions /\ Entry(x, FALSE).nr = x.nr /\ Entry(x, FALSE).url = x.url
      BY <3>1 DEF Entry, Entries, Additions
    <3>. QED  BY <3>2
  <2>. QED  BY <2>1
<1>. HIDE DEF f
<1>4. IsFiniteSet(C)
  BY <1>1, ImageFinite
<1>. HIDE DEF C
<1>5. list \in Seq(Additions) /\ ToSet(list) = C
  BY <1>3, <1>4, SetToSeqFacts DEF Lists
<1>. HIDE DEF list
<1>6. \A i \in 1..Len(list) : Enters(t, list[i])
  BY <1>5, AddregentriesEnter
<1>. HIDE DEF t
<1>7. ASSUME NEW x \in T  PROVE Enters(t, Id(x))
  <2>1. f[x] \in C /\ f[x].nr = x.nr /\ f[x].url = x.url
    BY <1>3
  <2>2. PICK i \in 1..Len(list) : list[i] = f[x]
    <3>1. DOMAIN list = 1..Len(list)
      BY <1>5
    <3>. QED  BY <1>5, <2>1, <3>1 DEF ToSet
  <2>3. Enters(t, f[x])
    BY <1>6, <2>2
  <2>4. Id(x).nr = f[x].nr /\ Id(x).url = f[x].url
    BY <2>1 DEF Id
  <2>. QED  BY <2>3, <2>4 DEF Enters, Entering
<1>. QED  BY <1>2, <1>7 DEF t, list

LEMMA WriteFacts ==
  ASSUME NEW T, IsFiniteSet(T), \A x \in T : x.nr \in Nr, NEW act \in {"create", "close"}
  PROVE  /\ Unlinks(SetToSeq({[do |-> act, nr |-> x.nr] : x \in T})) = {}
         /\ Dels(SetToSeq({[do |-> act, nr |-> x.nr] : x \in T})) = {}
         /\ \A n \in Writes(SetToSeq({[do |-> act, nr |-> x.nr] : x \in T})) :
              \E x \in T : x.nr = n
<1>. DEFINE f == [x \in T |-> Access(act, x.nr)]
            C == {f[x] : x \in DOMAIN f}
            t == SetToSeq(C)
<1>1. DOMAIN f = T /\ f = [x \in DOMAIN f |-> f[x]]
  OBVIOUS
<1>2. {[do |-> act, nr |-> x.nr] : x \in T} = C
  BY DEF Access
<1>3. \A y \in C : y \in Steps /\ y.do \in {"create", "close"} /\ \E x \in T : x.nr = y.nr
  <2>1. \A x \in T : f[x] \in Steps /\ f[x].do \in {"create", "close"} /\ f[x].nr = x.nr
    BY NumberSteps
  <2>. QED  BY <1>1, <2>1
<1>. HIDE DEF f
<1>4. IsFiniteSet(C)
  BY <1>1, ImageFinite
<1>. HIDE DEF C
<1>5. t \in Seq(Steps) /\ ToSet(t) = C
  BY <1>3, <1>4, SetToSeqFacts DEF Lists
<1>. HIDE DEF t
<1>6. \A i \in 1..Len(t) : t[i] \in C
  <2>1. DOMAIN t = 1..Len(t)
    BY <1>5
  <2>. QED  BY <1>5, <2>1 DEF ToSet
<1>7. Unlinks(t) = {}
  BY <1>3, <1>6 DEF Unlinks, Unlinking
<1>8. Dels(t) = {}
  BY <1>3, <1>5 DEF Dels, Removing
<1>9. \A n \in Writes(t) : \E x \in T : x.nr = n
  BY <1>3, <1>5 DEF Writes
<1>. QED  BY <1>2, <1>7, <1>8, <1>9 DEF t

\* What two parts do to the disk, one after the other.
LEMMA AccessConcat ==
  ASSUME NEW s \in Seq(Steps), NEW t \in Seq(Steps)
  PROVE  /\ s \o t \in Seq(Steps) /\ Unlinks(s \o t) = Unlinks(s) \cup Unlinks(t)
         /\ Dels(s \o t) = Dels(s) \cup Dels(t) /\ Writes(s \o t) = Writes(s) \cup Writes(t)
<1>1. s \o t \in Seq(Steps)
  OBVIOUS
<1>. QED  BY <1>1, UnlinksConcat, DelsConcat, PartsConcat

LEMMA FinishRecorded ==
  ASSUME CacheInv, Recorded, NEW u \in Urls, Finish(u)
  PROVE  Recorded'
<1>. DEFINE S == ToSet(cache)
            old == Held(u, "ocache")
            done == {o \in Held(u, "cache") : o.open \/ ~o.named}
            new == {x \in done : ~x.named}
            d == Disposals(SetToSeq(old), nradded)
            reg == Addregentries(SetToSeq({Entry(o, FALSE) : o \in done}), d.added)
            created == SetToSeq({[do |-> "create", nr |-> o.nr] : o \in new})
            closed == SetToSeq({[do |-> "close", nr |-> o.nr] : o \in done})
            left == Without(cache, old)
            f == [x \in S |-> IF x \in done THEN Closed(x) ELSE x]
<1>1. Quietly
  BY DEF Finish, Ready, onDisk, Quietly
<1>2. /\ cache' = [i \in 1..Len(left) |-> IF left[i] \in done THEN Closed(left[i]) ELSE left[i]]
      /\ todo' = d.todo \o created \o closed \o reg.todo
  BY DEF Finish, Closed
<1>3. /\ cache \in Seq(Objects) /\ S \subseteq Objects /\ Distinct(cache)
      /\ nradded \in 0..NRCHKPT
  BY InvFacts
<1>4. old \subseteq S /\ done \subseteq S \ old /\ new \subseteq done
      /\ \A x \in done : x.open \/ ~x.named
  BY DEF Held
<1>5. \A x \in S : f[x] = IF x \in done THEN Closed(x) ELSE x
  OBVIOUS
<1>6. Begun(S)
  BY DEF Recorded
<1>7. \A x \in done, y \in S : x.nr = y.nr => x = y
  BY <1>4, <1>6, NumbersOfNew
<1>. HIDE DEF f, S, old
<1>8. /\ Tidy(d, FilesOf(old))
      /\ left \in Seq(Objects) /\ Distinct(left) /\ ToSet(left) = S \ old
  BY <1>3, <1>4, DisposeAll DEF S
<1>9. IsFiniteSet(done) /\ done \in SUBSET Objects
  <2>1. IsFiniteSet(S)
    BY <1>3, ToSetFinite DEF S
  <2>. HIDE DEF done
  <2>. QED  BY <1>3, <1>4, <2>1, FS_Subset
<1>10. /\ d.todo \in Seq(Steps) /\ d.added \in 0..NRCHKPT /\ Quiet(d.todo)
       /\ Unlinks(d.todo) = FilesOf(old) /\ Dels(d.todo) \subseteq FilesOf(old)
  <2>. HIDE DEF d
  <2>. QED  BY <1>8 DEF Tidy, Tidies, Plans
<1>. HIDE DEF d, left, done, new
<1>11. Tidy(reg, {}) /\ \A x \in done : Enters(reg.todo, Id(x))
  BY <1>9, <1>10, EnterAll, EntersAll
<1>12. /\ reg.todo \in Seq(Steps) /\ Quiet(reg.todo)
       /\ Unlinks(reg.todo) = {} /\ Dels(reg.todo) = {}
  <2>. HIDE DEF reg
  <2>. QED  BY <1>11 DEF Tidy, Tidies, Plans
<1>13. /\ closed \in Seq(Steps) /\ Unlinks(closed) = {} /\ Dels(closed) = {}
       /\ created \in Seq(Steps) /\ Unlinks(created) = {} /\ Dels(created) = {}
       /\ \A n \in Writes(created) \cup Writes(closed) : \E x \in done : x.nr = n
  <2>1. IsFiniteSet(new) /\ \A x \in done : x.nr \in Nr
    BY <1>4, <1>9, FS_Subset DEF Objects
  <2>2. /\ closed \in Seq(Steps) /\ Unlinks(closed) = {} /\ Dels(closed) = {}
        /\ \A n \in Writes(closed) : \E x \in done : x.nr = n
    BY <1>9, <2>1, WriteAll, WriteFacts
  <2>3. /\ created \in Seq(Steps) /\ Unlinks(created) = {} /\ Dels(created) = {}
        /\ \A n \in Writes(created) : \E x \in new : x.nr = n
    <3>1. \A x \in new : x.nr \in Nr
      BY <1>4, <2>1
    <3>. QED  BY <2>1, <3>1, WriteAll, WriteFacts
  <2>. QED  BY <1>4, <2>2, <2>3
<1>. HIDE DEF reg, closed, created
<1>. DEFINE a == d.todo
            b == reg.todo
            c == a \o created
            s == c \o closed
            made == Writes(created) \cup Writes(closed)
<1>14. /\ a \in Seq(Steps) /\ b \in Seq(Steps) /\ Quiet(a) /\ Quiet(b)
       /\ Unlinks(a) = FilesOf(old) /\ Dels(a) \subseteq FilesOf(old)
       /\ Unlinks(b) = {} /\ Dels(b) = {} /\ \A x \in done : Enters(b, Id(x))
  BY <1>10, <1>11, <1>12
<1>15. todo' = s \o b
  BY <1>2
<1>. HIDE DEF a, b
<1>16. Writes(a) = {} /\ Writes(b) = {}
  BY <1>14, QuietWrites
<1>17. /\ s \in Seq(Steps) /\ Unlinks(s) = FilesOf(old) /\ Dels(s) \subseteq FilesOf(old)
       /\ Writes(s) = made
  <2>1. /\ c \in Seq(Steps) /\ Unlinks(c) = Unlinks(a) \cup Unlinks(created)
        /\ Dels(c) = Dels(a) \cup Dels(created) /\ Writes(c) = Writes(a) \cup Writes(created)
    BY <1>13, <1>14, AccessConcat
  <2>. HIDE DEF c
  <2>2. /\ s \in Seq(Steps) /\ Unlinks(s) = Unlinks(c) \cup Unlinks(closed)
        /\ Dels(s) = Dels(c) \cup Dels(closed) /\ Writes(s) = Writes(c) \cup Writes(closed)
    BY <1>13, <2>1, AccessConcat
  <2>. QED  BY <1>13, <1>14, <1>16, <2>1, <2>2
<1>. HIDE DEF c, s
<1>18. /\ Unlinks(todo') = FilesOf(old) /\ Dels(todo') \subseteq FilesOf(old)
       /\ Writes(todo') = made /\ \A x \in done : Enters(todo', Id(x))
  <2>1. Unlinks(s \o b) = Unlinks(s) \cup Unlinks(b) /\ Dels(s \o b) = Dels(s) \cup Dels(b)
        /\ Writes(s \o b) = Writes(s) \cup Writes(b)
    BY <1>14, <1>17, UnlinksConcat, DelsConcat, PartsConcat
  <2>2. \A k : Enters(b, k) => Enters(s \o b, k)
    BY <1>14, <1>17, PartsConcat
  <2>. QED  BY <1>14, <1>15, <1>16, <1>17, <2>1, <2>2
<1>19. Ordered(todo')
  <2>1. ASSUME NEW n \in made, n \in FilesOf(old)  PROVE FALSE
    <3>1. PICK x \in done : x.nr = n
      BY <1>13
    <3>2. PICK y \in old : y.nr = n
      BY <2>1 DEF FilesOf
    <3>. QED  BY <1>4, <1>7, <3>1, <3>2
  <2>. QED  BY <1>18, <2>1 DEF Ordered
<1>20. \A i \in 1..Len(left) : left[i] \in S \ old
  <2>1. DOMAIN left = 1..Len(left)
    BY <1>8
  <2>. QED  BY <1>8, <2>1 DEF ToSet
<1>21. IsMapped(cache', left, f)
  BY <1>2, <1>5, <1>20 DEF IsMapped
<1>22. \A x \in S \ old :
         /\ f[x] \in Objects /\ f[x].nr = x.nr /\ f[x].twin = x.twin /\ f[x].url = x.url
         /\ x.named => f[x].named
         /\ f[x].open => x.open
  BY <1>3, <1>5, ClosedFacts
<1>23. Renews(f, ToSet(left))
  BY <1>8, <1>22 DEF Renews
<1>24. ToSet(cache') = {f[x] : x \in S \ old}
  <2>1. left \in Seq(Objects) /\ Distinct(left)
    BY <1>8
  <2>2. ToSet(cache') = {f[x] : x \in ToSet(left)}
    BY <1>21, <1>23, <2>1, MapFacts
  <2>. QED  BY <1>8, <2>2
<1>25. Begun(ToSet(cache'))
  <2>1. \A x \in S \ old : f[x].open \/ ~f[x].named => f[x].twin = 0
    BY <1>6, <1>22 DEF Begun
  <2>. QED  BY <1>24, <2>1 DEF Begun
<1>26. ASSUME NEW x \in ToSet(cache'), Awaited(x, todo', files)
       PROVE  Enters(todo', Id(x)) \/ (files[x.nr] = "whole" /\ Follows(x, S))
  <2>1. PICK y \in S \ old : x = f[y]
    BY <1>24
  <2>2. CASE y \in done
    <3>1. Enters(todo', Id(y)) /\ x.nr = y.nr /\ x.url = y.url
      BY <1>18, <1>22, <2>1, <2>2
    <3>2. Id(x) = Id(y)
      BY <3>1 DEF Id
    <3>. QED  BY <3>1, <3>2
  <2>3. CASE y \notin done
    <3>1. x = y /\ x \in S
      BY <1>5, <2>1, <2>3
    <3>2. x.nr \notin Writes(todo')
      <4>1. SUFFICES ASSUME x.nr \in made  PROVE FALSE
        BY <1>18
      <4>2. PICK z \in done : z.nr = x.nr
        BY <1>13, <4>1
      <4>. QED  BY <1>7, <2>3, <3>1, <4>2
    <3>. QED  BY <1>26, <3>1, <3>2 DEF Awaited, Follows
  <2>. QED  BY <2>2, <2>3
<1>27. Dels(todo') \subseteq Unlinks(todo')
  BY <1>18
<1>. QED  BY <1>1, <1>19, <1>25, <1>26, <1>27, OperationRecorded DEF S

\* A repair saves the registration.
LEMMA FixSaves ==
  ASSUME NEW s \in Seq(Steps), Quiet(s), Dels(s) = {},
         NEW t \in Seq(Steps), Quiet(t), Dels(t) \subseteq Unlinks(t),
         NEW shared \in SUBSET Nr, NEW w, w = Repair(s, t, shared)
  PROVE  /\ w \in Seq(Steps) /\ Quiet(w) /\ Saves(w) /\ Dels(w) \subseteq Unlinks(w)
<1>. DEFINE a == s \o t
            k == Compaction
            b == a \o k
            f == LastFix(shared)
            c == <<f>>
<1>1. a \in Seq(Steps) /\ Quiet(a) /\ Dels(a) \subseteq Unlinks(a)
  <2>1. a \in Seq(Steps) /\ Quiet(a)
    BY QuietConcat
  <2>2. Unlinks(a) = Unlinks(s) \cup Unlinks(t) /\ Dels(a) = Dels(s) \cup Dels(t)
    BY UnlinksConcat, DelsConcat
  <2>. QED  BY <2>1, <2>2
<1>2. k \in Seq(Steps) /\ Quiet(k) /\ Dels(k) = {} /\ Saves(k)
  BY CompactionFacts, CompactionSaves
<1>3. c \in Seq(Steps) /\ Quiet(c) /\ Dels(c) = {}
  <2>1. c \in Seq(Steps) /\ Quiet(c) /\ f.do = "fixed"
    BY LastFixFacts
  <2>. HIDE DEF f
  <2>2. ToSet(c) = {f}
    <3>1. DOMAIN c = 1..1 /\ c[1] = f /\ 1..1 = {1}
      OBVIOUS
    <3>. QED  BY <3>1 DEF ToSet
  <2>3. Dels(c) = {}
    BY <2>1, <2>2 DEF Dels, Removing
  <2>. QED  BY <2>1, <2>3
<1>4. w = b \o c
  BY DEF Repair
<1>. HIDE DEF a, k, c
<1>5. b \in Seq(Steps) /\ Quiet(b) /\ Saves(b) /\ Dels(b) \subseteq Unlinks(b)
  <2>1. b \in Seq(Steps) /\ Quiet(b) /\ Saves(b)
    BY <1>1, <1>2, QuietConcat, PartsConcat
  <2>2. Unlinks(b) = Unlinks(a) \cup Unlinks(k) /\ Dels(b) = Dels(a) \cup Dels(k)
    BY <1>1, <1>2, UnlinksConcat, DelsConcat
  <2>. QED  BY <1>1, <1>2, <2>1, <2>2
<1>. HIDE DEF b
<1>6. b \o c \in Seq(Steps) /\ Quiet(b \o c) /\ Saves(b \o c)
  BY <1>3, <1>5, QuietConcat, PartsConcat
<1>7. Unlinks(b \o c) = Unlinks(b) \cup Unlinks(c) /\ Dels(b \o c) = Dels(b) \cup Dels(c)
  BY <1>3, <1>5, UnlinksConcat, DelsConcat
<1>. QED  BY <1>3, <1>4, <1>5, <1>6, <1>7

LEMMA FixcacheRecorded ==
  ASSUME CacheInv, Recorded, Fixcache
  PROVE  Recorded'
<1>. DEFINE S == ToSet(cache)
            known == {o \in S : o.named}
            shared == {o.nr : o \in {x \in known : \E y \in known : y # x /\ y.nr = x.nr}}
            stray == {n \in Nr : files[n] # "none" /\ \A o \in known : o.nr # n}
            lost == {o \in known : files[o.nr] = "none" \/ ~Foundfirst(o)}
            gone == UNION {Victims(o) : o \in lost}
            d == Disposals(SetToSeq(gone), nradded)
            s == SetToSeq({[do |-> "unlink", nr |-> n] : n \in stray})
<1>1. Quietly
  BY DEF Fixcache, Ready, onDisk, Quietly
<1>2. /\ cache' = Without(cache, gone)
      /\ todo' = Repair(s, d.todo, shared)
  BY DEF Fixcache, Repair, LastFix, Named, Shared
<1>3. S \subseteq Objects /\ cache \in Seq(Objects) /\ Distinct(cache) /\ nradded \in 0..NRCHKPT
  BY InvFacts
<1>4. gone \subseteq S /\ shared \in SUBSET Nr
  BY <1>3 DEF Victims, Held, Objects
<1>. HIDE DEF S, gone
<1>5. stray \subseteq Nr /\ IsFiniteSet(stray)
  <2>1. 1 \in Int /\ MaxNr \in Int
    BY CacheAssumption
  <2>2. IsFiniteSet(Nr)
    BY <2>1, FS_Interval DEF Nr
  <2>3. stray \subseteq Nr
    OBVIOUS
  <2>. HIDE DEF stray
  <2>. QED  BY <2>2, <2>3, FS_Subset
<1>. HIDE DEF stray, lost, known, shared
<1>6. Tidy(d, FilesOf(gone)) /\ ToSet(cache') = S \ gone
  <2>1. gone \in SUBSET ToSet(cache)
    BY <1>4 DEF S
  <2>. QED  BY <1>2, <1>3, <2>1, DisposeAll DEF S
<1>7. /\ d.todo \in Seq(Steps) /\ Quiet(d.todo)
      /\ Dels(d.todo) \subseteq Unlinks(d.todo)
  <2>. HIDE DEF d
  <2>. QED  BY <1>6 DEF Tidy, Tidies, Plans
<1>8. s \in Seq(Steps) /\ Quiet(s) /\ Dels(s) = {}
  BY <1>5, DeleteAll
<1>. HIDE DEF s, d
<1>. DEFINE t == d.todo
            w == todo'
<1>9. /\ t \in Seq(Steps) /\ Quiet(t) /\ Dels(t) \subseteq Unlinks(t)
      /\ w = Repair(s, t, shared)
  BY <1>2, <1>7
<1>. HIDE DEF t, w
<1>10. w \in Seq(Steps) /\ Quiet(w) /\ Saves(w) /\ Dels(w) \subseteq Unlinks(w)
  BY <1>4, <1>8, <1>9, FixSaves
<1>11. Ordered(w)
  BY <1>10, QuietWrites
<1>12. Begun(ToSet(cache'))
  BY <1>6 DEF Recorded, Begun, S
<1>. QED  BY <1>1, <1>10, <1>11, <1>12, OperationRecorded DEF w

LEMMA FixEndsRecorded ==
  ASSUME CacheInv, Recorded, FixEnds
  PROVE  Recorded'
<1>1. todo \in Seq(Steps) /\ awcu.there \in BOOLEAN /\ awcr.there \in BOOLEAN
  BY DEF CacheInv, CacheTypes, Regs
<1>2. /\ todo # <<>> /\ todo[1].do = "fixed" /\ todo' = <<>>
      /\ phase' = phase /\ cache' = cache /\ awcr' = awcr /\ awcu' = awcu /\ files' = files
      /\ now' = now /\ faults' = faults
  <2>1. todo # <<>> => Head(todo) = todo[1]
    BY <1>1
  <2>. QED  BY <2>1 DEF FixEnds, onDisk, memory
<1>3. /\ Tail(todo) \in Seq(Steps) /\ 1 \in 1..Len(todo) /\ Len(Tail(todo)) = Len(todo) - 1
      /\ Len(todo) \in Nat
  BY <1>1, <1>2
<1>4. Len(todo) = 1
  <2>1. CASE Starting(todo, awcr.there)
    <3>1. 1 \in 1..(Len(todo) - 1) \/ Len(todo) = 1
      BY <1>3
    <3>. QED  BY <1>2, <2>1, <3>1 DEF Starting
  <2>2. CASE ~Starting(todo, awcr.there)
    <3>1. awcu.there
      BY <1>1, <1>2, <2>2 DEF CacheInv, Registers
    <3>2. Saving(todo, phase = "exited")
      BY <3>1 DEF CacheInv, Registers
    <3>. DEFINE ex == phase = "exited"
    <3>3. Saving(todo, ex)
      BY <3>2
    <3>. HIDE DEF ex
    <3>. QED  BY <1>2, <1>3, <3>3 DEF Saving
  <2>. QED  BY <2>1, <2>2
<1>5. Tail(todo) = <<>>
  <2>. DEFINE w == Tail(todo)
  <2>1. w \in Seq(Steps) /\ Len(w) = 0
    BY <1>3, <1>4
  <2>. HIDE DEF w
  <2>2. w = <<>>
    BY <2>1
  <2>. QED  BY <2>2 DEF w
<1>6. /\ Unlinks(todo) = {} /\ ~Saves(todo) /\ \A k : ~Enters(todo, k)
  <2>1. /\ \A n \in Unlinks(todo) : n \in Unlinks(Tail(todo))
        /\ Saves(todo) => Stores(todo[1]) \/ Saves(Tail(todo))
        /\ \A k : Enters(todo, k) => Entering(todo[1], k) \/ Enters(Tail(todo), k)
    BY <1>1, <1>2, RestFacts
  <2>2. ~Stores(todo[1]) /\ \A k : ~Entering(todo[1], k)
    BY <1>2 DEF Stores, Entering
  <2>. QED  BY <1>5, <2>1, <2>2, NothingToDo
<1>7. /\ Begun(ToSet(cache')) /\ Ordered(todo') /\ Deleted(todo', files') /\ Plain(awcr'.log)
      /\ Recoverable' = Recoverable /\ Undisturbed' = Undisturbed
  BY <1>2, NothingToDo DEF Recorded, Ordered, Deleted, Recoverable, Undisturbed
<1>8. Undisturbed => Intact(awcu'.log, todo')
  BY <1>2, <1>6 DEF Recorded, Intact
<1>9. ASSUME Undisturbed, NEW x \in ToSet(cache), Awaited(x, todo', files)
      PROVE  Recalled(x, Recoverable, now)
  <2>1. Awaited(x, todo, files)
    BY <1>2, <1>6, <1>9, NothingToDo DEF Awaited
  <2>. QED  BY <1>6, <1>9, <2>1 DEF Recorded, Complete
<1>10. Undisturbed => Complete(ToSet(cache'), todo', files', Recoverable', now')
  BY <1>2, <1>7, <1>9 DEF Complete
<1>. QED  BY <1>7, <1>8, <1>10 DEF Recorded

LEMMA InitRecorded ==
  ASSUME CacheInit
  PROVE  Recorded
<1>1. phase = "down" /\ cache = <<>> /\ todo = <<>> /\ awcr = NoFile
  BY DEF CacheInit
<1>2. ToSet(<<>>) = {}
  BY DEF ToSet
<1>3. Begun(ToSet(cache)) /\ Ordered(todo) /\ Deleted(todo, files) /\ Plain(awcr.log)
  BY <1>1, <1>2, NothingToDo, NoFilePlain DEF Begun, Ordered, Deleted
<1>4. ~Undisturbed
  BY <1>1 DEF Undisturbed
<1>. QED  BY <1>3, <1>4 DEF Recorded

LEMMA StepRecorded ==
  ASSUME CacheInv, Recorded, [CacheNext]_cacheVars
  PROVE  Recorded'
<1>1. CASE \E u \in Urls : Load(u) \/ LoadHistory(u) \/ Reload(u) \/ Verify(u)
  BY <1>1, LoadRecorded, LoadHistoryRecorded, ReloadRecorded, VerifyRecorded
<1>2. CASE \E u \in Urls : VerifyModified(u) \/ Data(u) \/ Finish(u) \/ FetchError(u) \/ Touch(u)
  BY <1>2, VerifyModifiedRecorded, DataRecorded, FinishRecorded, FetchErrorRecorded, TouchRecorded
<1>3. CASE \/ \E u \in Urls : VerifyEnds(u) \/ DeleteCache(u) \/ Dupcheck(u)
           \/ Flushexcess
  BY <1>3, HeldRecorded
<1>4. CASE DiskStep \/ SaveFails \/ Crash \/ Initcache
  BY <1>4, DiskStepRecorded, SaveFailsRecorded, CrashRecorded, InitcacheRecorded
<1>5. CASE Exitcache \/ ExpiryPasses \/ Fixcache \/ FixEnds
  BY <1>5, ExitcacheRecorded, ExpiryPassesRecorded, FixcacheRecorded, FixEndsRecorded
<1>6. CASE UNCHANGED cacheVars
  <2>1. /\ phase' = phase /\ faults' = faults /\ cache' = cache /\ todo' = todo /\ files' = files
        /\ awcr' = awcr /\ awcu' = awcu /\ now' = now
    BY <1>6 DEF cacheVars, memory, onDisk
  <2>. QED  BY <2>1 DEF Recorded, Undisturbed, Recoverable
<1>. QED  BY <1>1, <1>2, <1>3, <1>4, <1>5, <1>6 DEF CacheNext

\* Between two operations a crash loses no complete object of a url: the next
\* start finds it in the log, or in the registration that was saved last, unless
\* it has expired, was put back by a failed reload, or saving has failed.
THEOREM CachedIsRecovered == CacheSpec => []RecoversWhatIsCached
<1>1. CacheInit => CacheInv /\ Recorded
  BY CacheInitInv, InitRecorded
<1>2. CacheInv /\ Recorded /\ [CacheNext]_cacheVars => (CacheInv /\ Recorded)'
  BY CacheStepInv, StepRecorded
<1>3. CacheInv /\ Recorded => RecoversWhatIsCached
  <2>1. SUFFICES ASSUME CacheInv, Recorded, Ready, faults = 0, NEW o \in ToSet(cache),
                        Wanted(o), ~Expired(o.url), files[o.nr] = "whole"
                 PROVE  Id(o) \in Known
    BY DEF RecoversWhatIsCached, Wanted
  <2>2. Undisturbed /\ todo = <<>>
    BY <2>1 DEF Undisturbed, Ready
  <2>3. Awaited(o, todo, files)
    BY <2>1, <2>2, NothingToDo DEF Awaited
  <2>4. Saves(todo) \/ Enters(todo, Id(o)) \/ Recalled(o, Recoverable, now)
    BY <2>1, <2>2, <2>3 DEF Recorded, Complete
  <2>5. Recalled(o, Recoverable, now)
    BY <2>2, <2>4, NothingToDo
  <2>6. now \in BOOLEAN /\ Later(now, now, o.url)
    BY <2>1, InvFacts DEF Later, Expired
  <2>. QED  BY <2>5, <2>6, KnownRecall DEF Recalled
<1>. QED  BY <1>1, <1>2, <1>3, PTL DEF CacheSpec

=============================================================================
