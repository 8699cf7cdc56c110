------------------------------ MODULE SeqLemmas ------------------------------
(***************************************************************************)
(* Facts about the sequence operators the models use for ports, lists and  *)
(* the call stack, and about functions that are computed step by step,     *)
(* stated once for the proof modules.                                      *)
(***************************************************************************)
EXTENDS Integers, Sequences, SequencesExt, Nodelists, SequenceTheorems,
        WellFoundedInduction, TLAPS

\* The innermost call of a stack, and the calls below it.
LEMMA FrontLastFacts ==
  ASSUME NEW S, NEW s \in Seq(S), s # <<>>
  PROVE  /\ Len(s) \in Nat \ {0}
         /\ Last(s) \in S /\ Last(s) = s[Len(s)]
         /\ Front(s) \in Seq(S)
         /\ Len(Front(s)) = Len(s) - 1
         /\ \A i \in 1..(Len(s) - 1) : Front(s)[i] = s[i]
<1>. DEFINE n == Len(s) - 1
<1>1. Len(s) \in Nat \ {0} /\ n \in Nat /\ n + 1 = Len(s)
  BY EmptySeq
<1>2. \A i \in 1..n : s[i] \in S
  BY <1>1, ElementOfSeq
<1>3. Last(s) \in S /\ Last(s) = s[Len(s)]
  BY <1>1, ElementOfSeq DEF Last
<1>4. Front(s) = SubSeq(s, 1, n)
  BY DEF Front
<1>. HIDE DEF n
<1>5. /\ SubSeq(s, 1, n) \in Seq(S)
      /\ Len(SubSeq(s, 1, n)) = IF 1 <= n THEN n - 1 + 1 ELSE 0
      /\ \A i \in 1..(n - 1 + 1) : SubSeq(s, 1, n)[i] = s[1 + i - 1]
  BY <1>1, <1>2, SubSeqProperties
<1>6. Len(SubSeq(s, 1, n)) = n /\ \A i \in 1..n : SubSeq(s, 1, n)[i] = s[i]
  BY <1>1, <1>5
<1>. QED  BY <1>1, <1>3, <1>4, <1>5, <1>6 DEF n

\* Taking one element out of the middle of a queue.
LEMMA RemoveAtFacts ==
  ASSUME NEW S, NEW s \in Seq(S), NEW k \in 1..Len(s)
  PROVE  /\ RemoveAt(s, k) \in Seq(S)
         /\ Len(RemoveAt(s, k)) = Len(s) - 1
         /\ \A j \in 1..(Len(s) - 1) :
               RemoveAt(s, k)[j] = IF j < k THEN s[j] ELSE s[j + 1]
<1>. DEFINE p == SubSeq(s, 1, k - 1)
            q == SubSeq(s, k + 1, Len(s))
<1>1. Len(s) \in Nat
  OBVIOUS
<1>2. p \in Seq(S) /\ Len(p) = k - 1 /\ \A j \in 1..(k - 1) : p[j] = s[j]
  BY <1>1
<1>3. q \in Seq(S) /\ Len(q) = Len(s) - k /\ \A j \in 1..(Len(s) - k) : q[j] = s[j + k]
  BY <1>1
<1>4. RemoveAt(s, k) = p \o q
  BY DEF RemoveAt
<1>. HIDE DEF p, q
<1>5. /\ p \o q \in Seq(S)
      /\ Len(p \o q) = Len(p) + Len(q)
      /\ \A i \in 1..(Len(p) + Len(q)) :
            (p \o q)[i] = IF i <= Len(p) THEN p[i] ELSE q[i - Len(p)]
  BY <1>2, <1>3, ConcatProperties
<1>6. \A j \in 1..(Len(s) - 1) : (p \o q)[j] = IF j < k THEN s[j] ELSE s[j + 1]
  <2>. SUFFICES ASSUME NEW j \in 1..(Len(s) - 1)
                PROVE  (p \o q)[j] = IF j < k THEN s[j] ELSE s[j + 1]
    OBVIOUS
  <2>1. (p \o q)[j] = IF j <= k - 1 THEN p[j] ELSE q[j - (k - 1)]
    BY <1>1, <1>2, <1>3, <1>5
  <2>2. CASE j < k
    BY <2>1, <2>2, <1>1, <1>2
  <2>3. CASE ~(j < k)
    <3>1. j - (k - 1) \in 1..(Len(s) - k) /\ (j - (k - 1)) + k = j + 1
      BY <2>3, <1>1
    <3>. QED  BY <2>1, <2>3, <3>1, <1>1, <1>3
  <2>. QED  BY <2>2, <2>3
<1>. QED  BY <1>1, <1>2, <1>3, <1>4, <1>5, <1>6

\* Every element of a shortened queue was in it.
LEMMA RemoveAtElements ==
  ASSUME NEW S, NEW s \in Seq(S), NEW k \in 1..Len(s),
         NEW j \in 1..Len(RemoveAt(s, k))
  PROVE  \E i \in 1..Len(s) : i # k /\ RemoveAt(s, k)[j] = s[i]
<1>1. Len(s) \in Nat /\ j \in 1..(Len(s) - 1)
  BY RemoveAtFacts
<1>2. CASE j < k
  BY <1>1, <1>2, RemoveAtFacts
<1>3. CASE ~(j < k)
  BY <1>1, <1>3, RemoveAtFacts
<1>. QED  BY <1>2, <1>3

\* A set of numbers has a smallest one.
LEMMA SmallestIn ==
  ASSUME NEW T, T \subseteq Nat, T # {}
  PROVE  \E x \in T : \A y \in T : x <= y
<1>. DEFINE R == OpToRel(<, Nat)
<1>1. IsWellFoundedOn(R, Nat)
  BY NatLessThanWellFounded
<1>2. \A x, y \in Nat : x < y => <<x, y>> \in R
  BY DEF OpToRel
<1>. HIDE DEF R
<1>3. \E x \in T : \A y \in T : ~(<<y, x>> \in R)
  BY <1>1, WFMin
<1>4. PICK x \in T : \A y \in T : ~(<<y, x>> \in R)
  BY <1>3
<1>5. ASSUME NEW y \in T PROVE x <= y
  <2>1. x \in Nat /\ y \in Nat
    OBVIOUS
  <2>2. ~(y < x)
    BY <1>2, <1>4, <2>1
  <2>. QED  BY <2>1, <2>2
<1>. QED  BY <1>5

\* Putting one element into the middle of a queue.
LEMMA InsertAtFacts ==
  ASSUME NEW S, NEW s \in Seq(S), NEW k \in 1..Len(s), NEW e \in S
  PROVE  /\ InsertAt(s, k, e) \in Seq(S)
         /\ Len(InsertAt(s, k, e)) = Len(s) + 1
         /\ \A j \in 1..(Len(s) + 1) :
               InsertAt(s, k, e)[j] = IF j < k THEN s[j] ELSE IF j = k THEN e ELSE s[j - 1]
<1>. DEFINE p == SubSeq(s, 1, k - 1)
            q == SubSeq(s, k, Len(s))
            r == Append(p, e)
<1>1. Len(s) \in Nat
  OBVIOUS
<1>2. p \in Seq(S) /\ Len(p) = k - 1 /\ \A j \in 1..(k - 1) : p[j] = s[j]
  BY <1>1
<1>3. q \in Seq(S) /\ Len(q) = Len(s) - k + 1
      /\ \A j \in 1..(Len(s) - k + 1) : q[j] = s[j + k - 1]
  BY <1>1
<1>. HIDE DEF p, q
<1>4. r \in Seq(S) /\ Len(r) = k /\ r[k] = e /\ \A j \in 1..(k - 1) : r[j] = p[j]
  BY <1>1, <1>2
<1>5. InsertAt(s, k, e) = r \o q
  <2>1. Append(p, e) = p \o <<e>>
    BY <1>2, AppendIsConcat
  <2>. QED  BY <2>1 DEF InsertAt, p, q
<1>. HIDE DEF r
<1>6. /\ r \o q \in Seq(S)
      /\ Len(r \o q) = Len(r) + Len(q)
      /\ \A i \in 1..(Len(r) + Len(q)) :
            (r \o q)[i] = IF i <= Len(r) THEN r[i] ELSE q[i - Len(r)]
  BY <1>3, <1>4, ConcatProperties
<1>7. \A j \in 1..(Len(s) + 1) :
        (r \o q)[j] = IF j < k THEN s[j] ELSE IF j = k THEN e ELSE s[j - 1]
  <2>. SUFFICES ASSUME NEW j \in 1..(Len(s) + 1)
                PROVE  (r \o q)[j] = IF j < k THEN s[j] ELSE IF j = k THEN e ELSE s[j - 1]
    OBVIOUS
  <2>1. (r \o q)[j] = IF j <= k THEN r[j] ELSE q[j - k]
    BY <1>1, <1>3, <1>4, <1>6
  <2>2. CASE j < k
    BY <2>1, <2>2, <1>1, <1>2, <1>4
  <2>3. CASE j = k
    BY <2>1, <2>3, <1>1, <1>4
  <2>4. CASE j > k
    <3>1. j - k \in 1..(Len(s) - k + 1) /\ (j - k) + k - 1 = j - 1
      BY <2>4, <1>1
    <3>. QED  BY <2>1, <2>4, <3>1, <1>1, <1>3
  <2>5. j < k \/ j = k \/ j > k
    BY <1>1
  <2>. QED  BY <2>2, <2>3, <2>4, <2>5
<1>. QED  BY <1>1, <1>3, <1>4, <1>5, <1>6, <1>7

\* A call, its continuation and the calls below them.
LEMMA PushFacts ==
  ASSUME NEW S, NEW s \in Seq(S), NEW f \in S
  PROVE  /\ Append(s, f) \in Seq(S)
         /\ Len(Append(s, f)) = Len(s) + 1
         /\ \A i \in 1..Len(s) : Append(s, f)[i] = s[i]
         /\ Append(s, f)[Len(s) + 1] = f
OBVIOUS

LEMMA ConcatFacts ==
  ASSUME NEW S, NEW s \in Seq(S), NEW t \in Seq(S)
  PROVE  /\ s \o t \in Seq(S)
         /\ Len(s \o t) = Len(s) + Len(t)
         /\ \A i \in 1..Len(s) : (s \o t)[i] = s[i]
         /\ \A i \in 1..Len(t) : (s \o t)[Len(s) + i] = t[i]
<1>1. Len(s) \in Nat /\ Len(t) \in Nat
  OBVIOUS
<1>2. /\ s \o t \in Seq(S)
      /\ Len(s \o t) = Len(s) + Len(t)
      /\ \A i \in 1..(Len(s) + Len(t)) :
            (s \o t)[i] = IF i <= Len(s) THEN s[i] ELSE t[i - Len(s)]
  BY ConcatProperties
<1>. QED  BY <1>1, <1>2

-----------------------------------------------------------------------------
(* Removed() is a recursive function; what it returns is shown by taking   *)
(* the shortest prefix for which it would be wrong.                        *)

\* How w comes out of the first n elements of s: f tells from which place of s
\* each element is, and every place that is not in I is one.
Comes(w, s, I, n, f) ==
  /\ f \in [1..Len(w) -> (1..n) \ I]
  /\ \A i, j \in 1..Len(w) : f[i] = f[j] => i = j
  /\ \A p \in (1..n) \ I : \E i \in 1..Len(w) : f[i] = p
  /\ \A i \in 1..Len(w) : w[i] = s[f[i]]

\* left is the function of Removed() up to n.
IsLeft(left, s, I, n) ==
  left = [i \in 0..n |-> IF i = 0 THEN <<>>
                         ELSE IF i \in I THEN left[i - 1] ELSE Append(left[i - 1], s[i])]

LEMMA LeftExists ==
  ASSUME NEW S, NEW s \in Seq(S), NEW I, NEW n \in Nat
  PROVE  \E left : IsLeft(left, s, I, n)
<1>. DEFINE B == {i \in Nat : ~ \E left : IsLeft(left, s, I, i)}
<1>. SUFFICES ASSUME B # {} PROVE FALSE
  BY DEF B
<1>1. PICK m \in B : \A i \in B : m <= i
  <2>. HIDE DEF B
  <2>1. B \subseteq Nat
    BY DEF B
  <2>. QED  BY <2>1, SmallestIn
<1>2. m # 0
  <2>1. IsLeft([i \in 0..0 |-> <<>>], s, I, 0)
    BY DEF IsLeft
  <2>. QED  BY <1>1, <2>1
<1>3. m \in Nat /\ m - 1 \in Nat /\ m - 1 < m
  BY <1>1, <1>2
<1>4. PICK left : IsLeft(left, s, I, m - 1)
  BY <1>1, <1>3
<1>. DEFINE more == [i \in 0..m |-> IF i < m THEN left[i]
                                    ELSE IF m \in I THEN left[m - 1]
                                    ELSE Append(left[m - 1], s[m])]
<1>5. ASSUME NEW i \in 0..m
      PROVE  more[i] = IF i = 0 THEN <<>>
                       ELSE IF i \in I THEN more[i - 1] ELSE Append(more[i - 1], s[i])
  <2>1. CASE i < m
    <3>1. i \in 0..(m - 1) /\ (i # 0 => i - 1 \in 0..m /\ i - 1 < m)
      BY <1>3, <2>1
    <3>2. left[i] = IF i = 0 THEN <<>>
                    ELSE IF i \in I THEN left[i - 1] ELSE Append(left[i - 1], s[i])
      BY <1>4, <3>1 DEF IsLeft
    <3>3. more[i] = left[i] /\ (i # 0 => more[i - 1] = left[i - 1])
      BY <2>1, <3>1
    <3>. QED  BY <3>2, <3>3
  <2>2. CASE i = m
    BY <1>2, <1>3, <2>2
  <2>. QED  BY <1>3, <2>1, <2>2
<1>6. IsLeft(more, s, I, m)
  BY <1>5 DEF IsLeft
<1>. QED  BY <1>1, <1>6

LEMMA LeftComes ==
  ASSUME NEW S, NEW s \in Seq(S), NEW I, NEW left, IsLeft(left, s, I, Len(s)),
         NEW n \in 0..Len(s)
  PROVE  left[n] \in Seq(S) /\ \E f : Comes(left[n], s, I, n, f)
<1>0. Len(s) \in Nat
  OBVIOUS
<1>. DEFINE B == {i \in 0..Len(s) : ~(left[i] \in Seq(S) /\ \E f : Comes(left[i], s, I, i, f))}
<1>. SUFFICES ASSUME B # {} PROVE FALSE
  BY DEF B
<1>1. PICK m \in B : \A i \in B : m <= i
  <2>. HIDE DEF B
  <2>1. B \subseteq Nat
    BY <1>0 DEF B
  <2>. QED  BY <2>1, SmallestIn
<1>2. m # 0
  <2>1. left[0] = <<>>
    BY <1>0 DEF IsLeft
  <2>2. Comes(<<>>, s, I, 0, [i \in 1..0 |-> 0])
    BY DEF Comes
  <2>3. left[0] \in Seq(S) /\ \E f : Comes(left[0], s, I, 0, f)
    BY <2>1, <2>2
  <2>4. 0 \notin B
    BY <2>3
  <2>. QED  BY <1>1, <2>4
<1>3. m \in 1..Len(s) /\ m \in Nat /\ m - 1 \in 0..Len(s) /\ m - 1 < m
  BY <1>0, <1>1, <1>2
<1>4. /\ left[m - 1] \in Seq(S) /\ \E f : Comes(left[m - 1], s, I, m - 1, f)
      /\ left[m] = IF m \in I THEN left[m - 1] ELSE Append(left[m - 1], s[m])
  <2>1. m - 1 \notin B
    <3>. HIDE DEF B
    <3>. QED  BY <1>1, <1>3
  <2>2. left[m] = IF m \in I THEN left[m - 1] ELSE Append(left[m - 1], s[m])
    BY <1>2, <1>3 DEF IsLeft
  <2>. QED  BY <1>3, <2>1, <2>2
<1>5. PICK w \in Seq(S) : w = left[m - 1]
  BY <1>4
<1>6. PICK f : Comes(w, s, I, m - 1, f)
  BY <1>4, <1>5
<1>7. s[m] \in S /\ Len(w) \in Nat
  BY <1>3, <1>5, ElementOfSeq
<1>8. CASE m \in I
  <2>1. (1..m) \ I = (1..(m - 1)) \ I
    BY <1>3, <1>8
  <2>2. Comes(w, s, I, m, f)
    BY <1>6, <2>1 DEF Comes
  <2>. QED  BY <1>1, <1>4, <1>5, <1>8, <2>2
<1>9. CASE m \notin I
  <2>. DEFINE v == Append(w, s[m])
              g == [i \in 1..(Len(w) + 1) |-> IF i <= Len(w) THEN f[i] ELSE m]
  <2>1. /\ v \in Seq(S) /\ Len(v) = Len(w) + 1 /\ v[Len(w) + 1] = s[m]
        /\ \A i \in 1..Len(w) : v[i] = w[i]
    BY <1>5, <1>7
  <2>. HIDE DEF v
  <2>2. (1..m) \ I = ((1..(m - 1)) \ I) \cup {m} /\ m \notin (1..(m - 1)) \ I
    BY <1>3, <1>9
  <2>3. \A i \in 1..(Len(w) + 1) : i \in 1..Len(w) \/ i = Len(w) + 1
    BY <1>7
  <2>4. /\ \A i \in 1..Len(w) : g[i] = f[i] /\ f[i] \in (1..(m - 1)) \ I
        /\ g[Len(w) + 1] = m
    BY <1>6, <1>7 DEF Comes
  <2>5. g \in [1..(Len(w) + 1) -> (1..m) \ I]
    <3>1. \A i \in 1..(Len(w) + 1) : g[i] \in (1..m) \ I
      BY <2>2, <2>3, <2>4
    <3>. QED  BY <3>1
  <2>. HIDE DEF g
  <2>6. ASSUME NEW i \in 1..(Len(w) + 1), NEW j \in 1..(Len(w) + 1), g[i] = g[j] PROVE i = j
    <3>1. \A a, b \in 1..Len(w) : f[a] = f[b] => a = b
      BY <1>6 DEF Comes
    <3>. QED  BY <2>2, <2>3, <2>4, <2>6, <3>1
  <2>7. ASSUME NEW p \in (1..m) \ I PROVE \E i \in 1..(Len(w) + 1) : g[i] = p
    <3>1. CASE p = m
      BY <1>7, <2>4, <3>1
    <3>2. CASE p \in (1..(m - 1)) \ I
      <4>1. PICK i \in 1..Len(w) : f[i] = p
        BY <1>6, <3>2 DEF Comes
      <4>2. i \in 1..(Len(w) + 1) /\ g[i] = p
        BY <1>7, <2>4, <4>1
      <4>. QED  BY <4>2
    <3>. QED  BY <2>2, <3>1, <3>2
  <2>8. ASSUME NEW i \in 1..(Len(w) + 1) PROVE v[i] = s[g[i]]
    <3>1. \A a \in 1..Len(w) : w[a] = s[f[a]]
      BY <1>6 DEF Comes
    <3>. QED  BY <2>1, <2>3, <2>4, <3>1
  <2>9. Comes(v, s, I, m, g)
    BY <2>1, <2>5, <2>6, <2>7, <2>8 DEF Comes
  <2>10. v = left[m]
    BY <1>4, <1>5, <1>9 DEF v
  <2>. QED  BY <1>1, <2>1, <2>9, <2>10
<1>. QED  BY <1>8, <1>9

LEMMA RemovedFacts ==
  ASSUME NEW S, NEW s \in Seq(S), NEW I
  PROVE  Removed(s, I) \in Seq(S) /\ \E f : Comes(Removed(s, I), s, I, Len(s), f)
<1>. DEFINE left == CHOOSE k : IsLeft(k, s, I, Len(s))
<1>1. Len(s) \in Nat /\ Len(s) \in 0..Len(s)
  OBVIOUS
<1>2. IsLeft(left, s, I, Len(s))
  BY <1>1, LeftExists
<1>3. Removed(s, I) = left[Len(s)]
  BY DEF Removed, IsLeft
<1>. HIDE DEF left
<1>. QED  BY <1>1, <1>2, <1>3, LeftComes

\* The places of the elements ts.
PlacesOf(s, ts) == {i \in DOMAIN s : s[i] \in ts}

\* The elements ts leave a list.
LEMMA TakenFacts ==
  ASSUME NEW S, NEW s \in Seq(S), NEW ts
  PROVE  /\ Removed(s, PlacesOf(s, ts)) \in Seq(S)
         /\ ToSet(Removed(s, PlacesOf(s, ts))) = ToSet(s) \ ts
         /\ IsInjective(s) => IsInjective(Removed(s, PlacesOf(s, ts)))
<1>. DEFINE I == PlacesOf(s, ts)
            w == Removed(s, PlacesOf(s, ts))
<1>0. Len(s) \in Nat /\ DOMAIN s = 1..Len(s)
  OBVIOUS
<1>1. w = Removed(s, I) /\ I = {i \in DOMAIN s : s[i] \in ts}
  BY DEF PlacesOf
<1>. HIDE DEF w, I
<1>2. w \in Seq(S) /\ \E f : Comes(w, s, I, Len(s), f)
  BY <1>1, RemovedFacts
<1>3. PICK f : Comes(w, s, I, Len(s), f)
  BY <1>2
<1>4. DOMAIN w = 1..Len(w)
  BY <1>2
<1>5. ToSet(w) = ToSet(s) \ ts
  <2>1. ASSUME NEW x \in ToSet(w) PROVE x \in ToSet(s) \ ts
    <3>1. PICK i \in 1..Len(w) : x = w[i]
      BY <1>4, <2>1 DEF ToSet
    <3>2. f[i] \in (1..Len(s)) \ I /\ x = s[f[i]]
      BY <1>3, <3>1 DEF Comes
    <3>. QED  BY <1>0, <1>1, <3>2 DEF ToSet
  <2>2. ASSUME NEW x \in ToSet(s) \ ts PROVE x \in ToSet(w)
    <3>1. PICK p \in 1..Len(s) : x = s[p]
      BY <1>0, <2>2 DEF ToSet
    <3>2. p \in (1..Len(s)) \ I
      BY <1>1, <1>0, <2>2, <3>1
    <3>3. PICK i \in 1..Len(w) : f[i] = p
      BY <1>3, <3>2 DEF Comes
    <3>4. w[i] = x
      BY <1>3, <3>1, <3>3 DEF Comes
    <3>. QED  BY <1>4, <3>4 DEF ToSet
  <2>. QED  BY <2>1, <2>2
<1>6. ASSUME IsInjective(s) PROVE IsInjective(w)
  <2>. SUFFICES ASSUME NEW i \in 1..Len(w), NEW j \in 1..Len(w), w[i] = w[j] PROVE i = j
    BY <1>4 DEF IsInjective
  <2>1. /\ f[i] \in 1..Len(s) /\ f[j] \in 1..Len(s)
        /\ w[i] = s[f[i]] /\ w[j] = s[f[j]] /\ (f[i] = f[j] => i = j)
    BY <1>3 DEF Comes
  <2>2. f[i] = f[j]
    BY <1>0, <1>6, <2>1 DEF IsInjective
  <2>. QED  BY <2>1, <2>2
<1>. QED  BY <1>2, <1>5, <1>6 DEF w

-----------------------------------------------------------------------------
(* Chains: from w a chain goes on to next[w] while w is in On, to ever lower *)
(* ranks.                                                                    *)

Chained(S, rank, On, next) ==
  \A w \in S : rank[w] \in Nat /\ (w \in On => next[w] \in S /\ rank[next[w]] < rank[w])

(* Computing along a chain: F makes the value at w of the one at next[w].    *)

Stepped(h, w, On, next, F, stop) ==
  h[w] = IF w \in On THEN F[<<h[next[w]], w>>] ELSE stop[w]

Computes(h, S, On, next, F, stop) == \A w \in S : Stepped(h, w, On, next, F, stop)

\* What is computed along a chain is determined.
LEMMA StepsUnique ==
  ASSUME NEW S, NEW rank, NEW On, NEW next, NEW F, NEW stop, NEW f, NEW g,
         Chained(S, rank, On, next),
         Computes(f, S, On, next, F, stop), Computes(g, S, On, next, F, stop)
  PROVE  \A w \in S : f[w] = g[w]
<1>. DEFINE T == {rank[w] : w \in {v \in S : f[v] # g[v]}}
<1>. SUFFICES ASSUME T # {}  PROVE FALSE
  OBVIOUS
<1>1. T \subseteq Nat
  BY DEF Chained
<1>2. PICK n \in T : \A m \in T : n <= m
  <2>. HIDE DEF T
  <2>. QED  BY <1>1, SmallestIn
<1>3. PICK w \in S : rank[w] = n /\ f[w] # g[w]
  OBVIOUS
<1>4. w \in On /\ f[next[w]] # g[next[w]]
  BY <1>3 DEF Computes, Stepped
<1>5. next[w] \in S /\ rank[next[w]] < rank[w]
  BY <1>4 DEF Chained
<1>6. rank[next[w]] \in T
  BY <1>4, <1>5
<1>7. n <= rank[next[w]]
  BY <1>2, <1>6
<1>8. n \in Nat /\ rank[next[w]] \in Nat
  BY <1>3, <1>5 DEF Chained
<1>. HIDE DEF T
<1>. QED  BY <1>3, <1>5, <1>7, <1>8

\* Something can be computed along every chain.
LEMMA StepsExist ==
  ASSUME NEW S, NEW V, NEW rank \in [S -> Nat], NEW On, NEW next, NEW stop \in [S -> V],
         NEW F \in [V \X S -> V],
         Chained(S, rank, On, next)
  PROVE  \E f \in [S -> V] : Computes(f, S, On, next, F, stop)
<1>. DEFINE Upto(h, n) ==
              h \in [S -> V] /\ \A w \in S : rank[w] < n => Stepped(h, w, On, next, F, stop)
            T == {n \in Nat : ~ \E h : Upto(h, n)}
            H(n) == CHOOSE h : Upto(h, n)
            f == [w \in S |-> H(rank[w] + 1)[w]]
<1>1. T = {}
  <2>. SUFFICES ASSUME T # {}  PROVE FALSE
    OBVIOUS
  <2>0. T \subseteq Nat
    OBVIOUS
  <2>1. PICK n \in T : \A m \in T : n <= m
    <3>. HIDE DEF T
    <3>. QED  BY <2>0, SmallestIn
  <2>2. n \in Nat
    BY <2>0
  <2>3. CASE n = 0
    <3>1. Upto(stop, n)
      BY <2>3
    <3>. QED  BY <3>1
  <2>4. CASE n # 0
    <3>. DEFINE m == n - 1
    <3>1. m \in Nat /\ m < n /\ ~(n <= m)
      BY <2>2, <2>4
    <3>2. PICK h : Upto(h, m)
      BY <3>1, <2>1
    <3>. DEFINE k == [w \in S |-> IF rank[w] < m THEN h[w]
                                  ELSE IF w \in On THEN F[<<h[next[w]], w>>] ELSE stop[w]]
    <3>3. k \in [S -> V]
      <4>1. ASSUME NEW w \in S  PROVE k[w] \in V
        BY <3>2 DEF Chained
      <4>. QED  BY <4>1
    <3>4. ASSUME NEW w \in S, rank[w] < n  PROVE Stepped(k, w, On, next, F, stop)
      <4>1. rank[w] \in Nat /\ (rank[w] < m \/ rank[w] = m)
        BY <3>1, <3>4, <2>2
      <4>2. CASE w \in On
        <5>1. next[w] \in S /\ rank[next[w]] \in Nat /\ rank[next[w]] < rank[w]
          BY <4>2 DEF Chained
        <5>2. rank[next[w]] < m
          BY <5>1, <4>1, <3>1
        <5>3. k[next[w]] = h[next[w]]
          BY <5>1, <5>2
        <5>4. k[w] = F[<<h[next[w]], w>>]
          BY <4>1, <4>2, <3>2 DEF Stepped
        <5>. QED  BY <5>3, <5>4, <4>2 DEF Stepped
      <4>3. CASE w \notin On
        BY <4>1, <4>3, <3>2 DEF Stepped
      <4>. QED  BY <4>2, <4>3
    <3>5. Upto(k, n)
      BY <3>3, <3>4
    <3>. QED  BY <3>5
  <2>. QED  BY <2>3, <2>4
<1>2. ASSUME NEW n \in Nat  PROVE Upto(H(n), n)
  <2>1. \E h : Upto(h, n)
    BY <1>1
  <2>. HIDE DEF Upto
  <2>. QED  BY <2>1
<1>. HIDE DEF H, T
<1>3. f \in [S -> V]
  <2>1. ASSUME NEW w \in S  PROVE f[w] \in V
    <3>1. Upto(H(rank[w] + 1), rank[w] + 1)
      BY <1>2
    <3>. QED  BY <3>1
  <2>. QED  BY <2>1
<1>4. ASSUME NEW w \in S  PROVE Stepped(f, w, On, next, F, stop)
  <2>. DEFINE h == H(rank[w] + 1)
  <2>1. Upto(h, rank[w] + 1)
    BY <1>2
  <2>2. Stepped(h, w, On, next, F, stop) /\ f[w] = h[w]
    BY <2>1
  <2>3. CASE w \notin On
    BY <2>2, <2>3 DEF Stepped
  <2>4. CASE w \in On
    <3>. DEFINE v == next[w]
                g == H(rank[v] + 1)
                Z == {z \in S : rank[z] < rank[v] + 1}
    <3>1. v \in S /\ rank[v] \in Nat /\ rank[v] < rank[w]
      BY <2>4 DEF Chained
    <3>2. Upto(g, rank[v] + 1) /\ f[v] = g[v]
      BY <3>1, <1>2
    <3>4. Chained(Z, rank, On, next)
      <4>1. ASSUME NEW z \in Z, z \in On  PROVE next[z] \in Z /\ rank[next[z]] < rank[z]
        <5>1. z \in S /\ rank[z] < rank[v] + 1 /\ next[z] \in S /\ rank[next[z]] < rank[z]
          BY <4>1 DEF Chained
        <5>2. rank[next[z]] \in Nat /\ rank[z] \in Nat
          BY <5>1
        <5>3. rank[next[z]] < rank[v] + 1
          BY <5>1, <5>2, <3>1
        <5>. QED  BY <5>1, <5>3
      <4>2. \A z \in Z : rank[z] \in Nat
        OBVIOUS
      <4>. HIDE DEF Z
      <4>. QED  BY <4>1, <4>2 DEF Chained
    <3>5. Computes(g, Z, On, next, F, stop) /\ Computes(h, Z, On, next, F, stop)
      <4>1. ASSUME NEW z \in Z
            PROVE  Stepped(g, z, On, next, F, stop) /\ Stepped(h, z, On, next, F, stop)
        <5>1. z \in S /\ rank[z] \in Nat /\ rank[z] < rank[v] + 1 /\ rank[z] < rank[w] + 1
          BY <3>1
        <5>. QED  BY <5>1, <2>1, <3>2
      <4>. HIDE DEF Z, Upto, g, h
      <4>. QED  BY <4>1 DEF Computes
    <3>6. v \in Z
      BY <3>1
    <3>. HIDE DEF Z, g, h, Upto, v
    <3>7. \A z \in Z : g[z] = h[z]
      BY ONLY <3>4, <3>5, StepsUnique
    <3>8. g[v] = h[v]
      BY <3>6, <3>7
    <3>9. Stepped(h, w, On, next, F, stop) /\ f[w] = h[w] /\ f[v] = g[v] /\ w \in On /\ v = next[w]
      BY <2>2, <2>4, <3>2 DEF v, h
    <3>. HIDE DEF f
    <3>. QED  BY <3>8, <3>9 DEF Stepped
  <2>. QED  BY <2>3, <2>4
<1>. QED  BY <1>3, <1>4 DEF Computes
==============================================================================
