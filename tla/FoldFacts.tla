------------------------------- MODULE FoldFacts -------------------------------
(***************************************************************************)
(* Facts about maxima, orders and left folds that proofs about folds over  *)
(* deliveries, event times and log rows rest on.  A fold is stated with a  *)
(* function h of pairs: tlapm cannot instantiate an operator parameter.    *)
(***************************************************************************)
EXTENDS Integers, FiniteSets, SequencesExt, FiniteSetTheorems, FunctionTheorems, SequenceTheorems,
        WellFoundedInduction, TLAPS

LEMMA LeastNumber ==
  ASSUME NEW S \in SUBSET Nat, S # {}
  PROVE  \E m \in S : \A k \in S : m <= k
<1>1. IsWellFoundedOn(OpToRel(<, Nat), Nat)
  BY NatLessThanWellFounded
<1>2. PICK m \in S : \A k \in S : ~(<<k, m>> \in OpToRel(<, Nat))
  BY <1>1, WFMin
<1>3. \A k \in S : ~(k < m)
  BY <1>2 DEF OpToRel
<1> QED BY <1>3

\* A set of numbers that is not empty and has a bound has a maximum.
LEMMA BoundedMax ==
  ASSUME NEW n \in Nat, NEW S \in SUBSET (0..n), S # {}
  PROVE  Max(S) \in S /\ \A y \in S : y <= Max(S)
<1> DEFINE T == {n - y : y \in S}
<1>1. T \in SUBSET Nat /\ T # {}
  <2>1. \A y \in S : n - y \in Nat
    OBVIOUS
  <2>2. PICK y \in S : TRUE
    OBVIOUS
  <2> QED BY <2>1, <2>2
<1>2. PICK m \in T : \A k \in T : m <= k
  <2> HIDE DEF T
  <2> QED BY <1>1, LeastNumber
<1>3. PICK x \in S : m = n - x
  BY <1>2
<1>4. \A y \in S : x >= y
  <2>1. SUFFICES ASSUME NEW y \in S PROVE x >= y
    OBVIOUS
  <2>2. n - y \in T /\ x \in 0..n /\ y \in 0..n
    OBVIOUS
  <2>3. m <= n - y
    BY <1>2, <2>2
  <2> QED BY <1>3, <2>2, <2>3
<1>5. \E z \in S : \A y \in S : z >= y
  BY <1>4
<1>6. Max(S) \in S /\ \A y \in S : Max(S) >= y
  BY <1>5, Zenon DEF Max
<1> QED BY <1>6

-----------------------------------------------------------------------------
(* Finite sets and orders. *)

\* What is made of each element of a finite set is finite.
LEMMA ImageFinite ==
  ASSUME NEW S, IsFiniteSet(S), NEW f, DOMAIN f = S
  PROVE  IsFiniteSet({f[x] : x \in S})
<1> DEFINE T == {f[x] : x \in S}
           g == [x \in S |-> f[x]]
<1>1. g \in Surjection(S, T)
  BY DEF Surjection
<1> QED
  BY <1>1, FS_Surjection

\* R orders S: of two elements, one is before the other.
Orders(R, S) ==
  /\ \A x \in S : <<x, x>> \notin R
  /\ \A x, y \in S : x # y => <<x, y>> \in R \/ <<y, x>> \in R
  /\ \A x, y, z \in S : <<x, y>> \in R /\ <<y, z>> \in R => <<x, z>> \in R

IsLast(m, T, R) == m \in T /\ \A x \in T : x # m => <<x, m>> \in R

LEMMA LastElement ==
  ASSUME NEW S, IsFiniteSet(S), S # {}, NEW R, Orders(R, S)
  PROVE  \E m \in S : IsLast(m, S, R)
<1> DEFINE bad == {n \in Nat : \E T \in SUBSET S : /\ Cardinality(T) = n /\ T # {}
                                                   /\ ~ \E m \in T : IsLast(m, T, R)}
<1>1. SUFFICES ASSUME bad # {} PROVE FALSE
  <2>1. Cardinality(S) \in Nat
    BY FS_CardinalityType
  <2>2. Cardinality(S) \notin bad
    BY <1>1
  <2> QED BY <2>1, <2>2
<1>2. PICK n \in bad : \A k \in bad : n <= k
  <2>1. bad \in SUBSET Nat
    OBVIOUS
  <2> HIDE DEF bad
  <2> QED BY <1>1, <2>1, LeastNumber
<1>3. PICK T \in SUBSET S : Cardinality(T) = n /\ T # {} /\ ~ \E m \in T : IsLast(m, T, R)
  BY <1>2
<1>4. PICK x \in T : TRUE
  BY <1>3
<1>5. PICK rest : rest = T \ {x}
  OBVIOUS
<1>6. IsFiniteSet(T) /\ IsFiniteSet(rest) /\ Cardinality(rest) = n - 1 /\ rest \in SUBSET S
      /\ n - 1 \in Nat
  <2>1. IsFiniteSet(T)
    BY FS_Subset
  <2>2. IsFiniteSet(rest) /\ Cardinality(rest) = n - 1
    BY <1>3, <1>4, <1>5, <2>1, FS_RemoveElement
  <2>3. Cardinality(rest) \in Nat
    BY <2>2, FS_CardinalityType
  <2> QED BY <1>5, <2>1, <2>2, <2>3
<1>7. rest # {}
  <2>1. SUFFICES ASSUME rest = {} PROVE FALSE
    OBVIOUS
  <2>2. IsLast(x, T, R)
    BY <1>4, <1>5, <2>1 DEF IsLast
  <2> QED BY <1>3, <1>4, <2>2
<1>8. n - 1 \notin bad
  <2>1. n \in Nat
    BY <1>2
  <2> QED BY <1>2, <2>1
<1>9. PICK m \in rest : IsLast(m, rest, R)
  BY <1>6, <1>7, <1>8
<1>10. m # x /\ m \in T /\ m \in S /\ x \in S
  BY <1>5
<1>11. CASE <<x, m>> \in R
  <2>1. IsLast(m, T, R)
    BY <1>5, <1>9, <1>10, <1>11 DEF IsLast
  <2> QED BY <1>3, <1>10, <2>1
<1>12. CASE <<m, x>> \in R
  <2>1. ASSUME NEW y \in T, y # x PROVE <<y, x>> \in R
    <3>1. y = m \/ <<y, m>> \in R
      BY <1>5, <1>9, <2>1 DEF IsLast
    <3> QED BY <1>10, <1>12, <3>1 DEF Orders
  <2>2. IsLast(x, T, R)
    BY <2>1 DEF IsLast
  <2> QED BY <1>3, <1>4, <2>2
<1> QED BY <1>10, <1>11, <1>12 DEF Orders

\* The elements of a finite set can be put in order.
InOrderOf(s, S, R) ==
  /\ s \in [1..Cardinality(S) -> S] /\ {s[i] : i \in DOMAIN s} = S
  /\ \A i, j \in DOMAIN s : i < j => <<s[i], s[j]>> \in R

LEMMA OrderedElements ==
  ASSUME NEW S, IsFiniteSet(S), NEW R, Orders(R, S)
  PROVE  \E s : InOrderOf(s, S, R)
<1> DEFINE bad == {n \in Nat : \E T \in SUBSET S : Cardinality(T) = n /\ ~ \E s : InOrderOf(s, T, R)}
<1>1. SUFFICES ASSUME bad # {} PROVE FALSE
  <2>1. Cardinality(S) \in Nat
    BY FS_CardinalityType
  <2>2. Cardinality(S) \notin bad
    BY <1>1
  <2> QED BY <2>1, <2>2
<1>2. PICK n \in bad : \A k \in bad : n <= k
  <2>1. bad \in SUBSET Nat
    OBVIOUS
  <2> HIDE DEF bad
  <2> QED BY <1>1, <2>1, LeastNumber
<1>3. PICK T \in SUBSET S : Cardinality(T) = n /\ ~ \E s : InOrderOf(s, T, R)
  BY <1>2
<1>4. n \in Nat /\ IsFiniteSet(T)
  BY <1>2, FS_Subset
<1>5. T # {}
  <2>1. SUFFICES ASSUME T = {} PROVE FALSE
    OBVIOUS
  <2>2. Cardinality(T) = 0 /\ 1..0 = {}
    BY <2>1, FS_EmptySet
  <2> DEFINE s == [i \in 1..0 |-> i]
  <2>3. s \in [1..0 -> T] /\ {s[i] : i \in DOMAIN s} = T /\ DOMAIN s = {}
    BY <2>1, <2>2
  <2>4. InOrderOf(s, T, R)
    BY <2>2, <2>3 DEF InOrderOf
  <2> QED BY <1>3, <2>4
<1>6. Orders(R, T)
  <2>1. \A x \in T : x \in S
    OBVIOUS
  <2> QED BY <2>1 DEF Orders
<1>7. PICK m \in T : IsLast(m, T, R)
  BY <1>4, <1>5, <1>6, LastElement
<1>8. PICK rest : rest = T \ {m}
  OBVIOUS
<1>9. Cardinality(rest) = n - 1 /\ n - 1 \in Nat /\ rest \in SUBSET S
  <2>1. IsFiniteSet(rest) /\ Cardinality(rest) = n - 1
    BY <1>3, <1>4, <1>8, FS_RemoveElement
  <2>2. Cardinality(rest) \in Nat
    BY <2>1, FS_CardinalityType
  <2> QED BY <1>8, <2>1, <2>2
<1>10. PICK s : InOrderOf(s, rest, R)
  <2>1. n - 1 \notin bad
    BY <1>2, <1>4
  <2> QED BY <1>9, <2>1
<1>11. s \in [1..(n - 1) -> rest] /\ DOMAIN s = 1..(n - 1) /\ {s[i] : i \in 1..(n - 1)} = rest
       /\ \A i, j \in 1..(n - 1) : i < j => <<s[i], s[j]>> \in R
  BY <1>9, <1>10 DEF InOrderOf
<1> DEFINE q == [i \in 1..n |-> IF i = n THEN m ELSE s[i]]
<1>12. n >= 1 /\ n \in 1..n /\ \A i \in 1..n : i = n \/ i \in 1..(n - 1)
  BY <1>4, <1>9
<1>13. q \in [1..n -> T] /\ DOMAIN q = 1..n
  BY <1>8, <1>11, <1>12
<1>14. \A i \in 1..(n - 1) : i \in 1..n /\ i # n
  BY <1>12
<1>15. {q[i] : i \in 1..n} = T
  <2>1. \A x \in T : \E i \in 1..n : q[i] = x
    <3>1. SUFFICES ASSUME NEW x \in T PROVE \E i \in 1..n : q[i] = x
      OBVIOUS
    <3>2. CASE x = m
      BY <1>12, <3>2
    <3>3. CASE x # m
      <4>1. PICK i \in 1..(n - 1) : s[i] = x
        BY <1>8, <1>11, <3>3
      <4> QED BY <1>14, <4>1
    <3> QED BY <3>2, <3>3
  <2> QED BY <1>13, <2>1
<1>16. ASSUME NEW i \in 1..n, NEW j \in 1..n, i < j PROVE <<q[i], q[j]>> \in R
  <2>1. i \in 1..(n - 1) /\ i # n
    BY <1>4, <1>16
  <2>2. s[i] \in rest /\ q[i] = s[i]
    BY <1>11, <2>1
  <2>3. CASE j = n
    BY <1>7, <1>8, <2>2, <2>3 DEF IsLast
  <2>4. CASE j # n
    BY <1>11, <1>12, <1>16, <2>1, <2>2, <2>4
  <2> QED BY <2>3, <2>4
<1> HIDE DEF q
<1>17. InOrderOf(q, T, R)
  BY <1>3, <1>13, <1>15, <1>16 DEF InOrderOf
<1> QED BY <1>3, <1>17

\* The greatest and the least of a finite set of numbers.
LEMMA FiniteMax ==
  ASSUME NEW S \in SUBSET Int, IsFiniteSet(S), S # {}
  PROVE  Max(S) \in S /\ \A y \in S : y <= Max(S)
<1> DEFINE R == {p \in Int \X Int : p[1] < p[2]}
<1>1. \A x, y \in Int : <<x, y>> \in R <=> x < y
  OBVIOUS
<1> HIDE DEF R
<1>2. Orders(R, S)
  BY <1>1 DEF Orders
<1>3. PICK m \in S : IsLast(m, S, R)
  BY <1>2, LastElement
<1>4. \A y \in S : m >= y
  <2>1. SUFFICES ASSUME NEW y \in S, y # m PROVE m >= y
    OBVIOUS
  <2>2. <<y, m>> \in R
    BY <1>3, <2>1 DEF IsLast
  <2> QED BY <1>1, <2>2
<1>5. \E z \in S : \A y \in S : z >= y
  BY <1>4
<1>6. Max(S) \in S /\ \A y \in S : Max(S) >= y
  BY <1>5, Zenon DEF Max
<1> QED BY <1>6

LEMMA FiniteMin ==
  ASSUME NEW S \in SUBSET Int, IsFiniteSet(S), S # {}
  PROVE  Min(S) \in S /\ \A y \in S : Min(S) <= y
<1> DEFINE R == {p \in Int \X Int : p[2] < p[1]}
<1>1. \A x, y \in Int : <<x, y>> \in R <=> y < x
  OBVIOUS
<1> HIDE DEF R
<1>2. Orders(R, S)
  BY <1>1 DEF Orders
<1>3. PICK m \in S : IsLast(m, S, R)
  BY <1>2, LastElement
<1>4. \A y \in S : m <= y
  <2>1. SUFFICES ASSUME NEW y \in S, y # m PROVE m <= y
    OBVIOUS
  <2>2. <<y, m>> \in R
    BY <1>3, <2>1 DEF IsLast
  <2> QED BY <1>1, <2>2
<1>5. \E z \in S : \A y \in S : z <= y
  BY <1>4
<1>6. Min(S) \in S /\ \A y \in S : Min(S) <= y
  BY <1>5, Zenon DEF Min
<1> QED BY <1>6

-----------------------------------------------------------------------------
(* Folds. *)

\* c[k] is what the first k elements of s fold to.
Chain(h, base, s, c) ==
  /\ DOMAIN c = 0..Len(s) /\ c[0] = base
  /\ \A k \in 1..Len(s) : c[k] = h[<<c[k - 1], s[k]>>]

\* The values by which MapThenFoldSet reaches the fold of s.
Values(h, base, s, g) ==
  g = [t \in SUBSET (DOMAIN s) |-> IF t = {} THEN base ELSE h[<<g[t \ {Max(t)}], s[Max(t)]>>]]

LEMMA ChainExists ==
  ASSUME NEW A, NEW B, NEW h \in [A \X B -> A], NEW base \in A, NEW s \in Seq(B)
  PROVE  \E c \in [0..Len(s) -> A] : Chain(h, base, s, c)
<1> DEFINE upTo(k, c) == c[0] = base /\ \A i \in 1..k : c[i] = h[<<c[i - 1], s[i]>>]
           bad == {k \in 0..Len(s) : ~ \E c \in [0..k -> A] : upTo(k, c)}
<1>1. SUFFICES ASSUME bad # {} PROVE FALSE
  <2>1. Len(s) \in 0..Len(s)
    OBVIOUS
  <2> QED BY <2>1, Zenon DEF Chain
<1>2. PICK k \in bad : \A i \in bad : k <= i
  <2>1. bad \in SUBSET Nat
    OBVIOUS
  <2> HIDE DEF bad
  <2> QED BY <1>1, <2>1, LeastNumber
<1>3. k # 0
  <2>1. [i \in 0..0 |-> base] \in [0..0 -> A] /\ upTo(0, [i \in 0..0 |-> base])
    OBVIOUS
  <2> QED BY <1>2, <2>1
<1>4. k \in 1..Len(s) /\ k - 1 \in 0..Len(s) /\ k - 1 \notin bad
  <2>1. k \in 1..Len(s) /\ k - 1 \in 0..Len(s) /\ ~(k <= k - 1)
    BY <1>2, <1>3
  <2> QED BY <1>2, <2>1
<1>5. PICK c \in [0..(k - 1) -> A] : upTo(k - 1, c)
  BY <1>4
<1> DEFINE d == [i \in 0..k |-> IF i = k THEN h[<<c[k - 1], s[k]>>] ELSE c[i]]
<1>6. s[k] \in B /\ k - 1 \in 0..(k - 1)
  BY <1>4
<1>7. c[k - 1] \in A
  BY <1>5, <1>6
<1>8. h[<<c[k - 1], s[k]>>] \in A
  BY <1>6, <1>7
<1>9. d \in [0..k -> A]
  <2>1. \A i \in 0..k : i = k \/ i \in 0..(k - 1)
    BY <1>4
  <2> QED BY <1>5, <1>8, <2>1
<1>10. upTo(k, d)
  <2>1. d[0] = base
    BY <1>4, <1>5
  <2>2. ASSUME NEW i \in 1..k PROVE d[i] = h[<<d[i - 1], s[i]>>]
    <3>1. i - 1 \in 0..k /\ i - 1 # k /\ i \in 0..k
      BY <1>4
    <3>2. d[i - 1] = c[i - 1]
      BY <3>1
    <3>3. CASE i = k
      BY <3>1, <3>2, <3>3
    <3>4. CASE i # k
      <4>1. i \in 1..(k - 1)
        BY <1>4, <3>4
      <4> QED BY <1>5, <3>1, <3>2, <3>4, <4>1
    <3> QED BY <3>3, <3>4
  <2> QED BY <2>1, <2>2
<1> HIDE DEF d
<1> QED BY <1>2, <1>9, <1>10

\* What a sequence folds to is fixed by its beginnings.
LEMMA ChainsAgree ==
  ASSUME NEW h, NEW base, NEW s, NEW r, NEW c, NEW d, NEW n \in Nat,
         n \in 0..Len(s), n \in 0..Len(r), \A k \in 1..n : s[k] = r[k],
         Chain(h, base, s, c), Chain(h, base, r, d), Len(s) \in Nat, Len(r) \in Nat
  PROVE  c[n] = d[n]
<1> DEFINE bad == {k \in 0..n : c[k] # d[k]}
<1>1. SUFFICES ASSUME bad # {} PROVE FALSE
  OBVIOUS
<1>2. PICK k \in bad : \A i \in bad : k <= i
  <2>1. bad \in SUBSET Nat
    OBVIOUS
  <2> HIDE DEF bad
  <2> QED BY <1>1, <2>1, LeastNumber
<1>3. k # 0
  BY <1>2 DEF Chain
<1>4. k \in 1..n /\ k - 1 \in 0..n /\ ~(k <= k - 1) /\ k \in 1..Len(s) /\ k \in 1..Len(r)
  BY <1>2, <1>3
<1>5. c[k - 1] = d[k - 1]
  BY <1>2, <1>4
<1>6. c[k] = h[<<c[k - 1], s[k]>>] /\ d[k] = h[<<d[k - 1], r[k]>>]
  BY <1>4 DEF Chain
<1> QED BY <1>2, <1>4, <1>5, <1>6

\* F gives what each sequence folds to.
IsFold(A, B, h, base, F) ==
  /\ F \in [Seq(B) -> A]
  /\ F[<<>>] = base
  /\ \A s \in Seq(B), x \in B : F[Append(s, x)] = h[<<F[s], x>>]

EndsChains(B, h, base, F) ==
  \A s \in Seq(B) : \A c : Chain(h, base, s, c) => F[s] = c[Len(s)]

\* A fold is a function of the sequence that each further element extends.
LEMMA SequenceFold ==
  ASSUME NEW A, NEW B, NEW h \in [A \X B -> A], NEW base \in A
  PROVE  \E F : IsFold(A, B, h, base, F) /\ EndsChains(B, h, base, F)
<1> DEFINE F == [s \in Seq(B) |-> (CHOOSE c : c \in [0..Len(s) -> A] /\ Chain(h, base, s, c))[Len(s)]]
<1>1. ASSUME NEW s \in Seq(B)
      PROVE  \E c \in [0..Len(s) -> A] : Chain(h, base, s, c) /\ F[s] = c[Len(s)]
  <2>1. PICK c : c = CHOOSE e : e \in [0..Len(s) -> A] /\ Chain(h, base, s, e)
    OBVIOUS
  <2>2. \E e : e \in [0..Len(s) -> A] /\ Chain(h, base, s, e)
    BY ChainExists, Zenon
  <2>3. c \in [0..Len(s) -> A] /\ Chain(h, base, s, c)
    BY <2>1, <2>2, Zenon
  <2> QED BY <2>1, <2>3, Zenon
<1>2. F \in [Seq(B) -> A]
  <2>1. ASSUME NEW s \in Seq(B) PROVE F[s] \in A
    <3>1. Len(s) \in 0..Len(s)
      OBVIOUS
    <3> QED BY <1>1, <3>1
  <2> QED BY <2>1
<1> HIDE DEF F
<1>3. ASSUME NEW s \in Seq(B), NEW c, Chain(h, base, s, c) PROVE F[s] = c[Len(s)]
  <2>1. PICK d \in [0..Len(s) -> A] : Chain(h, base, s, d) /\ F[s] = d[Len(s)]
    BY <1>1
  <2>2. Len(s) \in Nat /\ Len(s) \in 0..Len(s)
    OBVIOUS
  <2> QED BY <1>3, <2>1, <2>2, ChainsAgree
<1>4. F[<<>>] = base
  <2>1. <<>> \in Seq(B) /\ Len(<<>>) = 0
    OBVIOUS
  <2> QED BY <1>1, <2>1, Zenon DEF Chain
<1>5. ASSUME NEW s \in Seq(B), NEW x \in B PROVE F[Append(s, x)] = h[<<F[s], x>>]
  <2>1. PICK r : r = Append(s, x)
    OBVIOUS
  <2>2. /\ r \in Seq(B) /\ Len(r) = Len(s) + 1 /\ Len(s) \in Nat /\ r[Len(s) + 1] = x
        /\ \A k \in 1..Len(s) : r[k] = s[k]
    BY <2>1
  <2>3. PICK c \in [0..Len(s) -> A] : Chain(h, base, s, c) /\ F[s] = c[Len(s)]
    BY <1>1
  <2>4. PICK d \in [0..Len(r) -> A] : Chain(h, base, r, d) /\ F[r] = d[Len(r)]
    BY <1>1, <2>2
  <2>5. Len(s) \in 0..Len(s) /\ Len(s) \in 0..Len(r) /\ Len(r) \in Nat /\ Len(r) \in 1..Len(r)
        /\ Len(r) - 1 = Len(s)
    BY <2>2
  <2>6. d[Len(s)] = c[Len(s)]
    <3>1. PICK n : n = Len(s)
      OBVIOUS
    <3>2. n \in Nat /\ n \in 0..Len(s) /\ n \in 0..Len(r) /\ \A k \in 1..n : s[k] = r[k]
      BY <2>2, <2>5, <3>1
    <3>3. c[n] = d[n]
      BY <2>2, <2>3, <2>4, <2>5, <3>2, ChainsAgree
    <3> QED BY <3>1, <3>3
  <2>7. d[Len(r)] = h[<<d[Len(r) - 1], r[Len(r)]>>]
    BY <2>4, <2>5 DEF Chain
  <2> QED BY <2>1, <2>2, <2>3, <2>4, <2>5, <2>6, <2>7
<1> QED BY <1>2, <1>3, <1>4, <1>5 DEF IsFold, EndsChains

LEMMA DomainMax ==
  ASSUME NEW B, NEW s \in Seq(B), NEW t \in SUBSET (DOMAIN s), t # {}
  PROVE  Max(t) \in t /\ s[Max(t)] \in B /\ t \ {Max(t)} \in SUBSET (DOMAIN s)
         /\ \A y \in t : y <= Max(t)
<1>1. Len(s) \in Nat /\ t \in SUBSET (0..Len(s)) /\ DOMAIN s = 1..Len(s)
  OBVIOUS
<1>2. Max(t) \in t /\ \A y \in t : y <= Max(t)
  BY <1>1, BoundedMax
<1> QED BY <1>1, <1>2

\* The values a fold chooses exist.
LEMMA ValuesExist ==
  ASSUME NEW A, NEW B, NEW h \in [A \X B -> A], NEW base \in A, NEW s \in Seq(B)
  PROVE  \E g \in [SUBSET (DOMAIN s) -> A] : Values(h, base, s, g)
<1> DEFINE of(k, g) ==
      g = [t \in SUBSET (1..k) |-> IF t = {} THEN base ELSE h[<<g[t \ {Max(t)}], s[Max(t)]>>]]
           bad == {k \in 0..Len(s) : ~ \E g \in [SUBSET (1..k) -> A] : of(k, g)}
<1>0. DOMAIN s = 1..Len(s) /\ Len(s) \in Nat /\ Len(s) \in 0..Len(s)
  OBVIOUS
<1>1. SUFFICES ASSUME bad # {} PROVE FALSE
  <2>1. Len(s) \notin bad
    BY <1>1
  <2>2. \E g \in [SUBSET (1..Len(s)) -> A] : of(Len(s), g)
    BY <1>0, <2>1
  <2> QED BY <1>0, <2>2, Zenon DEF Values
<1>2. PICK k \in bad : \A i \in bad : k <= i
  <2>1. bad \in SUBSET Nat
    OBVIOUS
  <2> HIDE DEF bad
  <2> QED BY <1>1, <2>1, LeastNumber
<1>3. k # 0
  <2>1. SUBSET (1..0) = {{}}
    OBVIOUS
  <2> DEFINE g == [t \in SUBSET (1..0) |-> base]
  <2>2. g \in [SUBSET (1..0) -> A]
    OBVIOUS
  <2>3. of(0, g)
    BY <2>1
  <2> HIDE DEF g, of
  <2> QED BY <1>2, <2>2, <2>3
<1>4. k \in 1..Len(s) /\ k - 1 \in 0..Len(s) /\ k - 1 \notin bad
  <2>1. k \in 1..Len(s) /\ k - 1 \in 0..Len(s) /\ ~(k <= k - 1)
    BY <1>2, <1>3
  <2> QED BY <1>2, <2>1
<1>5. PICK g \in [SUBSET (1..(k - 1)) -> A] : of(k - 1, g)
  BY <1>4
<1> DEFINE e == [t \in SUBSET (1..k) |-> IF k \in t THEN h[<<g[t \ {k}], s[k]>>] ELSE g[t]]
<1>6. s[k] \in B
  BY <1>4
<1>7. \A t \in SUBSET (1..k) : t \ {k} \in SUBSET (1..(k - 1)) /\ (k \notin t => t \in SUBSET (1..(k - 1)))
  <2>1. \A i \in 1..k : i = k \/ i \in 1..(k - 1)
    BY <1>4
  <2> QED BY <2>1
<1>8. e \in [SUBSET (1..k) -> A]
  <2>1. ASSUME NEW t \in SUBSET (1..k) PROVE e[t] \in A
    <3>1. k \in t => g[t \ {k}] \in A
      BY <1>5, <1>7
    <3>2. k \notin t => g[t] \in A
      BY <1>5, <1>7
    <3> QED BY <1>6, <3>1, <3>2
  <2> QED BY <2>1
<1>9. ASSUME NEW t \in SUBSET (1..k), t # {}
      PROVE  e[t] = h[<<e[t \ {Max(t)}], s[Max(t)]>>]
  <2>1. Max(t) \in t /\ \A y \in t : y <= Max(t)
    <3>1. k \in Nat /\ t \in SUBSET (0..k)
      BY <1>4
    <3> QED BY <1>9, <3>1, BoundedMax
  <2>2. t \ {Max(t)} \in SUBSET (1..k)
    OBVIOUS
  <2>3. CASE k \in t
    <3>1. Max(t) = k
      <4>1. PICK m : m = Max(t)
        OBVIOUS
      <4>2. m \in 1..k /\ k <= m
        BY <2>1, <2>3, <4>1
      <4> QED BY <1>4, <4>1, <4>2
    <3>2. e[t \ {k}] = g[t \ {k}]
      BY <2>2, <3>1
    <3> QED BY <2>3, <3>1, <3>2
  <2>4. CASE k \notin t
    <3>1. k \notin t \ {Max(t)}
      BY <2>4
    <3>2. e[t \ {Max(t)}] = g[t \ {Max(t)}] /\ e[t] = g[t]
      BY <2>2, <2>4, <3>1
    <3>3. g[t] = h[<<g[t \ {Max(t)}], s[Max(t)]>>]
      <4>1. t \in SUBSET (1..(k - 1))
        BY <1>7, <2>4
      <4> QED BY <1>5, <1>9, <4>1
    <3> QED BY <3>2, <3>3
  <2> QED BY <2>3, <2>4
<1>10. e[{}] = base
  <2>1. {} \in SUBSET (1..k) /\ {} \in SUBSET (1..(k - 1)) /\ k \notin {}
    OBVIOUS
  <2>2. g[{}] = base
    BY <1>5, <2>1
  <2> QED BY <2>1, <2>2
<1>11. of(k, e)
  <2>1. DOMAIN e = SUBSET (1..k) /\ e = [t \in SUBSET (1..k) |-> e[t]]
    BY <1>8
  <2> HIDE DEF e
  <2> QED BY <1>9, <1>10, <2>1
<1> HIDE DEF e, of
<1> QED BY <1>2, <1>8, <1>11

\* f has the values of the fold of s as far as those before them are in A.
Reaches(A, h, base, s, f) ==
  /\ f[{}] = base
  /\ \A t \in SUBSET (DOMAIN s) :
       t # {} /\ f[t \ {Max(t)}] \in A => f[t] = h[<<f[t \ {Max(t)}], s[Max(t)]>>]

\* What s folds to is the last value of f.
Ends(h, base, s, f, c) == Chain(h, base, s, c) /\ f[DOMAIN s] = c[Len(s)]

\* Whatever values of the fold were chosen, they end with what s folds to.
LEMMA ValuesFold ==
  ASSUME NEW A, NEW B, NEW h \in [A \X B -> A], NEW base \in A, NEW s \in Seq(B), NEW g,
         Reaches(A, h, base, s, g)
  PROVE  \E c \in [0..Len(s) -> A] : Ends(h, base, s, g, c)
<1>1. PICK c \in [0..Len(s) -> A] : Chain(h, base, s, c)
  BY ChainExists
<1> DEFINE bad == {k \in 0..Len(s) : g[1..k] # c[k]}
<1>2. bad = {}
  <2>1. SUFFICES ASSUME bad # {} PROVE FALSE
    OBVIOUS
  <2>2. PICK k \in bad : \A i \in bad : k <= i
    <3>1. bad \in SUBSET Nat
      OBVIOUS
    <3> HIDE DEF bad
    <3> QED BY <2>1, <3>1, LeastNumber
  <2>3. k # 0
    <3>1. 1..0 = {}
      OBVIOUS
    <3> QED BY <1>1, <2>2, <3>1 DEF Chain, Reaches
  <2>4. k \in 1..Len(s) /\ k - 1 \in 0..Len(s) /\ ~(k <= k - 1)
    BY <2>2, <2>3
  <2>5. g[1..(k - 1)] = c[k - 1] /\ c[k - 1] \in A
    BY <1>1, <2>2, <2>4
  <2>6. 1..k \in SUBSET (DOMAIN s) /\ 1..k # {} /\ k \in 1..k
    <3>1. Len(s) \in Nat /\ DOMAIN s = 1..Len(s)
      OBVIOUS
    <3>2. k \in 1..Len(s) /\ k \in Nat
      BY <2>4, <3>1
    <3>3. \A i \in 1..k : i \in 1..Len(s)
      BY <3>1, <3>2
    <3>4. k \in 1..k
      BY <3>2
    <3> QED BY <3>1, <3>3, <3>4
  <2>7. Max(1..k) = k
    <3>1. Max(1..k) \in 1..k /\ k <= Max(1..k)
      BY <2>6, DomainMax
    <3>2. k \in 1..Len(s) /\ k \in Nat
      BY <2>4, <3>1
    <3>3. \A i \in 1..k : i \in 1..Len(s)
      BY <3>1, <3>2
    <3>4. k \in 1..k
      BY <3>2
    <3> QED BY <3>1, <3>3, <3>4
  <2>8. (1..k) \ {Max(1..k)} = 1..(k - 1)
    BY <2>4, <2>7
  <2>9. g[1..k] = h[<<g[1..(k - 1)], s[k]>>]
    BY <2>5, <2>6, <2>7, <2>8 DEF Reaches
  <2>10. c[k] = h[<<c[k - 1], s[k]>>]
    BY <1>1, <2>4 DEF Chain
  <2> QED BY <2>2, <2>5, <2>9, <2>10
<1>3. DOMAIN s = 1..Len(s) /\ Len(s) \in 0..Len(s)
  OBVIOUS
<1> QED BY <1>1, <1>2, <1>3 DEF Ends

HasValues(A, B, h, base) ==
  \A s \in Seq(B) : \E g \in [SUBSET (DOMAIN s) -> A] : Values(h, base, s, g)

EndsValues(A, B, h, base, F) ==
  \A s \in Seq(B) : \A f : Reaches(A, h, base, s, f) => f[DOMAIN s] = F[s]

\* All there is to know of a fold: F is its function, values of each fold can be
\* chosen, and any that are chosen end with what F says.
LEMMA FoldRuns ==
  ASSUME NEW A, NEW B, NEW h \in [A \X B -> A], NEW base \in A
  PROVE  HasValues(A, B, h, base) /\ \E F : IsFold(A, B, h, base, F) /\ EndsValues(A, B, h, base, F)
<1>1. PICK F : IsFold(A, B, h, base, F) /\ EndsChains(B, h, base, F)
  BY SequenceFold, Zenon
<1>2. \A s \in Seq(B) : \E g \in [SUBSET (DOMAIN s) -> A] : Values(h, base, s, g)
  BY ValuesExist
<1>3. ASSUME NEW s \in Seq(B), NEW f, Reaches(A, h, base, s, f) PROVE f[DOMAIN s] = F[s]
  <2>1. \E c \in [0..Len(s) -> A] : Ends(h, base, s, f, c)
    BY <1>3, ValuesFold
  <2> QED BY <1>1, <2>1 DEF EndsChains, Ends
<1> QED BY <1>1, <1>2, <1>3 DEF HasValues, EndsValues

\* A set of sequences that has the empty one, and with each sequence all that
\* are one element longer, has them all.
LEMMA AllSequences ==
  ASSUME NEW B, NEW S, <<>> \in S, \A s \in Seq(B), x \in B : s \in S => Append(s, x) \in S
  PROVE  Seq(B) \subseteq S
<1> DEFINE bad == {n \in Nat : \E s \in Seq(B) : Len(s) = n /\ s \notin S}
<1>1. SUFFICES ASSUME bad # {} PROVE FALSE
  BY LenProperties
<1>2. PICK n \in bad : \A i \in bad : n <= i
  <2>1. bad \in SUBSET Nat
    OBVIOUS
  <2> HIDE DEF bad
  <2> QED BY <1>1, <2>1, LeastNumber
<1>3. PICK s \in Seq(B) : Len(s) = n /\ s \notin S
  BY <1>2
<1>4. s # <<>>
  BY <1>3
<1>5. PICK r, x : r \in Seq(B) /\ x \in B /\ s = Append(r, x) /\ Len(r) = n - 1
  <2> DEFINE r == [i \in 1..(n - 1) |-> s[i]]
  <2>1. n \in Nat /\ n > 0
    BY <1>3, <1>4
  <2>2. r \in Seq(B) /\ Len(r) = n - 1 /\ s[n] \in B
    BY <1>3, <2>1
  <2>3. s = Append(r, s[n])
    BY <1>3, <2>1, <2>2
  <2> QED BY <2>2, <2>3
<1>6. n - 1 \in Nat /\ ~(n <= n - 1)
  <2>1. Len(r) \in Nat /\ n \in Nat
    BY <1>5, <1>3
  <2> QED BY <1>5, <2>1
<1>7. r \in S
  BY <1>2, <1>5, <1>6
<1> QED BY <1>3, <1>5, <1>7
=============================================================================
