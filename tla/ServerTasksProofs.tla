------------------------- MODULE ServerTasksProofs -------------------------
(***************************************************************************)
(* Theorems of ServerTasks, for any requests, any number of slots and      *)
(* children.                                                               *)
(***************************************************************************)
EXTENDS ServerTasks, FiniteSetTheorems, SequenceTheorems, WellFoundedInduction, TLAPS

-----------------------------------------------------------------------------
(* Naturals and sequences.                                                 *)

\* A non-empty set of naturals has a least element.
LEMMA LeastOf ==
    ASSUME NEW I \in SUBSET Nat, I # {}
    PROVE  \E n \in I : \A m \in I : n <= m
<1>. DEFINE R == {ss \in Nat \X Nat : ss[1] < ss[2]}
<1>1. IsWellFoundedOn(R, Nat)
  BY NatLessThanWellFounded DEF OpToRel
<1>2. PICK n \in I : \A m \in I : ~ (<<m, n>> \in R)
  BY <1>1, WFMin
<1>3. ASSUME NEW m \in I, m < n
      PROVE  <<m, n>> \in R
  <2>1. <<m, n>> \in Nat \X Nat /\ <<m, n>>[1] < <<m, n>>[2]
    BY <1>3
  <2>. QED
    BY <2>1, Zenon
<1>. HIDE DEF R
<1>4. \A m \in I : ~ (m < n)
  BY <1>2, <1>3, Zenon
<1>. QED
  BY <1>4

LEMMA MinInSet ==
    ASSUME NEW I \in SUBSET Nat, I # {}
    PROVE  Min(I) \in I /\ \A m \in I : Min(I) <= m
BY LeastOf DEF Min

\* Induction, for a set of naturals.
LEMMA Inductive ==
    ASSUME NEW N \in Nat, NEW I \in SUBSET (0 .. N), 0 \in I, \A n \in I : n < N => n + 1 \in I
    PROVE  \A n \in 0 .. N : n \in I
<1>1. SUFFICES ASSUME (0 .. N) \ I # {}
               PROVE  FALSE
  OBVIOUS
<1>. DEFINE J == (0 .. N) \ I
<1>2. PICK n \in J : \A m \in J : n <= m
  <2>1. J \in SUBSET Nat /\ J # {}
    BY <1>1
  <2>. HIDE DEF J
  <2>. QED
    BY <2>1, LeastOf
<1>3. n # 0 /\ n - 1 \in 0 .. N /\ n - 1 \in I
  BY <1>2
<1>. QED
  BY <1>2, <1>3

\* A function can be defined by recursion from 0 to N.
Iterates(k, V, v, F, N) ==
    k \in [0 .. N -> V] /\ k[0] = v /\ \A i \in 1 .. N : k[i] = F[<<k[i - 1], i>>]

LEMMA Recursion ==
    ASSUME NEW V, NEW v \in V, NEW F \in [V \X Nat -> V], NEW N \in Nat
    PROVE  \E k : Iterates(k, V, v, F, N)
<1>. DEFINE Upto(n, k) == k[0] = v /\ \A i \in 1 .. n : k[i] = F[<<k[i - 1], i>>]
            I == {n \in 0 .. N : \E k \in [0 .. n -> V] : Upto(n, k)}
<1>1. 0 \in I
  <2>1. [i \in 0 .. 0 |-> v] \in [0 .. 0 -> V] /\ Upto(0, [i \in 0 .. 0 |-> v])
    OBVIOUS
  <2>2. 0 \in 0 .. N
    OBVIOUS
  <2>. HIDE DEF Upto
  <2>. QED
    BY <2>1, <2>2
<1>2. ASSUME NEW n \in I, n < N
      PROVE  n + 1 \in I
  <2>1. PICK k \in [0 .. n -> V] : Upto(n, k)
    OBVIOUS
  <2>. DEFINE w == F[<<k[n], n + 1>>]
              g == [i \in 0 .. n + 1 |-> IF i = n + 1 THEN w ELSE k[i]]
  <2>2. k[n] \in V /\ <<k[n], n + 1>> \in V \X Nat
    OBVIOUS
  <2>3. w \in V
    BY <2>2
  <2>. HIDE DEF w
  <2>4. g \in [0 .. n + 1 -> V] /\ g[0] = v /\ g[n + 1] = w
    BY <2>1, <2>3
  <2>5. ASSUME NEW i \in 1 .. n
        PROVE  g[i] = k[i] /\ g[i - 1] = k[i - 1]
    BY <2>5
  <2>6. g[(n + 1) - 1] = k[n]
    OBVIOUS
  <2>. HIDE DEF g
  <2>7. ASSUME NEW i \in 1 .. n + 1
        PROVE  g[i] = F[<<g[i - 1], i>>]
    <3>1. CASE i = n + 1
      BY <2>4, <2>6, <3>1 DEF w
    <3>2. CASE i # n + 1
      <4>1. i \in 1 .. n
        BY <3>2
      <4>. QED
        BY <2>1, <2>5, <4>1
    <3>. QED
      BY <3>1, <3>2
  <2>8. Upto(n + 1, g)
    BY <2>4, <2>7
  <2>. QED
    BY <1>2, <2>4, <2>8
<1>. HIDE DEF I
<1>3. I \in SUBSET (0 .. N)
  BY DEF I
<1>4. \A n \in 0 .. N : n \in I
  BY <1>1, <1>2, <1>3, Inductive
<1>5. N \in I
  BY <1>4
<1>. QED
  BY <1>5 DEF I, Iterates

-----------------------------------------------------------------------------
(* The helpers on sequences.                                               *)

\* What the recursion of Keep does with an element.
Grow(k, x, S) == IF x \in S THEN Append(k, x) ELSE k

LEMMA GrowType ==
    ASSUME NEW T, NEW k \in Seq(T), NEW x \in T, NEW S
    PROVE  Grow(k, x, S) \in Seq(T)
BY AppendProperties DEF Grow

LEMMA KeepIs ==
    ASSUME NEW T, NEW q \in Seq(T), NEW S
    PROVE  \E k \in [0 .. Len(q) -> Seq(T)] :
               /\ k[0] = <<>>
               /\ \A i \in 1 .. Len(q) : k[i] = Grow(k[i - 1], q[i], S)
               /\ Keep(q, S) = k[Len(q)]
<1>. DEFINE Kept(k) == k = [i \in 0 .. Len(q) |-> IF i = 0 THEN <<>>
                               ELSE IF q[i] \in S THEN Append(k[i - 1], q[i]) ELSE k[i - 1]]
            F == [p \in Seq(T) \X Nat |-> IF p[2] \in 1 .. Len(q) THEN Grow(p[1], q[p[2]], S) ELSE p[1]]
<1>1. Len(q) \in Nat /\ \A i \in 1 .. Len(q) : q[i] \in T
  BY LenProperties, ElementOfSeq
<1>2. <<>> \in Seq(T)
  OBVIOUS
<1>3. F \in [Seq(T) \X Nat -> Seq(T)]
  <2>1. ASSUME NEW p \in Seq(T) \X Nat
        PROVE  (IF p[2] \in 1 .. Len(q) THEN Grow(p[1], q[p[2]], S) ELSE p[1]) \in Seq(T)
    <3>1. p[1] \in Seq(T)
      OBVIOUS
    <3>2. ASSUME p[2] \in 1 .. Len(q)
          PROVE  Grow(p[1], q[p[2]], S) \in Seq(T)
      BY <1>1, <3>1, <3>2, GrowType
    <3>. QED
      BY <3>1, <3>2
  <2>. QED
    BY <2>1
<1>4. PICK k \in [0 .. Len(q) -> Seq(T)] : k[0] = <<>> /\ \A i \in 1 .. Len(q) : k[i] = F[<<k[i - 1], i>>]
  <2>. DEFINE V == Seq(T)
              v == <<>>
              N == Len(q)
  <2>1. v \in V /\ F \in [V \X Nat -> V] /\ N \in Nat
    BY <1>1, <1>2, <1>3
  <2>. HIDE DEF F, V, v, N
  <2>2. PICK k : Iterates(k, V, v, F, N)
    BY <2>1, Recursion
  <2>. QED
    BY <2>2 DEF V, v, N, Iterates
<1>5. ASSUME NEW i \in 1 .. Len(q)
      PROVE  k[i] = Grow(k[i - 1], q[i], S)
  <2>1. k[i - 1] \in Seq(T) /\ i \in Nat
    BY <1>1
  <2>2. F[<<k[i - 1], i>>] = Grow(k[i - 1], q[i], S)
    BY <2>1
  <2>. QED
    BY <1>4, <2>2
<1>. HIDE DEF F
<1>6. Kept(k)
  <2>1. ASSUME NEW i \in 0 .. Len(q)
        PROVE  k[i] = IF i = 0 THEN <<>> ELSE IF q[i] \in S THEN Append(k[i - 1], q[i]) ELSE k[i - 1]
    <3>1. CASE i = 0
      BY <1>4, <3>1
    <3>2. CASE i # 0
      <4>1. i \in 1 .. Len(q)
        BY <1>1, <3>2
      <4>2. k[i] = Grow(k[i - 1], q[i], S)
        BY <1>5, <4>1
      <4>. QED
        BY <3>2, <4>2, Zenon DEF Grow
    <3>. QED
      BY <3>1, <3>2
  <2>. QED
    BY <2>1
<1>. DEFINE c == CHOOSE k1 : Kept(k1)
<1>7. Kept(c)
  BY <1>6
<1>8. Keep(q, S) = c[Len(q)]
  BY DEF Keep
<1>. HIDE DEF c
<1>9. c[0] = <<>> /\ \A i \in 1 .. Len(q) : c[i] = Grow(c[i - 1], q[i], S)
  <2>1. ASSUME NEW i \in 0 .. Len(q)
        PROVE  c[i] = IF i = 0 THEN <<>> ELSE IF q[i] \in S THEN Append(c[i - 1], q[i]) ELSE c[i - 1]
    BY <1>7, Zenon
  <2>2. 0 \in 0 .. Len(q) /\ \A i \in 1 .. Len(q) : i \in 0 .. Len(q) /\ i # 0
    BY <1>1
  <2>3. c[0] = <<>>
    BY <2>1, <2>2
  <2>4. ASSUME NEW i \in 1 .. Len(q)
        PROVE  c[i] = Grow(c[i - 1], q[i], S)
    BY <2>1, <2>2, Zenon DEF Grow
  <2>. QED
    BY <2>3, <2>4
<1>10. \A i \in 0 .. Len(q) : c[i] \in Seq(T)
  <2>. DEFINE I == {i \in 0 .. Len(q) : c[i] \in Seq(T)}
  <2>1. 0 \in I
    <3>1. 0 \in 0 .. Len(q) /\ c[0] \in Seq(T)
      BY <1>1, <1>2, <1>9
    <3>. QED
      BY <3>1
  <2>2. ASSUME NEW n \in I, n < Len(q)
        PROVE  n + 1 \in I
    <3>1. n + 1 \in 1 .. Len(q) /\ (n + 1) - 1 = n
      BY <1>1, <2>2
    <3>2. c[n + 1] = Grow(c[n], q[n + 1], S)
      BY <1>9, <3>1
    <3>3. c[n + 1] \in Seq(T)
      BY <1>1, <3>1, <3>2, GrowType
    <3>. QED
      BY <3>1, <3>3
  <2>. QED
    BY <1>1, <2>1, <2>2, Inductive
<1>11. c \in [0 .. Len(q) -> Seq(T)]
  BY <1>7, <1>10
<1>. QED
  BY <1>8, <1>9, <1>11

\* The elements of v are those of q that are in S, up to n, at the places m.
Picks(v, q, n, S, m) ==
    /\ m \in [1 .. Len(v) -> 1 .. n]
    /\ \A i, j \in 1 .. Len(v) : i < j => m[i] < m[j]
    /\ \A i \in 1 .. Len(v) : v[i] = q[m[i]] /\ v[i] \in S
    /\ \A j \in 1 .. n : q[j] \in S => \E i \in 1 .. Len(v) : m[i] = j

LEMMA GrowPicks ==
    ASSUME NEW T, NEW q \in Seq(T), NEW S, NEW n \in 0 .. Len(q) - 1, NEW v \in Seq(T), NEW m,
           Picks(v, q, n, S, m)
    PROVE  \E p : Picks(Grow(v, q[n + 1], S), q, n + 1, S, p)
<1>1. Len(q) \in Nat /\ q[n + 1] \in T /\ Len(v) \in Nat
  BY LenProperties, ElementOfSeq
<1>2. CASE q[n + 1] \notin S
  <2>1. Grow(v, q[n + 1], S) = v
    BY <1>2 DEF Grow
  <2>2. m \in [1 .. Len(v) -> 1 .. n + 1]
    BY <1>1 DEF Picks
  <2>3. \A j \in 1 .. n + 1 : q[j] \in S => \E i \in 1 .. Len(v) : m[i] = j
    <3>1. ASSUME NEW j \in 1 .. n + 1, q[j] \in S
          PROVE  j \in 1 .. n
      BY <1>2, <3>1
    <3>. QED
      BY <3>1 DEF Picks
  <2>4. Picks(v, q, n + 1, S, m)
    BY <2>2, <2>3 DEF Picks
  <2>. QED
    BY <2>1, <2>4
<1>3. CASE q[n + 1] \in S
  <2>. DEFINE w == Append(v, q[n + 1])
              l == Len(v) + 1
              p == [i \in 1 .. l |-> IF i = l THEN n + 1 ELSE m[i]]
  <2>1. /\ Len(w) = l /\ w[l] = q[n + 1]
        /\ \A i \in 1 .. l : i = l \/ (i \in 1 .. Len(v) /\ w[i] = v[i])
        /\ \A i \in 1 .. Len(v) : i \in 1 .. l /\ i # l /\ i < l
        /\ l \in 1 .. l /\ l \in Nat
    BY <1>1, AppendProperties
  <2>2. Grow(v, q[n + 1], S) = w
    BY <1>3 DEF Grow
  <2>. HIDE DEF w
  <2>3. \A i \in 1 .. Len(v) : m[i] \in 1 .. n
    BY DEF Picks
  <2>4. p \in [1 .. l -> 1 .. n + 1] /\ p[l] = n + 1 /\ \A i \in 1 .. Len(v) : p[i] = m[i]
    BY <2>1, <2>3
  <2>. HIDE DEF p
  <2>5. ASSUME NEW i \in 1 .. l, NEW j \in 1 .. l, i < j
        PROVE  p[i] < p[j]
    <3>1. i \in 1 .. Len(v)
      BY <1>1, <2>5 DEF l
    <3>2. CASE j = l
      BY <2>3, <2>4, <3>1, <3>2
    <3>3. CASE j # l
      BY <2>1, <2>4, <2>5, <3>1, <3>3 DEF Picks
    <3>. QED
      BY <3>2, <3>3
  <2>6. ASSUME NEW i \in 1 .. l
        PROVE  w[i] = q[p[i]] /\ w[i] \in S
    BY <1>3, <2>1, <2>4 DEF Picks
  <2>7. ASSUME NEW j \in 1 .. n + 1, q[j] \in S
        PROVE  \E i \in 1 .. l : p[i] = j
    <3>1. CASE j = n + 1
      BY <2>1, <2>4, <3>1
    <3>2. CASE j # n + 1
      <4>1. j \in 1 .. n
        BY <3>2
      <4>2. PICK i \in 1 .. Len(v) : m[i] = j
        BY <2>7, <4>1 DEF Picks
      <4>. QED
        BY <2>1, <2>4, <4>2
    <3>. QED
      BY <3>1, <3>2
  <2>8. Picks(w, q, n + 1, S, p)
    BY <2>1, <2>4, <2>5, <2>6, <2>7 DEF Picks
  <2>. QED
    BY <2>2, <2>8
<1>. QED
  BY <1>2, <1>3

LEMMA KeepPicks ==
    ASSUME NEW T, NEW q \in Seq(T), NEW S
    PROVE  Keep(q, S) \in Seq(T) /\ \E m : Picks(Keep(q, S), q, Len(q), S, m)
<1>1. PICK k \in [0 .. Len(q) -> Seq(T)] :
               /\ k[0] = <<>>
               /\ \A i \in 1 .. Len(q) : k[i] = Grow(k[i - 1], q[i], S)
               /\ Keep(q, S) = k[Len(q)]
  BY KeepIs, ZenonT(30)
<1>2. Len(q) \in Nat
  BY LenProperties
<1>. DEFINE I == {n \in 0 .. Len(q) : \E m : Picks(k[n], q, n, S, m)}
<1>3. 0 \in I
  <2>1. Len(k[0]) = 0 /\ 0 \in 0 .. Len(q)
    BY <1>1, <1>2
  <2>2. Picks(k[0], q, 0, S, [i \in 1 .. 0 |-> 0])
    BY <2>1 DEF Picks
  <2>. QED
    BY <2>1, <2>2
<1>4. ASSUME NEW n \in I, n < Len(q)
      PROVE  n + 1 \in I
  <2>1. n \in 0 .. Len(q) - 1 /\ n + 1 \in 1 .. Len(q) /\ (n + 1) - 1 = n
    BY <1>2, <1>4
  <2>2. PICK m : Picks(k[n], q, n, S, m)
    OBVIOUS
  <2>3. k[n + 1] = Grow(k[n], q[n + 1], S) /\ k[n] \in Seq(T)
    BY <1>1, <1>2, <2>1
  <2>4. \E p : Picks(k[n + 1], q, n + 1, S, p)
    BY <2>1, <2>2, <2>3, GrowPicks
  <2>. QED
    BY <1>2, <2>1, <2>4
<1>. HIDE DEF I
<1>5. I \in SUBSET (0 .. Len(q))
  BY DEF I
<1>6. \A n \in 0 .. Len(q) : n \in I
  BY <1>2, <1>3, <1>4, <1>5, Inductive
<1>7. Len(q) \in I
  BY <1>2, <1>6
<1>. QED
  BY <1>1, <1>2, <1>7 DEF I

-----------------------------------------------------------------------------
(* What the operations on a deque do to its entries.                       *)

Has(q, x)    == \E i \in DOMAIN q : q[i] = x
Once(q, x)   == \A i, j \in DOMAIN q : q[i] = x /\ q[j] = x => i = j
\* Of two results of one task the first is a partial one.
Ordered(res) == \A i, j \in DOMAIN res : i < j /\ res[i].id = res[j].id => res[i].kind = "partial"

LEMMA HasRange ==
    ASSUME NEW q, NEW x
    PROVE  x \in Range(q) <=> Has(q, x)
BY DEF Range, Has

LEMMA EmptyDeque == Ordered(<<>>) /\ \A x : ~Has(<<>>, x) /\ Once(<<>>, x)
BY EmptySeq DEF Has, Once, Ordered

LEMMA TailDeque ==
    ASSUME NEW T, NEW q \in Seq(T), q # <<>>
    PROVE  /\ Head(q) \in T /\ Tail(q) \in Seq(T)
           /\ \A x : /\ Has(q, x) <=> Head(q) = x \/ Has(Tail(q), x)
                     /\ Once(q, x) => Once(Tail(q), x) /\ ~(Head(q) = x /\ Has(Tail(q), x))
<1>1. /\ Head(q) \in T /\ Tail(q) \in Seq(T)
      /\ Len(q) \in Nat /\ Len(q) # 0 /\ DOMAIN q = 1 .. Len(q)
      /\ DOMAIN Tail(q) = 1 .. Len(q) - 1
      /\ Head(q) = q[1] /\ \A i \in 1 .. Len(q) - 1 : Tail(q)[i] = q[i + 1]
  BY HeadTailProperties, LenProperties, EmptySeq
<1>2. \A i \in DOMAIN q : i = 1 \/ (i - 1 \in DOMAIN Tail(q) /\ q[i] = Tail(q)[i - 1])
  BY <1>1
<1>3. 1 \in DOMAIN q /\ \A i \in DOMAIN Tail(q) : i \in Nat \ {0} /\ i + 1 \in DOMAIN q /\ Tail(q)[i] = q[i + 1]
  BY <1>1
<1>4. ASSUME NEW x
      PROVE  /\ Has(q, x) <=> Head(q) = x \/ Has(Tail(q), x)
             /\ Once(q, x) => Once(Tail(q), x) /\ ~(Head(q) = x /\ Has(Tail(q), x))
  <2>1. Has(q, x) <=> Head(q) = x \/ Has(Tail(q), x)
    BY <1>1, <1>2, <1>3 DEF Has
  <2>2. Once(q, x) => Once(Tail(q), x)
    BY <1>1, <1>3 DEF Once
  <2>3. Once(q, x) => ~(Head(q) = x /\ Has(Tail(q), x))
    BY <1>1, <1>3 DEF Once, Has
  <2>. QED
    BY <2>1, <2>2, <2>3
<1>. QED
  BY <1>1, <1>4

LEMMA ConcatDeque ==
    ASSUME NEW T, NEW p \in Seq(T), NEW q \in Seq(T)
    PROVE  /\ p \o q \in Seq(T)
           /\ \A x : /\ Has(p \o q, x) <=> Has(p, x) \/ Has(q, x)
                     /\ Once(p, x) /\ Once(q, x) /\ ~(Has(p, x) /\ Has(q, x)) => Once(p \o q, x)
           /\ /\ Ordered(p) /\ Ordered(q)
              /\ \A i \in DOMAIN p, j \in DOMAIN q : p[i].id = q[j].id => p[i].kind = "partial"
              => Ordered(p \o q)
<1>. DEFINE r == p \o q
<1>1. /\ r \in Seq(T) /\ Len(p) \in Nat /\ Len(q) \in Nat
      /\ DOMAIN p = 1 .. Len(p) /\ DOMAIN q = 1 .. Len(q) /\ DOMAIN r = 1 .. Len(p) + Len(q)
      /\ \A i \in 1 .. Len(p) + Len(q) : r[i] = IF i <= Len(p) THEN p[i] ELSE q[i - Len(p)]
  BY ConcatProperties, LenProperties
<1>. HIDE DEF r
<1>2. \A i \in DOMAIN r : \/ i \in DOMAIN p /\ r[i] = p[i]
                          \/ i > Len(p) /\ i - Len(p) \in DOMAIN q /\ r[i] = q[i - Len(p)]
  BY <1>1
<1>3. /\ \A i \in DOMAIN p : i \in DOMAIN r /\ r[i] = p[i]
      /\ \A i \in DOMAIN q : i + Len(p) \in DOMAIN r /\ r[i + Len(p)] = q[i]
  BY <1>1
<1>4. \A x : Has(r, x) <=> Has(p, x) \/ Has(q, x)
  BY <1>2, <1>3 DEF Has
<1>5. ASSUME NEW x, Once(p, x), Once(q, x), ~(Has(p, x) /\ Has(q, x))
      PROVE  Once(r, x)
  <2>1. SUFFICES ASSUME NEW i \in DOMAIN r, NEW j \in DOMAIN r, r[i] = x, r[j] = x
                 PROVE  i = j
    BY DEF Once
  <2>2. CASE Has(p, x)
    <3>1. i \in DOMAIN p /\ j \in DOMAIN p /\ r[i] = p[i] /\ r[j] = p[j]
      BY <1>2, <1>5, <2>1, <2>2 DEF Has
    <3>. QED
      BY <1>5, <2>1, <3>1 DEF Once
  <2>3. CASE ~Has(p, x)
    <3>1. /\ i - Len(p) \in DOMAIN q /\ j - Len(p) \in DOMAIN q
          /\ r[i] = q[i - Len(p)] /\ r[j] = q[j - Len(p)]
      BY <1>2, <2>1, <2>3 DEF Has
    <3>2. i - Len(p) = j - Len(p)
      BY <1>5, <2>1, <3>1 DEF Once
    <3>. QED
      BY <1>1, <3>2
  <2>. QED
    BY <2>2, <2>3
<1>6. ASSUME Ordered(p), Ordered(q),
             \A i \in DOMAIN p, j \in DOMAIN q : p[i].id = q[j].id => p[i].kind = "partial"
      PROVE  Ordered(r)
  <2>1. SUFFICES ASSUME NEW i \in DOMAIN r, NEW j \in DOMAIN r, i < j, r[i].id = r[j].id
                 PROVE  r[i].kind = "partial"
    BY DEF Ordered
  <2>2. CASE i \in DOMAIN p /\ r[i] = p[i] /\ j \in DOMAIN p /\ r[j] = p[j]
    BY <1>6, <2>1, <2>2 DEF Ordered
  <2>3. CASE i \in DOMAIN p /\ r[i] = p[i] /\ j - Len(p) \in DOMAIN q /\ r[j] = q[j - Len(p)]
    BY <1>6, <2>1, <2>3
  <2>4. CASE /\ i - Len(p) \in DOMAIN q /\ r[i] = q[i - Len(p)]
             /\ j - Len(p) \in DOMAIN q /\ r[j] = q[j - Len(p)]
    <3>1. i - Len(p) < j - Len(p)
      BY <1>1, <2>1
    <3>. QED
      BY <1>6, <2>1, <2>4, <3>1 DEF Ordered
  <2>5. CASE i > Len(p) /\ j \in DOMAIN p
    BY <1>1, <2>1, <2>5
  <2>. QED
    BY <1>2, <2>2, <2>3, <2>4, <2>5
<1>. QED
  BY <1>1, <1>4, <1>5, <1>6 DEF r

LEMMA SingleDeque ==
    ASSUME NEW T, NEW x \in T
    PROVE  <<x>> \in Seq(T) /\ \A y : (Has(<<x>>, y) <=> x = y) /\ Once(<<x>>, y)
<1>1. <<x>> \in Seq(T) /\ DOMAIN <<x>> = {1} /\ <<x>>[1] = x
  OBVIOUS
<1>. QED
  BY <1>1 DEF Has, Once

\* an entry at the front, and at the back
LEMMA FrontDeque ==
    ASSUME NEW T, NEW q \in Seq(T), NEW x \in T
    PROVE  /\ <<x>> \o q \in Seq(T)
           /\ \A y : /\ Has(<<x>> \o q, y) <=> x = y \/ Has(q, y)
                     /\ Once(q, y) /\ ~(x = y /\ Has(q, y)) => Once(<<x>> \o q, y)
<1>. DEFINE p == <<x>>
<1>1. p \in Seq(T) /\ \A y : (Has(p, y) <=> x = y) /\ Once(p, y)
  BY SingleDeque
<1>. HIDE DEF p
<1>. QED
  BY <1>1, ConcatDeque DEF p

LEMMA BackDeque ==
    ASSUME NEW T, NEW q \in Seq(T), NEW x \in T
    PROVE  /\ Append(q, x) \in Seq(T)
           /\ \A y : /\ Has(Append(q, x), y) <=> x = y \/ Has(q, y)
                     /\ Once(q, y) /\ ~(x = y /\ Has(q, y)) => Once(Append(q, x), y)
<1>. DEFINE p == <<x>>
<1>1. Append(q, x) = q \o p
  BY AppendIsConcat
<1>2. p \in Seq(T) /\ \A y : (Has(p, y) <=> x = y) /\ Once(p, y)
  BY SingleDeque
<1>. HIDE DEF p
<1>. QED
  BY <1>1, <1>2, ConcatDeque

LEMMA RemoveDeque ==
    ASSUME NEW T, NEW q \in Seq(T), NEW i \in DOMAIN q
    PROVE  /\ RemoveAt(q, i) \in Seq(T) /\ q[i] \in T
           /\ \A x : /\ Has(q, x) <=> q[i] = x \/ Has(RemoveAt(q, i), x)
                     /\ Once(q, x) => Once(RemoveAt(q, i), x) /\ ~(q[i] = x /\ Has(RemoveAt(q, i), x))
           /\ Ordered(q) => /\ Ordered(RemoveAt(q, i))
                            /\ q[i].kind # "partial" => ~Has(RemoveAt(q, i), q[i])
           /\ \A x : Has(RemoveAt(q, i), x) => \E j \in DOMAIN q : j # i /\ q[j] = x
<1>. DEFINE r == RemoveAt(q, i)
            To(k) == IF k < i THEN k ELSE k - 1
            Back(k) == IF k < i THEN k ELSE k + 1
<1>1. Len(q) \in Nat /\ DOMAIN q = 1 .. Len(q) /\ i \in 1 .. Len(q) /\ q[i] \in T
  BY LenProperties, ElementOfSeq
<1>2. r \in Seq(T) /\ Len(r) = Len(q) - 1 /\ DOMAIN r = 1 .. Len(q) - 1
      /\ \A k \in 1 .. Len(q) - 1 : r[k] = q[Back(k)]
  <2>. DEFINE a == SubSeq(q, 1, i - 1)
              b == SubSeq(q, i + 1, Len(q))
  <2>1. /\ a \in Seq(T) /\ Len(a) = i - 1 /\ \A k \in 1 .. i - 1 : a[k] = q[k]
    BY <1>1, SubSeqProperties
  <2>2. /\ b \in Seq(T) /\ Len(b) = Len(q) - i /\ \A k \in 1 .. Len(q) - i : b[k] = q[i + k]
    BY <1>1, SubSeqProperties
  <2>3. r = a \o b
    BY DEF RemoveAt
  <2>. HIDE DEF a, b, r
  <2>4. /\ r \in Seq(T) /\ Len(r) = Len(a) + Len(b)
        /\ \A k \in 1 .. Len(a) + Len(b) : r[k] = IF k <= Len(a) THEN a[k] ELSE b[k - Len(a)]
    BY <2>1, <2>2, <2>3, ConcatProperties
  <2>5. Len(r) = Len(q) - 1 /\ DOMAIN r = 1 .. Len(q) - 1
    BY <1>1, <2>1, <2>2, <2>4, LenProperties
  <2>6. ASSUME NEW k \in 1 .. Len(q) - 1
        PROVE  r[k] = q[Back(k)]
    <3>1. CASE k < i
      BY <1>1, <2>1, <2>2, <2>4, <3>1
    <3>2. CASE ~(k < i)
      <4>1. r[k] = b[k - (i - 1)] /\ k - (i - 1) \in 1 .. Len(q) - i
        BY <1>1, <2>1, <2>2, <2>4, <3>2, SMTT(30)
      <4>2. b[k - (i - 1)] = q[i + (k - (i - 1))] /\ i + (k - (i - 1)) = k + 1
        BY <1>1, <2>2, <4>1
      <4>. QED
        BY <3>2, <4>1, <4>2
    <3>. QED
      BY <3>1, <3>2
  <2>. QED
    BY <2>4, <2>5, <2>6
<1>. HIDE DEF r
<1>4. \A k \in DOMAIN q : k # i => To(k) \in DOMAIN r /\ q[k] = r[To(k)]
  BY <1>1, <1>2
<1>5. \A k \in DOMAIN r : Back(k) \in DOMAIN q /\ Back(k) # i /\ r[k] = q[Back(k)]
  BY <1>1, <1>2
<1>6. \A k, l \in DOMAIN r : (Back(k) = Back(l) => k = l) /\ (k < l => Back(k) < Back(l))
  BY <1>1, <1>2
<1>9. \A k, l \in DOMAIN q : k # l => k < l \/ l < k
  BY <1>1
<1>. HIDE DEF To, Back
<1>7. ASSUME NEW x
      PROVE  /\ Has(q, x) <=> q[i] = x \/ Has(r, x)
             /\ Once(q, x) => Once(r, x) /\ ~(q[i] = x /\ Has(r, x))
  <2>1. Has(q, x) <=> q[i] = x \/ Has(r, x)
    BY <1>4, <1>5 DEF Has
  <2>2. Once(q, x) => Once(r, x)
    BY <1>5, <1>6 DEF Once
  <2>3. Once(q, x) => ~(q[i] = x /\ Has(r, x))
    BY <1>5 DEF Once, Has
  <2>. QED
    BY <2>1, <2>2, <2>3
<1>8. Ordered(q) => Ordered(r)
  BY <1>5, <1>6 DEF Ordered
<1>10. ASSUME Ordered(q), q[i].kind # "partial", Has(r, q[i])
       PROVE  FALSE
  <2>1. PICK k \in DOMAIN r : r[k] = q[i]
    BY <1>10 DEF Has
  <2>2. Back(k) \in DOMAIN q /\ Back(k) # i /\ q[Back(k)] = q[i]
    BY <1>5, <2>1
  <2>. QED
    BY <1>9, <1>10, <2>2 DEF Ordered
<1>11. \A x : Has(r, x) => \E j \in DOMAIN q : j # i /\ q[j] = x
  BY <1>5 DEF Has
<1>. QED
  BY <1>1, <1>2, <1>7, <1>8, <1>10, <1>11 DEF r

LEMMA KeepDeque ==
    ASSUME NEW T, NEW q \in Seq(T), NEW S
    PROVE  /\ Keep(q, S) \in Seq(T)
           /\ \A x : /\ Has(Keep(q, S), x) <=> Has(q, x) /\ x \in S
                     /\ Once(q, x) => Once(Keep(q, S), x)
           /\ Ordered(q) => Ordered(Keep(q, S))
<1>. DEFINE v == Keep(q, S)
<1>1. v \in Seq(T) /\ \E m : Picks(v, q, Len(q), S, m)
  BY KeepPicks
<1>. HIDE DEF v
<1>2. PICK m : Picks(v, q, Len(q), S, m)
  BY <1>1
<1>3. Len(v) \in Nat /\ Len(q) \in Nat /\ DOMAIN v = 1 .. Len(v) /\ DOMAIN q = 1 .. Len(q)
  BY <1>1, LenProperties
<1>4. /\ \A i \in DOMAIN v : m[i] \in DOMAIN q /\ v[i] = q[m[i]] /\ v[i] \in S
      /\ \A i, j \in DOMAIN v : i < j => m[i] < m[j]
      /\ \A j \in DOMAIN q : q[j] \in S => \E i \in DOMAIN v : m[i] = j
  BY <1>2, <1>3 DEF Picks
<1>5. \A i, j \in DOMAIN v : m[i] = m[j] => i = j
  BY <1>3, <1>4
<1>6. \A x : Has(v, x) <=> Has(q, x) /\ x \in S
  BY <1>4 DEF Has
<1>7. \A x : Once(q, x) => Once(v, x)
  BY <1>4, <1>5 DEF Once
<1>8. Ordered(q) => Ordered(v)
  BY <1>4 DEF Ordered
<1>. QED
  BY <1>1, <1>6, <1>7, <1>8 DEF v

-----------------------------------------------------------------------------
(* Tasks, items and slots.                                                 *)

Own(r) == Id(r, 0)

LEMMA IdFacts ==
    /\ \A r \in Requests : \A i \in 0 .. Children[r] : Id(r, i) \in Ids /\ Id(r, i) \in IdsOf(r)
    /\ \A r \in Requests : Children[r] \in Nat /\ Own(r) \in Ids /\ Own(r) \in IdsOf(r)
                           /\ Own(r)[2] = 0 /\ Req(Own(r)) = r
    /\ \A r \in Requests, i \in Nat : Req(Id(r, i)) = r /\ Id(r, i)[2] = i
    /\ \A t \in Ids : /\ Req(t) \in Requests /\ t[2] \in 0 .. Children[Req(t)] /\ t = Id(Req(t), t[2])
                      /\ t \in IdsOf(Req(t)) /\ t # NoId /\ (t[2] = 0 => t = Own(Req(t)))
    /\ \A r \in Requests : \A t : t \in IdsOf(r) <=> t \in Ids /\ Req(t) = r
    /\ \A r \in Requests : IdsOf(r) \subseteq Ids
<1>1. \A r \in Requests : Children[r] \in Nat
  BY RequestsAssumption
<1>. QED
  BY <1>1 DEF Ids, IdsOf, Id, Req, Own, NoId

\* What may be in the queue: of a request only the task that carries its children.
QItems == {x \in Items : x.kind = "task" => x.id[2] = 0}
DItems == {Task(Own(r)) : r \in Requests}

LEMMA ItemFacts ==
    /\ \A r \in Requests : Task(Own(r)) \in DItems /\ Task(Own(r)) \in QItems
                           /\ Task(Own(r)).kind = "task" /\ Task(Own(r)).id = Own(r)
                           /\ Task(Own(r)) # NextResponse /\ Task(Own(r)) # NoItem
    /\ \A q, r \in Requests : Task(Own(q)) = Task(Own(r)) => q = r
    /\ \A x \in DItems : x \in QItems /\ x.kind = "task" /\ x.id \in Ids /\ x = Task(Own(Req(x.id)))
    /\ \A t \in Ids : Cancel(t) \in QItems /\ Cancel(t).kind = "cancel" /\ Cancel(t).id = t
    /\ \A t \in Ids, r \in Requests : Cancel(t) # Task(Own(r))
    /\ NextResponse \in QItems /\ NextResponse.kind = "next" /\ NoItem.kind = "none"
    /\ \A x \in QItems : /\ x.kind = "task" => x.id \in Ids /\ x \in DItems
                         /\ x.kind = "cancel" => x.id \in Ids /\ x = Cancel(x.id)
                         /\ x.kind \in {"task", "cancel", "next"}
                         /\ x # NoItem
<1>1. \A r \in Requests : Own(r) \in Ids /\ Own(r)[2] = 0 /\ Req(Own(r)) = r
  BY IdFacts
<1>2. \A t \in Ids : Req(t) \in Requests /\ (t[2] = 0 => t = Own(Req(t)))
  BY IdFacts
<1>3. \A t \in Ids : Task(t).kind = "task" /\ Task(t).id = t /\ Task(t) \in [kind : {"task", "cancel"}, id : Ids]
  BY DEF Task
<1>4. \A r \in Requests : Task(Own(r)) \in DItems /\ Task(Own(r)) \in QItems
  BY <1>1, <1>3 DEF DItems, QItems, Items
<1>5. \A r \in Requests : Task(Own(r)) # NextResponse /\ Task(Own(r)) # NoItem
  BY <1>1, <1>3 DEF NextResponse, NoItem
<1>6. \A q, r \in Requests : Task(Own(q)) = Task(Own(r)) => q = r
  BY <1>1, <1>3
<1>7. \A x \in DItems : x \in QItems /\ x.kind = "task" /\ x.id \in Ids /\ x = Task(Own(Req(x.id)))
  BY <1>1, <1>3, <1>4 DEF DItems
<1>8. \A t \in Ids : Cancel(t) \in QItems /\ Cancel(t).kind = "cancel" /\ Cancel(t).id = t
  BY DEF Cancel, QItems, Items
<1>9. \A t \in Ids, r \in Requests : Cancel(t) # Task(Own(r))
  BY <1>1, <1>3, <1>8
<1>10. NextResponse \in QItems /\ NextResponse.kind = "next" /\ NoItem.kind = "none"
  BY DEF NextResponse, NoItem, QItems, Items
<1>11. ASSUME NEW x \in QItems
       PROVE  /\ x.kind = "task" => x.id \in Ids /\ x \in DItems
              /\ x.kind = "cancel" => x.id \in Ids /\ x = Cancel(x.id)
              /\ x.kind \in {"task", "cancel", "next"}
              /\ x # NoItem
  <2>1. x \in [kind : {"task", "cancel"}, id : Ids] \/ x = NextResponse
    BY DEF QItems, Items
  <2>2. CASE x = NextResponse
    BY <1>10, <2>2
  <2>3. CASE x \in [kind : {"task", "cancel"}, id : Ids]
    <3>1. x.kind \in {"task", "cancel"} /\ x.id \in Ids /\ x = [kind |-> x.kind, id |-> x.id]
      BY <2>3
    <3>2. x.kind = "task" => x = Task(x.id) /\ x.id = Own(Req(x.id))
      BY <1>2, <3>1 DEF Task, QItems
    <3>3. x.kind = "task" => x \in DItems
      BY <1>2, <3>1, <3>2 DEF DItems
    <3>4. x.kind = "cancel" => x = Cancel(x.id)
      BY <3>1 DEF Cancel
    <3>. QED
      BY <1>10, <3>1, <3>3, <3>4
  <2>. QED
    BY <2>1, <2>2, <2>3
<1>. QED
  BY <1>1, <1>3, <1>4, <1>5, <1>6, <1>7, <1>8, <1>9, <1>10, <1>11

\* The slots of a set, in order.
LEMMA InOrderIs ==
    ASSUME NEW S \in SUBSET Slots
    PROVE  /\ InOrder(S) \in Seq(Slots)
           /\ \A s : (Has(InOrder(S), s) <=> s \in S) /\ Once(InOrder(S), s)
<1>. DEFINE q == [i \in 1 .. NumSlots |-> i - 1]
<1>1. NumSlots \in Nat \ {0}
  BY SlotsAssumption
<1>2. \A i \in 1 .. NumSlots : i - 1 \in Slots
  BY <1>1 DEF Slots
<1>3. q \in Seq(Slots) /\ DOMAIN q = 1 .. NumSlots /\ \A i \in 1 .. NumSlots : q[i] = i - 1
  BY <1>1, <1>2
<1>4. ASSUME NEW s \in S
      PROVE  Has(q, s)
  <2>1. s + 1 \in 1 .. NumSlots /\ (s + 1) - 1 = s
    BY <1>1 DEF Slots
  <2>. QED
    BY <1>3, <2>1 DEF Has
<1>. HIDE DEF q
<1>5. \A s : Once(q, s)
  BY <1>3 DEF Once
<1>6. InOrder(S) = Keep(q, S)
  BY DEF InOrder, q
<1>. QED
  BY <1>3, <1>4, <1>5, <1>6, KeepDeque

-----------------------------------------------------------------------------
(* Release: tasks move from the deferred ones to the front of the queue.   *)

\* At most one entry of the two deques is x.
Single(q, d, x) == Once(q, x) /\ Once(d, x) /\ ~(Has(q, x) /\ Has(d, x))

Flows(q, d, q2, d2) ==
    /\ q2 \in Seq(QItems) /\ d2 \in Seq(DItems)
    /\ \A x : /\ Has(q2, x) \/ Has(d2, x) <=> Has(q, x) \/ Has(d, x)
              /\ Has(d2, x) => Has(d, x)
              /\ Single(q, d, x) => Single(q2, d2, x)

LEMMA FlowsOn ==
    ASSUME NEW q, NEW d, NEW q2, NEW d2, NEW q3, NEW d3, Flows(q, d, q2, d2), Flows(q2, d2, q3, d3)
    PROVE  Flows(q, d, q3, d3)
BY DEF Flows

Deques == [main : Seq(QItems), deferred : Seq(DItems)]

LEMMA PopFlows ==
    ASSUME NEW qs \in Deques, NEW s
    PROVE  /\ PopDeferred(qs, s) \in Deques
           /\ Flows(qs.main, qs.deferred, PopDeferred(qs, s).main, PopDeferred(qs, s).deferred)
<1>1. qs.main \in Seq(QItems) /\ qs.deferred \in Seq(DItems)
  BY DEF Deques
<1>2. CASE qs.deferred = <<>>
  <2>1. PopDeferred(qs, s) = qs
    BY <1>2, Zenon DEF PopDeferred
  <2>. QED
    BY <1>1, <2>1 DEF Flows
<1>3. CASE qs.deferred # <<>>
  <2>. DEFINE I == {i \in 1 .. Len(qs.deferred) : Want[Req(qs.deferred[i].id)] = s /\ Kind[Req(qs.deferred[i].id)] = "completion"}
              w == IF I # {} THEN Min(I) ELSE 0
              i == IF w = 0 THEN 1 ELSE w
  <2>1. PopDeferred(qs, s) = [main |-> <<qs.deferred[i]>> \o qs.main, deferred |-> RemoveAt(qs.deferred, i)]
    BY <1>3, Zenon DEF PopDeferred, SelectInSeq
  <2>2. i \in DOMAIN qs.deferred
    <3>1. Len(qs.deferred) \in Nat /\ Len(qs.deferred) # 0 /\ DOMAIN qs.deferred = 1 .. Len(qs.deferred)
      BY <1>1, <1>3, EmptySeq, LenProperties
    <3>2. CASE I = {}
      BY <3>1, <3>2
    <3>3. CASE I # {}
      <4>1. I \in SUBSET Nat /\ I \subseteq 1 .. Len(qs.deferred)
        BY <3>1
      <4>. HIDE DEF I
      <4>2. Min(I) \in I
        BY <3>3, <4>1, MinInSet
      <4>3. i = Min(I)
        BY <3>1, <3>3, <4>1, <4>2
      <4>. HIDE DEF i
      <4>. QED
        BY <3>1, <4>1, <4>2, <4>3
    <3>. QED
      BY <3>2, <3>3
  <2>. HIDE DEF i
  <2>. DEFINE x == qs.deferred[i]
              q2 == <<x>> \o qs.main
              d2 == RemoveAt(qs.deferred, i)
  <2>3. /\ d2 \in Seq(DItems) /\ x \in DItems
        /\ \A y : /\ Has(qs.deferred, y) <=> x = y \/ Has(d2, y)
                  /\ Once(qs.deferred, y) => Once(d2, y) /\ ~(x = y /\ Has(d2, y))
    BY <1>1, <2>2, RemoveDeque
  <2>4. x \in QItems
    BY <2>3, ItemFacts
  <2>. HIDE DEF x
  <2>5. /\ q2 \in Seq(QItems)
        /\ \A y : /\ Has(q2, y) <=> x = y \/ Has(qs.main, y)
                  /\ Once(qs.main, y) /\ ~(x = y /\ Has(qs.main, y)) => Once(q2, y)
    BY <1>1, <2>4, FrontDeque
  <2>6. PopDeferred(qs, s) = [main |-> q2, deferred |-> d2]
    BY <2>1 DEF x
  <2>. HIDE DEF q2, d2
  <2>7. Flows(qs.main, qs.deferred, q2, d2)
    BY <2>3, <2>5 DEF Flows, Single
  <2>. QED
    BY <2>3, <2>5, <2>6, <2>7 DEF Deques
<1>. QED
  BY <1>2, <1>3

LEMMA ReleaseFlows ==
    ASSUME NEW S, NEW qs \in Deques
    PROVE  Flows(qs.main, qs.deferred, Release(S, qs).main, Release(S, qs).deferred)
<1>. DEFINE Solves(k) == k = [n \in 0 .. NumSlots |->
                IF n = 0 THEN qs
                ELSE IF n - 1 \in S THEN PopDeferred(k[n - 1], n - 1) ELSE k[n - 1]]
            Step(v, n) == IF n - 1 \in S THEN PopDeferred(v, n - 1) ELSE v
            F == [p \in Deques \X Nat |-> Step(p[1], p[2])]
<1>1. NumSlots \in Nat
  BY SlotsAssumption
<1>2. ASSUME NEW v \in Deques, NEW n \in Nat
      PROVE  Step(v, n) \in Deques
  BY PopFlows
<1>. HIDE DEF Step
<1>3. F \in [Deques \X Nat -> Deques] /\ \A v \in Deques, n \in Nat : F[<<v, n>>] = Step(v, n)
  BY <1>2
<1>. HIDE DEF F
<1>4. PICK k : Iterates(k, Deques, qs, F, NumSlots)
  BY <1>1, <1>3, Recursion
<1>5. Solves(k)
  <2>1. ASSUME NEW n \in 0 .. NumSlots
        PROVE  k[n] = IF n = 0 THEN qs ELSE IF n - 1 \in S THEN PopDeferred(k[n - 1], n - 1) ELSE k[n - 1]
    <3>1. CASE n = 0
      BY <1>4, <3>1 DEF Iterates
    <3>2. CASE n # 0
      <4>1. n \in 1 .. NumSlots /\ n - 1 \in 0 .. NumSlots /\ n \in Nat
        BY <1>1, <3>2
      <4>2. k[n - 1] \in Deques /\ k[n] = F[<<k[n - 1], n>>]
        BY <1>4, <4>1 DEF Iterates
      <4>3. k[n] = Step(k[n - 1], n)
        BY <1>3, <4>1, <4>2
      <4>. QED
        BY <3>2, <4>3, Zenon DEF Step
    <3>. QED
      BY <3>1, <3>2
  <2>. QED
    BY <1>4, <2>1 DEF Iterates
<1>. DEFINE c == CHOOSE k1 : Solves(k1)
<1>6. Solves(c)
  BY <1>5
<1>7. Release(S, qs) = c[NumSlots]
  BY DEF Release
<1>. HIDE DEF c
<1>8. c[0] = qs /\ \A n \in 0 .. NumSlots : n < NumSlots =>
                       c[n + 1] = IF n \in S THEN PopDeferred(c[n], n) ELSE c[n]
  <2>1. ASSUME NEW n \in 0 .. NumSlots
        PROVE  c[n] = IF n = 0 THEN qs ELSE IF n - 1 \in S THEN PopDeferred(c[n - 1], n - 1) ELSE c[n - 1]
    BY <1>6, Zenon
  <2>2. c[0] = qs
    BY <1>1, <2>1
  <2>3. ASSUME NEW n \in 0 .. NumSlots, n < NumSlots
        PROVE  c[n + 1] = IF n \in S THEN PopDeferred(c[n], n) ELSE c[n]
    <3>1. n + 1 \in 0 .. NumSlots /\ n + 1 # 0 /\ (n + 1) - 1 = n
      BY <1>1, <2>3
    <3>. QED
      BY <2>1, <3>1
  <2>. QED
    BY <2>2, <2>3
<1>. DEFINE I == {n \in 0 .. NumSlots : c[n] \in Deques /\ Flows(qs.main, qs.deferred, c[n].main, c[n].deferred)}
<1>9. 0 \in I
  <2>1. Flows(qs.main, qs.deferred, qs.main, qs.deferred)
    BY DEF Flows, Deques
  <2>. QED
    BY <1>1, <1>8, <2>1
<1>10. ASSUME NEW n \in I, n < NumSlots
       PROVE  n + 1 \in I
  <2>1. c[n] \in Deques /\ Flows(qs.main, qs.deferred, c[n].main, c[n].deferred) /\ n \in 0 .. NumSlots
    OBVIOUS
  <2>2. c[n + 1] \in Deques /\ Flows(qs.main, qs.deferred, c[n + 1].main, c[n + 1].deferred)
    <3>1. CASE n \notin S
      BY <1>8, <1>10, <2>1, <3>1
    <3>2. CASE n \in S
      <4>1. c[n + 1] = PopDeferred(c[n], n)
        BY <1>8, <1>10, <2>1, <3>2
      <4>2. /\ c[n + 1] \in Deques
            /\ Flows(c[n].main, c[n].deferred, c[n + 1].main, c[n + 1].deferred)
        BY <2>1, <4>1, PopFlows
      <4>. QED
        BY <2>1, <4>2, FlowsOn
    <3>. QED
      BY <3>1, <3>2
  <2>. QED
    BY <1>1, <1>10, <2>1, <2>2
<1>. HIDE DEF I
<1>11. I \in SUBSET (0 .. NumSlots)
  BY DEF I
<1>12. \A n \in 0 .. NumSlots : n \in I
  BY <1>1, <1>9, <1>10, <1>11, Inductive
<1>13. NumSlots \in I
  BY <1>1, <1>12
<1>. QED
  BY <1>7, <1>13 DEF I

-----------------------------------------------------------------------------
(* The invariant.                                                          *)

Phases  == {"take", "process", "gen", "prompt", "decode", "post", "wait"}
SlotSet == [state : SlotStates, id : Ids \cup {NoId}, n : Nat]
Replies == [kind : {"partial", "final", "error"}, id : Ids]
Readers == [pc : {"new", "reading", "done", "failed", "stopped"}, received : Nat]

QueuesOK ==
    /\ queue \in Seq(QItems) /\ deferred \in Seq(DItems)
    /\ pc \in Phases
    /\ pc = "process" => hand \in QItems
    /\ pc # "process" => hand = NoItem
SlotsOK ==
    /\ turn \in Slots /\ batch \subseteq Slots
    /\ slot \in [Slots -> SlotSet]
RepliesOK ==
    /\ waiting \subseteq Ids /\ results \in Seq(Replies)
    /\ reader \in [Requests -> Readers]
    /\ answers \in [Ids -> Seq({"final", "error"})]

\* A slot is idle when it has no task, and no two have the same one.
Seats ==
    /\ \A s \in Slots : slot[s].state = "IDLE" <=> slot[s].id = NoId
    /\ \A s, u \in Slots : slot[s].id = slot[u].id /\ slot[s].id # NoId => s = u
    /\ \A s \in Slots : slot[s].state = "WAIT_OTHER" => slot[s].id[2] > 0

\* A request is on its way to the slots; a task is in one, is to be cancelled.
Carries(r) == Has(queue, Task(Own(r))) \/ Has(deferred, Task(Own(r))) \/ hand = Task(Own(r))
Apart(r)   == /\ Single(queue, deferred, Task(Own(r)))
              /\ hand = Task(Own(r)) => ~Has(queue, Task(Own(r))) /\ ~Has(deferred, Task(Own(r)))
Sits(t)    == \E s \in Slots : slot[s].id = t
Called(t)  == Has(queue, Cancel(t)) \/ hand = Cancel(t)
Gone(r)    == reader[r].pc \in {"failed", "stopped"}

\* A CANCEL is posted by a reader that has left.
Cancelled == \A t \in Ids : Called(t) => Gone(Req(t))

\* A task is on its way, in a slot or answered, and what a reader waits for is one of them.
Placed(r) ==
    /\ Apart(r)
    /\ Carries(r) => reader[r].pc # "new" /\ \A t \in IdsOf(r) : ~Sits(t) /\ answers[t] = <<>>
    /\ \A t \in IdsOf(r) : Sits(t) => answers[t] = <<>> /\ reader[r].pc # "new"
    /\ reader[r].pc = "new" => \A t \in IdsOf(r) : answers[t] = <<>>
    /\ Reading(r) => ErrorPending(r) \/ \A t \in IdsOf(r) : Carries(r) \/ Sits(t) \/ answers[t] # <<>>

\* A verdict for t is in queue_results.
Said(t) == \E x \in Replies : Has(results, x) /\ x.id = t /\ x.kind # "partial"

\* The results that are verdicts are the answers that a reader has yet to take; a partial
\* result is for a task that has no answer, or whose answer comes after it.
Heard ==
    /\ \A t \in Ids : t \in waiting <=> Reading(Req(t))
    /\ Ordered(results)
    /\ \A x \in Replies : Has(results, x) => /\ Reading(Req(x.id))
                                             /\ x.kind # "partial" => answers[x.id] = <<x.kind>>
                                             /\ answers[x.id] # <<>> => Said(x.id)
    /\ \A t \in Ids : /\ answers[t] \in {<<>>, <<"final">>, <<"error">>}
                      /\ Reading(Req(t)) /\ answers[t] = <<"error">> => Has(results, [kind |-> "error", id |-> t])

\* A reader's counter is the number of answers it has taken.
Due(r)     == {t \in IdsOf(r) : Said(t)}
Told(r)    == {t \in IdsOf(r) : answers[t] # <<>>}
Counted(r) ==
    /\ reader[r].pc = "new" => reader[r].received = 0
    /\ Reading(r) => reader[r].received + Cardinality(Due(r)) = Cardinality(Told(r))

Typed == QueuesOK /\ SlotsOK /\ RepliesOK
Inv == Typed /\ Seats /\ Cancelled /\ Heard /\ \A r \in Requests : Placed(r) /\ Counted(r)

-----------------------------------------------------------------------------
(* The kinds of steps.                                                     *)

\* The requests of R are no longer on their way; nothing new is to be cancelled.
Moves(R) ==
    /\ QueuesOK'
    /\ \A r \in Requests : (Apart(r) => Apart(r)') /\ (Carries(r)' <=> Carries(r) /\ r \notin R)
    /\ \A t \in Ids : Called(t)' => Called(t)
\* The tasks of T leave their slots.
Frees(T) ==
    /\ SlotsOK' /\ Seats'
    /\ \A t \in Ids : Sits(t)' <=> Sits(t) /\ t \notin T
\* A result of each of the tasks of T is sent.
Says(T, kind) ==
    /\ T \subseteq Ids /\ \A t \in T : answers[t] = <<>> /\ reader[Req(t)].pc # "new"
    /\ results' \in Seq(Replies) /\ Ordered(results')
    /\ \A x \in Replies : Has(results', x) <=> Has(results, x) \/ (x.id \in T \cap waiting /\ x.kind = kind)
    /\ UNCHANGED <<reader, waiting>>
\* It is their answer.
Answers(T, kind) ==
    /\ Says(T, kind)
    /\ answers' = [t \in Ids |-> IF t \in T THEN <<kind>> ELSE answers[t]]

LEMMA ErrorIs ==
    ASSUME RepliesOK, NEW r \in Requests
    PROVE  ErrorPending(r) <=> \E t \in IdsOf(r) : Has(results, [kind |-> "error", id |-> t])
<1>1. \A i \in DOMAIN results : results[i] \in Replies
  BY ElementOfSeq, LenProperties DEF RepliesOK
<1>2. ASSUME NEW i \in DOMAIN results, results[i].id \in IdsOf(r), results[i].kind = "error"
      PROVE  Has(results, [kind |-> "error", id |-> results[i].id])
  <2>1. results[i] = [kind |-> "error", id |-> results[i].id]
    BY <1>1, <1>2 DEF Replies
  <2>. QED
    BY <2>1 DEF Has
<1>3. ASSUME NEW t \in IdsOf(r), Has(results, [kind |-> "error", id |-> t])
      PROVE  ErrorPending(r)
  BY <1>3 DEF Has, ErrorPending, PendingFor
<1>. QED
  BY <1>2, <1>3 DEF ErrorPending, PendingFor

-----------------------------------------------------------------------------
(* The queues in each step.                                                *)

\* The requests whose task the main thread lets go of.
Dropped == {r \in Requests : hand = Task(Own(r)) /\ hand' # hand}

LEMMA FlowMoves ==
    ASSUME QueuesOK, \A r \in Requests : Apart(r), Flows(queue, deferred, queue', deferred'),
           pc' \in Phases, hand' = hand \/ hand' = NoItem,
           pc' = "process" => hand' \in QItems, pc' # "process" => hand' = NoItem
    PROVE  Moves(Dropped)
<1>1. QueuesOK'
  BY DEF Flows, QueuesOK
<1>2. ASSUME NEW r \in Requests
      PROVE  (Apart(r) => Apart(r)') /\ (Carries(r)' <=> Carries(r) /\ r \notin Dropped)
  <2>. DEFINE x == Task(Own(r))
  <2>1. x # NoItem
    BY ItemFacts
  <2>2. /\ Has(queue', x) \/ Has(deferred', x) <=> Has(queue, x) \/ Has(deferred, x)
        /\ Single(queue, deferred, x) => Single(queue', deferred', x)
    BY DEF Flows
  <2>3. Single(queue, deferred, x) /\ (hand = x => ~Has(queue, x) /\ ~Has(deferred, x))
    BY DEF Apart
  <2>4. hand' = x => hand = x
    BY <2>1
  <2>. HIDE DEF x
  <2>5. Single(queue', deferred', x) /\ (hand' = x => ~Has(queue', x) /\ ~Has(deferred', x))
    BY <2>2, <2>3, <2>4
  <2>6. (Has(queue', x) \/ Has(deferred', x) \/ hand' = x) <=>
            (Has(queue, x) \/ Has(deferred, x) \/ hand = x) /\ ~(hand = x /\ hand' # hand)
    BY <2>1, <2>2, <2>3
  <2>. QED
    BY <2>5, <2>6 DEF x, Apart, Carries, Dropped
<1>3. ASSUME NEW t \in Ids, Called(t)'
      PROVE  Called(t)
  <2>1. Cancel(t) # NoItem /\ ~Has(deferred, Cancel(t))
    <3>1. Cancel(t).kind = "cancel" /\ \A x \in DItems : x.kind = "task"
      BY ItemFacts
    <3>2. \A i \in DOMAIN deferred : deferred[i] \in DItems
      BY ElementOfSeq, LenProperties DEF QueuesOK
    <3>. QED
      BY <3>1, <3>2, ItemFacts DEF Has
  <2>2. Has(queue', Cancel(t)) => Has(queue, Cancel(t))
    BY <2>1 DEF Flows
  <2>. QED
    BY <1>3, <2>1, <2>2 DEF Called
<1>. QED
  BY <1>1, <1>2, <1>3 DEF Moves

LEMMA SameFlows ==
    ASSUME QueuesOK, UNCHANGED <<queue, deferred>>
    PROVE  Flows(queue, deferred, queue', deferred')
BY DEF QueuesOK, Flows

\* A step that leaves the queues and the hand alone.
LEMMA StayMoves ==
    ASSUME QueuesOK, UNCHANGED <<queue, deferred, hand>>, pc' \in Phases, pc' = "process" <=> pc = "process"
    PROVE  Moves({})
<1>1. QueuesOK'
  BY DEF QueuesOK
<1>. QED
  BY <1>1 DEF Moves, Apart, Carries, Called

LEMMA ReleaseIs ==
    ASSUME QueuesOK, NEW S,
           queue' = Release(S, [main |-> queue, deferred |-> deferred]).main,
           deferred' = Release(S, [main |-> queue, deferred |-> deferred]).deferred
    PROVE  Flows(queue, deferred, queue', deferred')
<1>1. [main |-> queue, deferred |-> deferred] \in Deques
  BY DEF QueuesOK, Deques
<1>. QED
  BY <1>1, ReleaseFlows

LEMMA TakeMoves ==
    ASSUME QueuesOK, Take
    PROVE  Moves({})
<1>1. /\ queue \in Seq(QItems) /\ queue # <<>> /\ pc # "process" /\ hand = NoItem
      /\ hand' = Head(queue) /\ queue' = Tail(queue) /\ deferred' = deferred /\ pc' = "process"
  BY DEF Take, QueuesOK
<1>2. /\ Head(queue) \in QItems /\ Tail(queue) \in Seq(QItems)
      /\ \A x : /\ Has(queue, x) <=> Head(queue) = x \/ Has(Tail(queue), x)
                /\ Once(queue, x) => Once(Tail(queue), x) /\ ~(Head(queue) = x /\ Has(Tail(queue), x))
  BY <1>1, TailDeque
<1>3. QueuesOK'
  BY <1>1, <1>2 DEF QueuesOK, Phases
<1>4. ASSUME NEW r \in Requests
      PROVE  (Apart(r) => Apart(r)') /\ (Carries(r)' <=> Carries(r))
  <2>1. Task(Own(r)) # NoItem
    BY ItemFacts
  <2>. QED
    BY <1>1, <1>2, <2>1 DEF Apart, Carries, Single
<1>5. ASSUME NEW t \in Ids, Called(t)'
      PROVE  Called(t)
  BY <1>1, <1>2, <1>5 DEF Called
<1>. QED
  BY <1>3, <1>4, <1>5 DEF Moves

LEMMA DeferMoves ==
    ASSUME QueuesOK, \A r \in Requests : Apart(r), Defer
    PROVE  Moves({})
<1>1. /\ queue' = queue /\ deferred' = Append(deferred, hand) /\ pc = "process"
      /\ pc' = "take" /\ hand' = NoItem /\ hand \in QItems /\ hand.kind = "task"
  BY DEF Defer, Done, Processed, QueuesOK
<1>2. hand \in DItems /\ deferred \in Seq(DItems)
  BY <1>1, ItemFacts DEF QueuesOK
<1>3. /\ deferred' \in Seq(DItems)
      /\ \A x : /\ Has(deferred', x) <=> hand = x \/ Has(deferred, x)
                /\ Once(deferred, x) /\ ~(hand = x /\ Has(deferred, x)) => Once(deferred', x)
  BY <1>1, <1>2, BackDeque
<1>4. QueuesOK'
  BY <1>1, <1>3 DEF QueuesOK, Phases
<1>5. ASSUME NEW r \in Requests
      PROVE  (Apart(r) => Apart(r)') /\ (Carries(r)' <=> Carries(r))
  <2>1. Task(Own(r)) # NoItem
    BY ItemFacts
  <2>. QED
    BY <1>1, <1>3, <2>1 DEF Apart, Carries, Single
<1>6. ASSUME NEW t \in Ids, Called(t)'
      PROVE  Called(t)
  <2>1. Cancel(t) # NoItem
    BY ItemFacts
  <2>. QED
    BY <1>1, <1>6, <2>1 DEF Called
<1>. QED
  BY <1>4, <1>5, <1>6 DEF Moves

LEMMA BeginMoves ==
    ASSUME QueuesOK, UpdateBegin
    PROVE  Moves({})
<1>1. /\ queue = <<>> /\ queue' = <<NextResponse>> /\ UNCHANGED <<deferred, hand>> /\ pc = "take" /\ pc' = "gen"
  BY DEF UpdateBegin
<1>2. queue' \in Seq(QItems) /\ \A x : (Has(queue', x) <=> NextResponse = x) /\ Once(queue', x)
  BY <1>1, ItemFacts, SingleDeque
<1>3. \A x : ~Has(queue, x)
  BY <1>1, EmptyDeque
<1>4. QueuesOK'
  BY <1>1, <1>2 DEF QueuesOK, Phases
<1>5. ASSUME NEW r \in Requests
      PROVE  (Apart(r) => Apart(r)') /\ (Carries(r)' <=> Carries(r))
  <2>1. Task(Own(r)) # NextResponse
    BY ItemFacts
  <2>. QED
    BY <1>1, <1>2, <1>3, <2>1 DEF Apart, Carries, Single
<1>6. ASSUME NEW t \in Ids, Called(t)'
      PROVE  Called(t)
  <2>1. Cancel(t) # NextResponse
    BY ItemFacts
  <2>. QED
    BY <1>1, <1>2, <1>6, <2>1 DEF Called
<1>. QED
  BY <1>4, <1>5, <1>6 DEF Moves

-----------------------------------------------------------------------------
(* The slots in each step.                                                 *)

\* The tasks stay where they are.
LEMMA SameFrees ==
    ASSUME SlotsOK', Seats,
           \A s \in Slots : /\ slot'[s].id = slot[s].id
                            /\ slot'[s].state = "IDLE" <=> slot[s].state = "IDLE"
                            /\ slot'[s].state = "WAIT_OTHER" => slot[s].state = "WAIT_OTHER"
    PROVE  Frees({})
BY DEF Frees, Seats, Sits

LEMMA StayFrees ==
    ASSUME SlotsOK, Seats, UNCHANGED slot, turn' \in Slots, batch' \subseteq Slots
    PROVE  Frees({})
<1>1. SlotsOK'
  BY DEF SlotsOK
<1>. QED
  BY <1>1, SameFrees

LEMMA ReleaseFrees ==
    ASSUME SlotsOK, Seats, turn' \in Slots, batch' \subseteq Slots, NEW S \in SUBSET Slots,
           slot' = [s \in Slots |-> IF s \in S THEN Idle ELSE slot[s]]
    PROVE  Frees({slot[s].id : s \in S})
<1>1. Idle \in SlotSet /\ Idle.id = NoId /\ Idle.state = "IDLE"
  BY DEF Idle, SlotSet, SlotStates
<1>2. \A t \in Ids : t # NoId
  BY IdFacts
<1>3. \A s \in Slots : /\ s \in S => slot'[s] = Idle
                       /\ s \notin S => slot'[s] = slot[s]
  OBVIOUS
<1>4. SlotsOK'
  <2>1. slot' \in [Slots -> SlotSet]
    BY <1>1 DEF SlotsOK
  <2>. QED
    BY <2>1 DEF SlotsOK
<1>5. Seats'
  BY <1>1, <1>3 DEF Seats
<1>6. ASSUME NEW t \in Ids
      PROVE  Sits(t)' <=> Sits(t) /\ t \notin {slot[s].id : s \in S}
  BY <1>1, <1>2, <1>3 DEF Seats, Sits
<1>. QED
  BY <1>4, <1>5, <1>6 DEF Frees

\* n slots other than s: different ones, all idle.
LEMMA FreeSlotsAre ==
    ASSUME NEW n \in Nat, NEW s \in Slots, Len(FreeSlots(n, s)) = n
    PROVE  /\ \A i \in 1 .. n : FreeSlots(n, s)[i] \in IdleSlots \ {s}
           /\ \A i, j \in 1 .. n : FreeSlots(n, s)[i] = FreeSlots(n, s)[j] => i = j
<1>. DEFINE free == InOrder(IdleSlots \ {s})
            l == IF Len(free) < n THEN Len(free) ELSE n
<1>1. IdleSlots \ {s} \in SUBSET Slots
  BY DEF IdleSlots
<1>2. free \in Seq(Slots) /\ \A x : (Has(free, x) <=> x \in IdleSlots \ {s}) /\ Once(free, x)
  BY <1>1, InOrderIs
<1>3. FreeSlots(n, s) = SubSeq(free, 1, l)
  BY DEF FreeSlots
<1>. HIDE DEF free
<1>4. Len(free) \in Nat /\ DOMAIN free = 1 .. Len(free)
  BY <1>2, LenProperties
<1>5. l \in 0 .. Len(free)
  BY <1>4
<1>. HIDE DEF l
<1>6. Len(SubSeq(free, 1, l)) = l /\ \A i \in 1 .. l : SubSeq(free, 1, l)[i] = free[i]
  BY <1>2, <1>4, <1>5, SubSeqProperties
<1>7. l = n
  BY <1>3, <1>6
<1>8. \A i \in 1 .. n : i \in DOMAIN free /\ FreeSlots(n, s)[i] = free[i]
  BY <1>3, <1>4, <1>5, <1>6, <1>7
<1>. QED
  BY <1>2, <1>8 DEF Has, Once

Seat(state, t) == [state |-> state, id |-> t, n |-> 0]

\* Task r is at slot at[0] and its children at the others of at.
Placement(at, new, r) ==
    /\ at \in [0 .. Children[r] -> IdleSlots]
    /\ \A i, j \in 0 .. Children[r] : at[i] = at[j] => i = j
    /\ new = [x \in Slots |-> new[x]]
    /\ new[at[0]] = Seat("STARTED", Own(r))
    /\ \A i \in 1 .. Children[r] : new[at[i]] = Seat("WAIT_OTHER", Id(r, i))
    /\ \A x \in Slots : (\A i \in 0 .. Children[r] : at[i] # x) => new[x] = slot[x]

LEMMA LaunchedIs ==
    ASSUME NEW r \in Requests, NEW s \in IdleSlots, CanLaunch(Own(r), s)
    PROVE  \E at : Placement(at, Launched(Own(r), s, Children[r], TRUE), r)
<1>. DEFINE n == Children[r]
            free == FreeSlots(n, s)
            new == Launched(Own(r), s, n, TRUE)
            at == [i \in 0 .. n |-> IF i = 0 THEN s ELSE free[i]]
            child(i) == Seat("WAIT_OTHER", Id(r, i))
            top == Seat("STARTED", Own(r))
<1>1. n \in Nat /\ Req(Own(r)) = r
  BY IdFacts
<1>2. s \in Slots /\ IdleSlots \subseteq Slots
  BY DEF IdleSlots
<1>3. Len(free) = n
  BY <1>1 DEF CanLaunch
<1>4. /\ \A i \in 1 .. n : free[i] \in IdleSlots /\ free[i] # s
      /\ \A i, j \in 1 .. n : free[i] = free[j] => i = j
  BY <1>1, <1>2, <1>3, FreeSlotsAre
<1>5. new = [x \in Slots |-> IF x = s THEN top
                             ELSE IF \E i \in 1 .. n : free[i] = x THEN child(CHOOSE i \in 1 .. n : free[i] = x)
                             ELSE slot[x]]
  BY <1>1, Zenon DEF Launched, Seat
<1>. HIDE DEF new, free, child, top
<1>6. at \in [0 .. n -> IdleSlots] /\ at[0] = s /\ \A i \in 1 .. n : at[i] = free[i]
  BY <1>1, <1>4
<1>. HIDE DEF at
<1>7. \A i, j \in 0 .. n : at[i] = at[j] => i = j
  BY <1>1, <1>4, <1>6
<1>8. new = [x \in Slots |-> new[x]]
  BY <1>5
<1>9. new[at[0]] = top
  BY <1>2, <1>5, <1>6
<1>10. ASSUME NEW i \in 1 .. n
       PROVE  new[at[i]] = child(i)
  <2>1. free[i] \in Slots /\ free[i] # s
    BY <1>2, <1>4
  <2>2. (CHOOSE j \in 1 .. n : free[j] = free[i]) = i
    BY <1>4
  <2>3. new[free[i]] = child(CHOOSE j \in 1 .. n : free[j] = free[i])
    BY <1>5, <2>1
  <2>. QED
    BY <1>6, <2>2, <2>3
<1>11. ASSUME NEW x \in Slots, \A i \in 0 .. n : at[i] # x
       PROVE  new[x] = slot[x]
  <2>1. x # s /\ \A i \in 1 .. n : free[i] # x
    BY <1>1, <1>6, <1>11
  <2>. QED
    BY <1>5, <2>1
<1>12. Placement(at, new, r)
  BY <1>6, <1>7, <1>8, <1>9, <1>10, <1>11 DEF child, top, Placement
<1>. QED
  BY <1>12, Zenon DEF new

LEMMA SeatIs ==
    ASSUME NEW t \in Ids, NEW state \in SlotStates
    PROVE  Seat(state, t) \in SlotSet /\ Seat(state, t).id = t /\ Seat(state, t).state = state
BY DEF SlotSet, Seat

LEMMA LaunchSits ==
    ASSUME SlotsOK, Seats, NEW r \in Requests, NEW s \in IdleSlots, CanLaunch(Own(r), s),
           \A t \in IdsOf(r) : ~Sits(t),
           slot' = Launched(Own(r), s, Children[r], TRUE), UNCHANGED <<turn, batch>>
    PROVE  /\ SlotsOK' /\ Seats'
           /\ \A t \in Ids : Sits(t)' <=> Sits(t) \/ t \in IdsOf(r)
<1>0. PICK at : Placement(at, slot', r)
  BY LaunchedIs, Zenon
<1>1. /\ at \in [0 .. Children[r] -> IdleSlots]
      /\ \A i, j \in 0 .. Children[r] : at[i] = at[j] => i = j
      /\ slot' = [x \in Slots |-> slot'[x]]
      /\ slot'[at[0]] = Seat("STARTED", Own(r))
      /\ \A i \in 1 .. Children[r] : slot'[at[i]] = Seat("WAIT_OTHER", Id(r, i))
      /\ \A x \in Slots : (\A i \in 0 .. Children[r] : at[i] # x) => slot'[x] = slot[x]
  BY <1>0 DEF Placement
<1>. DEFINE n == Children[r]
<1>2. /\ n \in Nat /\ IdleSlots \subseteq Slots /\ 0 \in 0 .. n
      /\ \A i \in 0 .. n : i = 0 \/ i \in 1 .. n
      /\ \A i \in 1 .. n : i \in 0 .. n /\ i > 0
  BY IdFacts DEF IdleSlots
<1>3. /\ \A i \in 0 .. n : Id(r, i) \in Ids /\ Id(r, i) \in IdsOf(r) /\ Id(r, i) # NoId /\ Id(r, i)[2] = i
      /\ \A t \in IdsOf(r) : t[2] \in 0 .. n /\ t = Id(r, t[2])
  BY <1>2, IdFacts
<1>4. ASSUME NEW i \in 0 .. n
      PROVE  /\ at[i] \in Slots /\ slot'[at[i]].id = Id(r, i)
             /\ slot'[at[i]] \in SlotSet
             /\ slot'[at[i]].state # "IDLE"
             /\ slot'[at[i]].state = "WAIT_OTHER" => i > 0
  <2>1. at[i] \in Slots /\ Id(r, i) \in Ids
    BY <1>1, <1>2, <1>3
  <2>2. "STARTED" \in SlotStates /\ "WAIT_OTHER" \in SlotStates
    BY DEF SlotStates
  <2>3. i = 0 => slot'[at[i]] = Seat("STARTED", Id(r, i))
    BY <1>1 DEF Own
  <2>4. i # 0 => i > 0 /\ slot'[at[i]] = Seat("WAIT_OTHER", Id(r, i))
    BY <1>1, <1>2
  <2>5. \A state \in SlotStates : /\ Seat(state, Id(r, i)) \in SlotSet
                                  /\ Seat(state, Id(r, i)).id = Id(r, i)
                                  /\ Seat(state, Id(r, i)).state = state
    BY <2>1, SeatIs, Zenon
  <2>. DEFINE now == slot'[at[i]]
  <2>6. (i = 0 => now = Seat("STARTED", Id(r, i))) /\ (i # 0 => i > 0 /\ now = Seat("WAIT_OTHER", Id(r, i)))
    BY <2>3, <2>4, Zenon
  <2>. HIDE DEF now, n
  <2>7. now.id = Id(r, i) /\ now \in SlotSet /\ now.state # "IDLE" /\ (now.state = "WAIT_OTHER" => i > 0)
    <3>1. CASE i = 0
      <4>1. now = Seat("STARTED", Id(r, i)) /\ Seat("STARTED", Id(r, i)).state = "STARTED"
        BY <2>2, <2>5, <2>6, <3>1, Zenon
      <4>. QED
        BY <2>2, <2>5, <4>1
    <3>2. CASE i # 0
      <4>1. now = Seat("WAIT_OTHER", Id(r, i)) /\ Seat("WAIT_OTHER", Id(r, i)).state = "WAIT_OTHER" /\ i > 0
        BY <2>2, <2>5, <2>6, <3>2, Zenon
      <4>. QED
        BY <2>2, <2>5, <4>1
    <3>. QED
      BY <3>1, <3>2
  <2>. QED
    BY <2>1, <2>7 DEF now
<1>5. ASSUME NEW x \in Slots
      PROVE  \/ \E i \in 0 .. n : /\ at[i] = x /\ slot'[x].id = Id(r, i)
                                  /\ slot'[x] \in SlotSet /\ slot'[x].state # "IDLE"
                                  /\ slot'[x].state = "WAIT_OTHER" => i > 0
             \/ slot'[x] = slot[x] /\ slot[x].id \notin IdsOf(r)
  <2>1. CASE \A i \in 0 .. n : at[i] # x
    BY <1>1, <2>1 DEF Sits
  <2>2. ASSUME NEW i \in 0 .. n, at[i] = x
        PROVE  /\ slot'[x].id = Id(r, i) /\ slot'[x] \in SlotSet /\ slot'[x].state # "IDLE"
               /\ slot'[x].state = "WAIT_OTHER" => i > 0
    BY <1>4, <2>2
  <2>. QED
    BY <2>1, <2>2
<1>6. \A i \in 0 .. n : slot[at[i]].id = NoId
  BY <1>1 DEF IdleSlots, Processing, Seats
<1>7. SlotsOK'
  <2>1. ASSUME NEW x \in Slots
        PROVE  slot'[x] \in SlotSet
    BY <1>5 DEF SlotsOK
  <2>2. slot' \in [Slots -> SlotSet]
    BY <1>1, <2>1
  <2>. QED
    BY <2>2 DEF SlotsOK
<1>8. Seats'
  <2>1. ASSUME NEW x \in Slots
        PROVE  /\ slot'[x].state = "IDLE" <=> slot'[x].id = NoId
               /\ slot'[x].state = "WAIT_OTHER" => slot'[x].id[2] > 0
    <3>1. ASSUME NEW i \in 0 .. n, slot'[x].id = Id(r, i), slot'[x].state # "IDLE",
                 slot'[x].state = "WAIT_OTHER" => i > 0
          PROVE  /\ slot'[x].state = "IDLE" <=> slot'[x].id = NoId
                 /\ slot'[x].state = "WAIT_OTHER" => slot'[x].id[2] > 0
      BY <1>3, <3>1
    <3>2. CASE slot'[x] = slot[x]
      BY <3>2 DEF Seats
    <3>. QED
      BY <1>5, <3>1, <3>2
  <2>2. ASSUME NEW x \in Slots, NEW y \in Slots, slot'[x].id = slot'[y].id, slot'[x].id # NoId
        PROVE  x = y
    <3>1. ASSUME NEW i \in 0 .. n, NEW j \in 0 .. n, at[i] = x, at[j] = y,
                 slot'[x].id = Id(r, i), slot'[y].id = Id(r, j)
          PROVE  x = y
      <4>1. Id(r, i) = Id(r, j) /\ Id(r, i)[2] = i /\ Id(r, j)[2] = j
        BY <1>3, <2>2, <3>1, Zenon
      <4>. QED
        BY <3>1, <4>1
    <3>2. ASSUME NEW i \in 0 .. n, NEW z \in Slots, slot'[z] = slot[z], slot[z].id \notin IdsOf(r),
                 slot'[z].id = Id(r, i)
          PROVE  FALSE
      BY <1>3, <3>2
    <3>3. CASE slot'[x] = slot[x] /\ slot'[y] = slot[y]
      BY <2>2, <3>3 DEF Seats
    <3>. QED
      BY <1>5, <2>2, <3>1, <3>2, <3>3
  <2>. QED
    BY <2>1, <2>2 DEF Seats
<1>9. ASSUME NEW t \in Ids
      PROVE  Sits(t)' <=> Sits(t) \/ t \in IdsOf(r)
  <2>1. ASSUME NEW x \in Slots, slot'[x].id = t
        PROVE  Sits(t) \/ t \in IdsOf(r)
    <3>1. ASSUME NEW i \in 0 .. n, slot'[x].id = Id(r, i)
          PROVE  t \in IdsOf(r)
      BY <1>3, <2>1, <3>1
    <3>. QED
      BY <1>5, <2>1, <3>1 DEF Sits
  <2>2. ASSUME NEW x \in Slots, slot[x].id = t
        PROVE  Sits(t)'
    <3>1. t # NoId
      BY IdFacts
    <3>2. slot'[x] = slot[x]
      BY <1>5, <1>6, <2>2, <3>1
    <3>. QED
      BY <2>2, <3>2 DEF Sits
  <2>3. ASSUME t \in IdsOf(r)
        PROVE  Sits(t)'
    <3>1. t[2] \in 0 .. n /\ t = Id(r, t[2])
      BY <1>3, <2>3
    <3>2. at[t[2]] \in Slots /\ slot'[at[t[2]]].id = t
      BY <1>4, <3>1
    <3>. QED
      BY <3>2 DEF Sits
  <2>. QED
    BY <2>1, <2>2, <2>3 DEF Sits
<1>. QED
  BY <1>7, <1>8, <1>9

-----------------------------------------------------------------------------
(* What sending does.                                                      *)

LEMMA SendSays ==
    ASSUME RepliesOK, Heard, NEW kind \in {"partial", "final", "error"}, NEW ts \in Seq(Ids),
           \A t : Once(ts, t),
           \A t \in Range(ts) : answers[t] = <<>> /\ reader[Req(t)].pc # "new",
           Send(kind, ts), UNCHANGED <<reader, waiting>>
    PROVE  Says(Range(ts), kind)
<1>. DEFINE heard == Keep(ts, waiting)
            sent == [i \in DOMAIN heard |-> [kind |-> kind, id |-> heard[i]]]
<1>1. results' = results \o sent
  BY DEF Send
<1>2. heard \in Seq(Ids) /\ \A t : (Has(heard, t) <=> Has(ts, t) /\ t \in waiting) /\ Once(heard, t)
  BY KeepDeque
<1>. HIDE DEF heard
<1>3. /\ Len(heard) \in Nat /\ DOMAIN heard = 1 .. Len(heard) /\ DOMAIN sent = 1 .. Len(heard)
      /\ \A i \in DOMAIN heard : heard[i] \in Ids
  BY <1>2, LenProperties, ElementOfSeq
<1>4. ASSUME NEW i \in DOMAIN sent
      PROVE  sent[i] \in Replies /\ sent[i].id = heard[i] /\ sent[i].kind = kind /\ i \in DOMAIN heard
  BY <1>3 DEF Replies
<1>5. sent \in Seq(Replies)
  BY <1>3, <1>4
<1>6. DOMAIN sent = DOMAIN heard
  BY <1>3
<1>. HIDE DEF sent
<1>7. ASSUME NEW x \in Replies
      PROVE  Has(sent, x) <=> x.id \in Range(ts) \cap waiting /\ x.kind = kind
  <2>1. x = [kind |-> x.kind, id |-> x.id]
    BY DEF Replies
  <2>2. Has(sent, x) => Has(heard, x.id) /\ x.kind = kind
    BY <1>4 DEF Has
  <2>3. ASSUME NEW i \in DOMAIN heard, heard[i] = x.id, x.kind = kind
        PROVE  sent[i] = x
    <3>1. i \in DOMAIN sent /\ sent[i] \in Replies /\ sent[i].id = x.id /\ sent[i].kind = x.kind
      BY <1>4, <1>6, <2>3
    <3>2. sent[i] = [kind |-> sent[i].kind, id |-> sent[i].id]
      BY <3>1 DEF Replies
    <3>. QED
      BY <2>1, <3>1, <3>2
  <2>4. Has(heard, x.id) /\ x.kind = kind => Has(sent, x)
    BY <1>6, <2>3 DEF Has
  <2>. QED
    BY <1>2, <2>2, <2>4, HasRange
<1>8. Ordered(sent)
  <2>1. SUFFICES ASSUME NEW i \in DOMAIN sent, NEW j \in DOMAIN sent, i < j, sent[i].id = sent[j].id
                 PROVE  FALSE
    BY DEF Ordered
  <2>2. i = j
    BY <1>2, <1>4, <2>1, ZenonT(30) DEF Once
  <2>. QED
    BY <1>3, <1>6, <2>1, <2>2
<1>9. ASSUME NEW i \in DOMAIN results, NEW j \in DOMAIN sent, results[i].id = sent[j].id
      PROVE  results[i].kind = "partial"
  <2>1. results[i] \in Replies /\ Has(results, results[i])
    BY ElementOfSeq, LenProperties DEF RepliesOK, Has
  <2>2. results[i].id \in Range(ts)
    BY <1>4, <1>7, <1>9 DEF Has
  <2>3. answers[results[i].id] = <<>>
    BY <2>2
  <2>4. <<results[i].kind>> # <<>>
    OBVIOUS
  <2>. QED
    BY <2>1, <2>3, <2>4 DEF Heard
<1>10. /\ results' \in Seq(Replies) /\ Ordered(results')
       /\ \A x : Has(results', x) <=> Has(results, x) \/ Has(sent, x)
  BY <1>1, <1>5, <1>8, <1>9, ConcatDeque DEF RepliesOK, Heard
<1>11. Range(ts) \subseteq Ids
  BY ElementOfSeq, LenProperties DEF Range
<1>. QED
  BY <1>7, <1>10, <1>11 DEF Says

LEMMA SendAnswers ==
    ASSUME RepliesOK, Heard, NEW kind \in {"final", "error"}, NEW ts \in Seq(Ids),
           \A t : Once(ts, t),
           \A t \in Range(ts) : answers[t] = <<>> /\ reader[Req(t)].pc # "new",
           Send(kind, ts), UNCHANGED <<reader, waiting>>
    PROVE  Answers(Range(ts), kind)
<1>1. Says(Range(ts), kind)
  BY SendSays
<1>2. answers' = [t \in Ids |-> IF t \in Range(ts) THEN Append(answers[t], kind) ELSE answers[t]]
  BY DEF Send
<1>3. \A t \in Range(ts) : Append(answers[t], kind) = <<kind>>
  <2>1. Append(<<>>, kind) = <<kind>>
    BY AppendIsConcat
  <2>. QED
    BY <2>1
<1>4. answers' = [t \in Ids |-> IF t \in Range(ts) THEN <<kind>> ELSE answers[t]]
  BY <1>2, <1>3
<1>. QED
  BY <1>1, <1>4 DEF Answers

LEMMA SilentSays ==
    ASSUME RepliesOK, Heard, UNCHANGED <<results, reader, waiting>>
    PROVE  Says({}, "partial")
BY DEF RepliesOK, Heard, Says

-----------------------------------------------------------------------------
(* The invariant is kept by each kind of step.                             *)

LEMMA InvParts ==
    ASSUME Inv
    PROVE  /\ QueuesOK /\ SlotsOK /\ RepliesOK /\ Seats /\ Heard /\ Cancelled
           /\ \A r \in Requests : Apart(r) /\ Placed(r) /\ Counted(r)
BY DEF Inv, Typed, Placed

LEMMA IdsOfFinite ==
    ASSUME NEW r \in Requests
    PROVE  /\ IsFiniteSet(IdsOf(r)) /\ Cardinality(IdsOf(r)) \in Nat
           /\ \A T \in SUBSET IdsOf(r) : IsFiniteSet(T) /\ Cardinality(T) \in Nat /\ Cardinality(T) <= Cardinality(IdsOf(r))
<1>. DEFINE n == Children[r]
            f == [i \in 0 .. n |-> Id(r, i)]
<1>1. n \in Nat
  BY IdFacts
<1>2. IsFiniteSet(0 .. n)
  BY <1>1, FS_Interval
<1>3. f \in Surjection(0 .. n, IdsOf(r))
  BY DEF Surjection, IdsOf
<1>. HIDE DEF f
<1>4. IsFiniteSet(IdsOf(r))
  BY <1>2, <1>3, FS_Surjection
<1>. QED
  BY <1>4, FS_Subset, FS_CardinalityType

Balance(r, due, told, T, n) ==
    /\ due \in SUBSET IdsOf(r) /\ told \in SUBSET IdsOf(r) /\ due \subseteq told
    /\ T \in SUBSET IdsOf(r) /\ T \cap told = {} /\ n + Cardinality(due) = Cardinality(told)

\* What is told to a reader grows by the tasks of T, and so does what is due.
LEMMA CountMore ==
    ASSUME NEW r \in Requests, NEW due, NEW told, NEW T, NEW n \in Nat, Balance(r, due, told, T, n)
    PROVE  n + Cardinality(due \cup T) = Cardinality(told \cup T)
<1>0. /\ due \in SUBSET IdsOf(r) /\ told \in SUBSET IdsOf(r) /\ due \subseteq told
      /\ T \in SUBSET IdsOf(r) /\ T \cap told = {} /\ n + Cardinality(due) = Cardinality(told)
  BY DEF Balance
<1>1. /\ IsFiniteSet(due) /\ IsFiniteSet(told) /\ IsFiniteSet(T)
      /\ Cardinality(due) \in Nat /\ Cardinality(told) \in Nat /\ Cardinality(T) \in Nat
  BY <1>0, IdsOfFinite
<1>2. due \cap T = {} /\ Cardinality({}) = 0
  BY <1>0, FS_EmptySet
<1>3. Cardinality(due \cup T) = Cardinality(due) + Cardinality(T) - Cardinality(due \cap T)
  BY <1>1, FS_Union
<1>4. Cardinality(told \cup T) = Cardinality(told) + Cardinality(T) - Cardinality(told \cap T)
  BY <1>1, FS_Union
<1>5. told \cap T = {}
  BY <1>0
<1>6. Cardinality(due \cap T) = 0 /\ Cardinality(told \cap T) = 0
  BY <1>2, <1>5
<1>7. Cardinality(due \cup T) = Cardinality(due) + Cardinality(T)
  BY <1>1, <1>3, <1>6
<1>8. Cardinality(told \cup T) = Cardinality(told) + Cardinality(T)
  BY <1>1, <1>4, <1>6
<1>. QED
  BY <1>0, <1>1, <1>7, <1>8

LEMMA AnsweredIs ==
    ASSUME RepliesOK, NEW T \in SUBSET Ids, NEW kind \in {"final", "error"},
           answers' = [t \in Ids |-> IF t \in T THEN <<kind>> ELSE answers[t]]
    PROVE  /\ answers' \in [Ids -> Seq({"final", "error"})]
           /\ \A t \in T : answers'[t] = <<kind>> /\ answers'[t] # <<>>
           /\ \A t \in Ids \ T : answers'[t] = answers[t]
<1>1. <<kind>> \in Seq({"final", "error"}) /\ <<kind>> # <<>>
  OBVIOUS
<1>. QED
  BY <1>1 DEF RepliesOK

\* Who hears of it: a verdict is said of the tasks of T that are waited for.
LEMMA SaidMore ==
    ASSUME RepliesOK, NEW T, NEW kind \in {"partial", "final", "error"}, Says(T, kind), NEW t \in Ids
    PROVE  Said(t)' <=> Said(t) \/ (t \in T \cap waiting /\ kind # "partial")
<1>1. \A x \in Replies : Has(results', x) <=> Has(results, x) \/ (x.id \in T \cap waiting /\ x.kind = kind)
  BY DEF Says
<1>2. ASSUME t \in T \cap waiting, kind # "partial"
      PROVE  Said(t)'
  <2>. DEFINE x == [kind |-> kind, id |-> t]
  <2>1. x \in Replies /\ x.id = t /\ x.kind = kind
    BY DEF Replies
  <2>. HIDE DEF x
  <2>. QED
    BY <1>1, <1>2, <2>1 DEF Said
<1>3. Said(t) => Said(t)'
  BY <1>1 DEF Said
<1>4. Said(t)' => Said(t) \/ (t \in T \cap waiting /\ kind # "partial")
  BY <1>1 DEF Said
<1>. QED
  BY <1>2, <1>3, <1>4


LEMMA ErrorNow ==
    ASSUME NEW r \in Requests, NEW t \in IdsOf(r), Has(results', [kind |-> "error", id |-> t])
    PROVE  ErrorPending(r)'
BY DEF Has, ErrorPending, PendingFor

LEMMA ErrorStays ==
    ASSUME RepliesOK, NEW r \in Requests, ErrorPending(r), NEW T, NEW kind, Says(T, kind)
    PROVE  ErrorPending(r)'
<1>1. PICK t \in IdsOf(r) : Has(results, [kind |-> "error", id |-> t])
  BY ErrorIs
<1>2. [kind |-> "error", id |-> t] \in Replies
  BY IdFacts DEF Replies
<1>3. Has(results', [kind |-> "error", id |-> t])
  BY <1>1, <1>2 DEF Says
<1>. QED
  BY <1>3, ErrorNow

\* No task is answered: partial results at most.
LEMMA QuietStep ==
    ASSUME Inv, NEW T, NEW F, Moves({}), Frees(F), Says(T, "partial"), UNCHANGED answers,
           \A t \in Ids : t \in F => Gone(Req(t))
    PROVE  Inv'
<1>1. /\ results' \in Seq(Replies) /\ Ordered(results') /\ UNCHANGED <<reader, waiting>>
      /\ \A t \in T : t \in Ids /\ answers[t] = <<>>
      /\ \A x \in Replies : Has(results', x) <=> Has(results, x) \/ (x.id \in T \cap waiting /\ x.kind = "partial")
  BY DEF Says
<1>2. RepliesOK
  BY DEF Inv, Typed
<1>3. Typed'
  BY <1>1, <1>2 DEF Typed, RepliesOK, Moves, Frees
<1>4. Seats'
  BY DEF Frees
<1>5. Cancelled'
  BY <1>1 DEF Inv, Cancelled, Moves, Gone
<1>6. \A t \in Ids : Said(t)' <=> Said(t)
  BY <1>2, SaidMore
<1>7. Heard'
  <2>1. \A t \in Ids : (t \in waiting)' <=> Reading(Req(t))'
    BY <1>1 DEF Inv, Heard, Reading
  <2>2. ASSUME NEW x \in Replies, Has(results', x)
        PROVE  /\ Reading(Req(x.id))' /\ (x.kind # "partial" => answers'[x.id] = <<x.kind>>)
               /\ answers'[x.id] # <<>> => Said(x.id)'
    <3>1. x.id \in Ids
      BY DEF Replies
    <3>2. CASE Has(results, x)
      BY <1>1, <1>6, <3>1, <3>2 DEF Inv, Heard, Reading
    <3>3. CASE x.id \in T \cap waiting /\ x.kind = "partial"
      BY <1>1, <3>1, <3>3 DEF Inv, Heard, Reading
    <3>. QED
      BY <1>1, <2>2, <3>2, <3>3
  <2>3. ASSUME NEW t \in Ids
        PROVE  /\ answers'[t] \in {<<>>, <<"final">>, <<"error">>}
               /\ Reading(Req(t))' /\ answers'[t] = <<"error">> => Has(results', [kind |-> "error", id |-> t])
    <3>1. [kind |-> "error", id |-> t] \in Replies
      BY DEF Replies
    <3>. QED
      BY <1>1, <3>1 DEF Inv, Heard, Reading
  <2>. QED
    BY <1>1, <2>1, <2>2, <2>3 DEF Heard
<1>8. ASSUME NEW r \in Requests
      PROVE  Placed(r)'
  <2>1. IdsOf(r) \subseteq Ids /\ \A t \in IdsOf(r) : Req(t) = r
    BY IdFacts
  <2>2. Placed(r)
    BY DEF Inv
  <2>3. Apart(r)' /\ (Carries(r)' <=> Carries(r))
    BY <2>2 DEF Placed, Moves
  <2>4. \A t \in IdsOf(r) : Sits(t)' => Sits(t)
    BY <2>1 DEF Frees
  <2>5. Carries(r)' => reader'[r].pc # "new" /\ \A t \in IdsOf(r) : ~Sits(t)' /\ answers'[t] = <<>>
    BY <1>1, <2>2, <2>3, <2>4 DEF Placed
  <2>6. \A t \in IdsOf(r) : Sits(t)' => answers'[t] = <<>> /\ reader'[r].pc # "new"
    BY <1>1, <2>2, <2>4 DEF Placed
  <2>7. reader'[r].pc = "new" => \A t \in IdsOf(r) : answers'[t] = <<>>
    BY <1>1, <2>2 DEF Placed
  <2>8. ASSUME Reading(r)'
        PROVE  ErrorPending(r)' \/ \A t \in IdsOf(r) : Carries(r)' \/ Sits(t)' \/ answers'[t] # <<>>
    <3>1. Reading(r) /\ ~Gone(r)
      BY <1>1, <2>8 DEF Reading, Gone
    <3>2. \A t \in IdsOf(r) : Sits(t) => Sits(t)'
      BY <2>1, <3>1 DEF Frees
    <3>3. CASE ErrorPending(r)
      BY <1>2, <3>3, ErrorStays
    <3>4. CASE \A t \in IdsOf(r) : Carries(r) \/ Sits(t) \/ answers[t] # <<>>
      BY <1>1, <2>3, <3>2, <3>4
    <3>. QED
      BY <2>2, <3>1, <3>3, <3>4 DEF Placed
  <2>. QED
    BY <2>3, <2>5, <2>6, <2>7, <2>8 DEF Placed
<1>9. ASSUME NEW r \in Requests
      PROVE  Counted(r)'
  <2>1. IdsOf(r) \subseteq Ids
    BY IdFacts
  <2>2. Due(r)' = Due(r) /\ Told(r)' = Told(r)
    BY <1>6, <2>1 DEF Due, Told
  <2>3. Counted(r)
    BY DEF Inv
  <2>. QED
    BY <1>1, <2>2, <2>3 DEF Counted, Reading
<1>. QED
  BY <1>3, <1>4, <1>5, <1>7, <1>8, <1>9 DEF Inv


\* An answer counts where it is due: the counter of a reader stays right.
LEMMA CountStep ==
    ASSUME RepliesOK, Heard, NEW r \in Requests, Counted(r),
           NEW T, NEW kind \in {"final", "error"}, Answers(T, kind)
    PROVE  Counted(r)'
<1>1. IdsOf(r) \subseteq Ids /\ \A t \in IdsOf(r) : Req(t) = r
  BY IdFacts
<1>2. T \subseteq Ids /\ reader' = reader /\ \A t \in T : answers[t] = <<>>
  BY DEF Answers, Says
<1>3. \A t \in Ids : Said(t)' <=> Said(t) \/ t \in T \cap waiting
  BY SaidMore DEF Answers
<1>4. /\ \A t \in T : answers'[t] # <<>>
      /\ \A t \in Ids \ T : answers'[t] = answers[t]
  BY <1>2, AnsweredIs DEF Answers
<1>5. ASSUME Reading(r)
      PROVE  reader[r].received + Cardinality(Due(r)') = Cardinality(Told(r)')
  <2>. DEFINE U == T \cap IdsOf(r)
  <2>1. \A t \in IdsOf(r) : t \in waiting
    BY <1>1, <1>5 DEF Heard
  <2>2. Due(r)' = Due(r) \cup U
    BY <1>3, <1>1, <2>1 DEF Due
  <2>3. Told(r)' = Told(r) \cup U
    BY <1>1, <1>4 DEF Told
  <2>4. Due(r) \subseteq Told(r)
    <3>1. ASSUME NEW t \in IdsOf(r), Said(t)
          PROVE  answers[t] # <<>>
      <4>1. PICK x \in Replies : Has(results, x) /\ x.id = t /\ x.kind # "partial"
        BY <3>1 DEF Said
      <4>2. answers[t] = <<x.kind>> /\ <<x.kind>> # <<>>
        BY <4>1 DEF Heard
      <4>. QED
        BY <4>2
    <3>. QED
      BY <3>1 DEF Due, Told
  <2>5. U \cap Told(r) = {}
    BY <1>2 DEF Told
  <2>6. reader[r].received \in Nat
    BY DEF RepliesOK, Readers
  <2>7. /\ Due(r) \in SUBSET IdsOf(r) /\ Told(r) \in SUBSET IdsOf(r) /\ U \in SUBSET IdsOf(r)
        /\ reader[r].received + Cardinality(Due(r)) = Cardinality(Told(r))
    BY <1>5 DEF Due, Told, Counted
  <2>. DEFINE due == Due(r)
              told == Told(r)
              n == reader[r].received
  <2>8. n \in Nat /\ Balance(r, due, told, U, n)
    BY <2>4, <2>5, <2>6, <2>7 DEF Balance
  <2>9. Due(r)' = due \cup U /\ Told(r)' = told \cup U
    BY <2>2, <2>3
  <2>. HIDE DEF U, due, told, n
  <2>10. n + Cardinality(due \cup U) = Cardinality(told \cup U)
    BY <2>8, CountMore
  <2>. QED
    BY <2>9, <2>10 DEF n
<1>. QED
  BY <1>2, <1>5 DEF Counted, Reading

\* The tasks of T are answered, and are nowhere after the step; the requests of R leave
\* the queue, the tasks of F their slots.
Settles(R, T, F, kind) ==
    /\ kind \in {"final", "error"} /\ Moves(R) /\ Frees(F) /\ Answers(T, kind)
    /\ F \cap Ids \subseteq T
    /\ \A t \in T : ~Sits(t)' /\ ~Carries(Req(t))'
    /\ \A r \in R : IdsOf(r) \subseteq T \/ (kind = "error" /\ T \cap IdsOf(r) # {})

LEMMA AnswerStep ==
    ASSUME Inv, NEW R, NEW T, NEW F, NEW kind, Settles(R, T, F, kind)
    PROVE  Inv'
<1>. /\ kind \in {"final", "error"} /\ Moves(R) /\ Frees(F) /\ Answers(T, kind)
     /\ F \cap Ids \subseteq T
     /\ \A t \in T : ~Sits(t)' /\ ~Carries(Req(t))'
     /\ \A r \in R : IdsOf(r) \subseteq T \/ (kind = "error" /\ T \cap IdsOf(r) # {})
  BY DEF Settles
<1>1. /\ results' \in Seq(Replies) /\ Ordered(results') /\ UNCHANGED <<reader, waiting>>
      /\ T \subseteq Ids /\ \A t \in T : answers[t] = <<>> /\ reader[Req(t)].pc # "new"
      /\ \A x \in Replies : Has(results', x) <=> Has(results, x) \/ (x.id \in T \cap waiting /\ x.kind = kind)
      /\ answers' = [t \in Ids |-> IF t \in T THEN <<kind>> ELSE answers[t]]
      /\ Says(T, kind)
  BY DEF Says, Answers
<1>2. RepliesOK
  BY DEF Inv, Typed
<1>3. /\ answers' \in [Ids -> Seq({"final", "error"})]
      /\ \A t \in T : answers'[t] = <<kind>> /\ answers'[t] # <<>>
      /\ \A t \in Ids \ T : answers'[t] = answers[t]
  BY <1>1, <1>2, AnsweredIs
<1>4. Typed'
  BY <1>1, <1>2, <1>3 DEF Typed, RepliesOK, Moves, Frees
<1>5. Seats'
  BY DEF Frees
<1>6. Cancelled'
  BY <1>1 DEF Inv, Cancelled, Moves, Gone
<1>7. \A t \in Ids : Said(t)' <=> Said(t) \/ t \in T \cap waiting
  BY <1>1, <1>2, SaidMore
<1>8. Heard'
  <2>1. \A t \in Ids : (t \in waiting)' <=> Reading(Req(t))'
    BY <1>1 DEF Inv, Heard, Reading
  <2>2. ASSUME NEW x \in Replies, Has(results', x)
        PROVE  /\ Reading(Req(x.id))' /\ (x.kind # "partial" => answers'[x.id] = <<x.kind>>)
               /\ answers'[x.id] # <<>> => Said(x.id)'
    <3>1. x.id \in Ids
      BY DEF Replies
    <3>2. CASE Has(results, x)
      <4>1. /\ Reading(Req(x.id)) /\ (x.kind # "partial" => answers[x.id] = <<x.kind>>)
            /\ answers[x.id] # <<>> => Said(x.id)
        BY <3>2 DEF Inv, Heard
      <4>2. Reading(Req(x.id))' /\ x.id \in waiting
        BY <1>1, <3>1, <4>1 DEF Inv, Heard, Reading
      <4>3. CASE x.id \in T
        <5>1. x.kind = "partial"
          <6>1. answers[x.id] = <<>> /\ <<x.kind>> # <<>>
            BY <1>1, <4>3
          <6>. QED
            BY <4>1, <6>1
        <5>. QED
          BY <1>7, <3>1, <4>2, <4>3, <5>1
      <4>4. CASE x.id \notin T
        BY <1>3, <1>7, <3>1, <4>1, <4>2, <4>4
      <4>. QED
        BY <4>3, <4>4
    <3>3. CASE x.id \in T \cap waiting /\ x.kind = kind
      BY <1>1, <1>3, <1>7, <3>1, <3>3 DEF Inv, Heard, Reading
    <3>. QED
      BY <1>1, <2>2, <3>2, <3>3
  <2>3. ASSUME NEW t \in Ids
        PROVE  /\ answers'[t] \in {<<>>, <<"final">>, <<"error">>}
               /\ Reading(Req(t))' /\ answers'[t] = <<"error">> => Has(results', [kind |-> "error", id |-> t])
    <3>. DEFINE x == [kind |-> "error", id |-> t]
    <3>1. x \in Replies /\ x.kind = "error" /\ x.id = t
      BY DEF Replies
    <3>. HIDE DEF x
    <3>2. CASE t \in T
      <4>1. answers'[t] = <<kind>>
        BY <1>3, <3>2
      <4>2. <<kind>> = <<"error">> => kind = "error"
        OBVIOUS
      <4>3. Reading(Req(t))' => t \in waiting
        BY <1>1 DEF Inv, Heard, Reading
      <4>4. kind = "error" /\ t \in waiting => Has(results', x)
        BY <1>1, <3>1, <3>2
      <4>. QED
        BY <4>1, <4>2, <4>3, <4>4 DEF x
    <3>3. CASE t \notin T
      <4>1. /\ answers[t] \in {<<>>, <<"final">>, <<"error">>}
            /\ Reading(Req(t)) /\ answers[t] = <<"error">> => Has(results, x)
        BY DEF Inv, Heard, x
      <4>2. answers'[t] = answers[t]
        BY <1>3, <3>3
      <4>. QED
        BY <1>1, <3>1, <4>1, <4>2 DEF Reading, x
    <3>. QED
      BY <3>2, <3>3
  <2>. QED
    BY <1>1, <2>1, <2>2, <2>3 DEF Heard
<1>9. ASSUME NEW r \in Requests
      PROVE  Placed(r)'
  <2>1. IdsOf(r) \subseteq Ids /\ \A t \in IdsOf(r) : Req(t) = r
    BY IdFacts
  <2>2. Placed(r)
    BY DEF Inv
  <2>3. Apart(r)' /\ (Carries(r)' <=> Carries(r) /\ r \notin R)
    BY <2>2 DEF Placed, Moves
  <2>4. \A t \in IdsOf(r) : (Sits(t)' <=> Sits(t) /\ t \notin F) /\ (t \in F => t \in T)
    BY <2>1 DEF Frees
  <2>5. Carries(r)' => reader'[r].pc # "new" /\ \A t \in IdsOf(r) : ~Sits(t)' /\ answers'[t] = <<>>
    <3>1. SUFFICES ASSUME Carries(r)', NEW t \in IdsOf(r)
                   PROVE  reader'[r].pc # "new" /\ ~Sits(t)' /\ answers'[t] = <<>>
      BY <1>1, <2>2, <2>3 DEF Placed
    <3>2. t \notin T
      BY <2>1, <3>1
    <3>. QED
      BY <1>1, <1>3, <2>1, <2>2, <2>3, <2>4, <3>1, <3>2 DEF Placed
  <2>6. \A t \in IdsOf(r) : Sits(t)' => answers'[t] = <<>> /\ reader'[r].pc # "new"
    <3>1. SUFFICES ASSUME NEW t \in IdsOf(r), Sits(t)'
                   PROVE  answers'[t] = <<>> /\ reader'[r].pc # "new"
      OBVIOUS
    <3>2. t \notin T
      BY <3>1
    <3>. QED
      BY <1>1, <1>3, <2>1, <2>2, <2>4, <3>1, <3>2 DEF Placed
  <2>7. reader'[r].pc = "new" => \A t \in IdsOf(r) : answers'[t] = <<>>
    BY <1>1, <1>3, <2>1, <2>2 DEF Placed
  <2>8. ASSUME Reading(r)'
        PROVE  ErrorPending(r)' \/ \A t \in IdsOf(r) : Carries(r)' \/ Sits(t)' \/ answers'[t] # <<>>
    <3>1. Reading(r) /\ \A t \in IdsOf(r) : t \in waiting
      BY <1>1, <2>1, <2>8 DEF Reading, Inv, Heard
    <3>2. CASE ErrorPending(r)
      BY <1>1, <1>2, <3>2, ErrorStays
    <3>3. CASE r \in R /\ ~(IdsOf(r) \subseteq T)
      <4>1. PICK t \in T \cap IdsOf(r) : kind = "error"
        BY <3>3
      <4>2. [kind |-> "error", id |-> t] \in Replies
        BY <2>1 DEF Replies
      <4>3. Has(results', [kind |-> "error", id |-> t])
        BY <1>1, <3>1, <4>1, <4>2
      <4>. QED
        BY <4>1, <4>3, ErrorNow
    <3>4. CASE /\ \A t \in IdsOf(r) : Carries(r) \/ Sits(t) \/ answers[t] # <<>>
               /\ r \notin R \/ IdsOf(r) \subseteq T
      BY <1>3, <2>1, <2>3, <2>4, <3>4
    <3>. QED
      BY <2>2, <3>1, <3>2, <3>3, <3>4 DEF Placed
  <2>. QED
    BY <2>3, <2>5, <2>6, <2>7, <2>8 DEF Placed
<1>10. \A r \in Requests : Counted(r)'
  BY InvParts, CountStep
<1>. QED
  BY <1>4, <1>5, <1>6, <1>8, <1>9, <1>10 DEF Inv

-----------------------------------------------------------------------------
(* The main thread's actions on a task.                                    *)

\* A task in hand is that of a request on its way to the slots.
LEMMA HandIs ==
    ASSUME Inv, Processed("task")
    PROVE  /\ Req(hand.id) \in Requests /\ hand.id = Own(Req(hand.id)) /\ hand = Task(Own(Req(hand.id)))
           /\ reader[Req(hand.id)].pc # "new" /\ Carries(Req(hand.id))
           /\ \A t \in IdsOf(Req(hand.id)) : t \in Ids /\ Req(t) = Req(hand.id) /\ ~Sits(t) /\ answers[t] = <<>>
<1>1. hand \in QItems /\ hand.kind = "task"
  BY InvParts DEF Processed, QueuesOK
<1>2. hand \in DItems
  BY <1>1, ItemFacts
<1>3. PICK r \in Requests : hand = Task(Own(r))
  BY <1>2 DEF DItems
<1>4. hand.id = Own(r) /\ Req(hand.id) = r
  BY <1>3, ItemFacts, IdFacts
<1>5. Carries(r)
  BY <1>3 DEF Carries
<1>6. Placed(r) /\ \A t \in IdsOf(r) : t \in Ids /\ Req(t) = r
  BY InvParts, IdFacts
<1>. QED
  BY <1>3, <1>4, <1>5, <1>6 DEF Placed

LEMMA DoneMoves ==
    ASSUME Inv, Processed("task"), Done, Flows(queue, deferred, queue', deferred')
    PROVE  Moves({Req(hand.id)})
<1>1. Req(hand.id) \in Requests /\ hand = Task(Own(Req(hand.id))) /\ hand # NoItem
  BY HandIs, ItemFacts
<1>2. hand' = NoItem /\ pc' = "take" /\ pc' \in Phases /\ pc' # "process"
  BY DEF Done, Phases
<1>3. Dropped = {Req(hand.id)}
  BY <1>1, <1>2, ItemFacts DEF Dropped
<1>4. Moves(Dropped)
  BY <1>2, InvParts, FlowMoves
<1>. QED
  BY <1>3, <1>4

\* A step that takes no task out of the hand.
LEMMA OtherMoves ==
    ASSUME Inv, Flows(queue, deferred, queue', deferred'), pc' \in Phases \ {"process"},
           IF pc = "process" THEN hand.kind # "task" /\ hand' = NoItem ELSE hand' = hand
    PROVE  Moves({})
<1>1. hand' = NoItem
  BY InvParts DEF QueuesOK
<1>2. \A r \in Requests : hand = Task(Own(r)) => hand' = hand
  BY <1>1, InvParts, ItemFacts DEF QueuesOK
<1>3. Dropped = {}
  BY <1>2 DEF Dropped
<1>4. Moves(Dropped)
  BY <1>1, InvParts, FlowMoves
<1>. QED
  BY <1>3, <1>4

\* The request in hand is dropped, and one of its tasks answered: its only one, or with
\* an error.
LEMMA AnswerInHand ==
    ASSUME Inv, NEW q \in Requests, NEW u \in IdsOf(q), NEW kind \in {"final", "error"},
           Moves({q}), Frees({}), Send(kind, <<u>>), UNCHANGED <<waiting, reader>>,
           kind = "error" \/ IdsOf(q) = {u},
           reader[q].pc # "new", ~Sits(u), answers[u] = <<>>
    PROVE  Inv'
<1>1. u \in Ids /\ Req(u) = q
  BY IdFacts
<1>2. <<u>> \in Seq(Ids) /\ (\A y : (Has(<<u>>, y) <=> u = y) /\ Once(<<u>>, y)) /\ Range(<<u>>) = {u}
  BY <1>1, SingleDeque, HasRange
<1>3. Answers({u}, kind)
  BY <1>1, <1>2, InvParts, SendAnswers
<1>4. ~Sits(u)' /\ ~Carries(q)'
  BY <1>1 DEF Frees, Moves
<1>. DEFINE R == {q}
            T == {u}
            F == {}
<1>5. \A r \in R : IdsOf(r) \subseteq T \/ (kind = "error" /\ T \cap IdsOf(r) # {})
  OBVIOUS
<1>6. ASSUME NEW t \in T
      PROVE  ~Sits(t)' /\ ~Carries(Req(t))'
  <2>1. t = u /\ Req(t) = q
    BY <1>1
  <2>. QED
    BY <1>4, <2>1
<1>7. F \cap Ids \subseteq T /\ Moves(R) /\ Frees(F) /\ Answers(T, kind)
  BY <1>3
<1>8. Settles(R, T, F, kind)
  BY <1>5, <1>6, <1>7 DEF Settles
<1>. QED
  BY <1>8, AnswerStep

LEMMA LaunchFailsStep ==
    ASSUME Inv, LaunchFails
    PROVE  Inv'
<1>1. /\ Processed("task") /\ Done /\ UNCHANGED <<slot, waiting, reader>>
  BY DEF LaunchFails
<1>2. PICK r \in Requests : r = Req(hand.id)
  BY <1>1, HandIs
<1>3. PICK s \in Available(hand.id), bad \in 0 .. Children[r] :
          /\ LET n    == IF bad = 0 THEN Children[r] ELSE bad - 1
                 free == FreeSlots(n, s)
                 qs   == Release(Range(free), [main |-> queue, deferred |-> deferred])
             IN  queue' = qs.main /\ deferred' = qs.deferred
          /\ Send("error", <<Id(r, bad)>>)
  BY <1>2 DEF LaunchFails
<1>4. PICK S : /\ queue' = Release(S, [main |-> queue, deferred |-> deferred]).main
               /\ deferred' = Release(S, [main |-> queue, deferred |-> deferred]).deferred
  BY <1>3
<1>5. Flows(queue, deferred, queue', deferred')
  BY <1>4, InvParts, ReleaseIs
<1>6. Moves({r})
  BY <1>1, <1>2, <1>5, DoneMoves
<1>7. Frees({})
  BY <1>1, InvParts, StayFrees DEF Done, SlotsOK
<1>8. Id(r, bad) \in IdsOf(r) /\ reader[r].pc # "new" /\ ~Sits(Id(r, bad)) /\ answers[Id(r, bad)] = <<>>
  BY <1>1, <1>2, HandIs, IdFacts
<1>. QED
  BY <1>1, <1>3, <1>6, <1>7, <1>8, AnswerInHand

LEMMA SlotActionStep ==
    ASSUME Inv, SlotAction
    PROVE  Inv'
<1>1. /\ Processed("task") /\ Done /\ Kind[Req(hand.id)] = "action" /\ UNCHANGED <<queue, deferred, slot, waiting, reader>>
  BY DEF SlotAction
<1>2. PICK r \in Requests : r = Req(hand.id)
  BY <1>1, HandIs
<1>3. PICK t : t = hand.id
  OBVIOUS
<1>4. PICK kind \in {"final", "error"} : Send(kind, <<t>>)
  BY <1>3 DEF SlotAction
<1>5. /\ t = Own(r) /\ t \in IdsOf(r)
      /\ reader[r].pc # "new" /\ ~Sits(t) /\ answers[t] = <<>>
  BY <1>1, <1>2, <1>3, HandIs, IdFacts
<1>6. IdsOf(r) = {t}
  <2>1. Children[r] = 0
    BY <1>1, <1>2, RequestsAssumption
  <2>. QED
    BY <1>5, <2>1 DEF IdsOf, Own
<1>7. Moves({r})
  BY <1>1, <1>2, InvParts, SameFlows, DoneMoves
<1>8. Frees({})
  BY <1>1, InvParts, StayFrees DEF Done, SlotsOK
<1>. QED
  BY <1>1, <1>4, <1>5, <1>6, <1>7, <1>8, AnswerInHand

LEMMA CancelTaskStep ==
    ASSUME Inv, CancelTask
    PROVE  Inv'
<1>. DEFINE S == {s \in Slots : slot[s].id = hand.id}
<1>1. /\ Processed("cancel") /\ ReleaseSlots(S) /\ Done
      /\ UNCHANGED <<waiting, results, reader, answers>>
  BY DEF CancelTask
<1>2. hand \in QItems /\ pc = "process" /\ hand.kind = "cancel"
  BY <1>1, InvParts DEF Processed, QueuesOK
<1>3. hand.id \in Ids /\ Gone(Req(hand.id))
  BY <1>2, InvParts, ItemFacts DEF Cancelled, Called
<1>4. Flows(queue, deferred, queue', deferred')
  BY <1>1, InvParts, ReleaseIs DEF ReleaseSlots
<1>5. Moves({})
  BY <1>1, <1>2, <1>4, OtherMoves DEF Done, Phases
<1>. HIDE DEF S
<1>6. Frees({slot[s].id : s \in S})
  <2>1. S \in SUBSET Slots
    BY DEF S
  <2>. QED
    BY <1>1, <2>1, InvParts, ReleaseFrees DEF ReleaseSlots, Done, SlotsOK
<1>7. \A t \in {slot[s].id : s \in S} : t = hand.id
  BY DEF S
<1>8. Says({}, "partial")
  BY <1>1, InvParts, SilentSays
<1>. HIDE DEF S
<1>. QED
  BY <1>1, <1>3, <1>5, <1>6, <1>7, <1>8, QuietStep

LEMMA NextResponseStep ==
    ASSUME Inv, Next_Response
    PROVE  Inv'
<1>1. /\ Processed("next") /\ Done
      /\ UNCHANGED <<queue, deferred, slot, waiting, results, reader, answers>>
  BY DEF Next_Response
<1>2. Moves({})
  BY <1>1, InvParts, SameFlows, OtherMoves DEF Done, Phases, Processed
<1>3. Frees({})
  BY <1>1, InvParts, StayFrees DEF Done, SlotsOK
<1>4. Says({}, "partial")
  BY <1>1, InvParts, SilentSays
<1>. QED
  BY <1>1, <1>2, <1>3, <1>4, QuietStep

LEMMA DeferStep ==
    ASSUME Inv, Defer
    PROVE  Inv'
<1>1. Moves({})
  BY InvParts, DeferMoves
<1>2. Frees({})
  BY InvParts, StayFrees DEF Defer, Done, SlotsOK
<1>3. Says({}, "partial")
  BY InvParts, SilentSays DEF Defer
<1>. QED
  BY <1>1, <1>2, <1>3, QuietStep DEF Defer

LEMMA TakeStep ==
    ASSUME Inv, Take
    PROVE  Inv'
<1>1. Moves({})
  BY InvParts, TakeMoves
<1>2. Frees({})
  BY InvParts, StayFrees DEF Take, SlotsOK
<1>3. Says({}, "partial")
  BY InvParts, SilentSays DEF Take
<1>. QED
  BY <1>1, <1>2, <1>3, QuietStep DEF Take

\* A request enters its slots.
LEMMA LaunchStep ==
    ASSUME Inv, Launch
    PROVE  Inv'
<1>1. /\ Processed("task") /\ Done /\ UNCHANGED <<queue, deferred, waiting, results, reader, answers>>
  BY DEF Launch
<1>2. PICK r \in Requests : r = Req(hand.id)
  BY <1>1, HandIs
<1>3. /\ hand.id = Own(r) /\ reader[r].pc # "new" /\ Carries(r)
      /\ \A t \in IdsOf(r) : t \in Ids /\ Req(t) = r /\ ~Sits(t) /\ answers[t] = <<>>
  BY <1>1, <1>2, HandIs
<1>4. PICK s \in IdleSlots : CanLaunch(Own(r), s) /\ slot' = Launched(Own(r), s, Children[r], TRUE)
  <2>1. Available(hand.id) \subseteq IdleSlots
    BY DEF Available
  <2>. QED
    BY <1>2, <1>3, <2>1 DEF Launch
<1>5. /\ SlotsOK' /\ Seats'
      /\ \A t \in Ids : Sits(t)' <=> Sits(t) \/ t \in IdsOf(r)
  BY <1>1, <1>3, <1>4, InvParts, LaunchSits DEF Done
<1>6. Moves({r})
  BY <1>1, <1>2, InvParts, SameFlows, DoneMoves
<1>7. RepliesOK' /\ Heard'
  <2>1. RepliesOK /\ Heard
    BY InvParts
  <2>2. \A t : Said(t)' <=> Said(t)
    BY <1>1 DEF Said
  <2>. QED
    BY <1>1, <2>1, <2>2 DEF RepliesOK, Heard, Reading
<1>8. Typed'
  BY <1>5, <1>6, <1>7 DEF Typed, Moves
<1>9. Cancelled'
  BY <1>1, <1>6, InvParts DEF Cancelled, Moves, Gone
<1>10. ASSUME NEW q \in Requests
       PROVE  Placed(q)'
  <2>1. Apart(q)' /\ (Carries(q)' <=> Carries(q) /\ q # r)
    BY <1>6, InvParts DEF Moves
  <2>2. IdsOf(q) \subseteq Ids /\ \A t \in IdsOf(q) : (Sits(t)' <=> Sits(t) \/ q = r)
    BY <1>5, IdFacts
  <2>3. Placed(q) /\ (ErrorPending(q)' <=> ErrorPending(q))
    BY <1>1, InvParts DEF ErrorPending, PendingFor
  <2>. QED
    BY <1>1, <1>3, <2>1, <2>2, <2>3 DEF Placed, Reading
<1>11. ASSUME NEW q \in Requests
       PROVE  Counted(q)'
  <2>1. Due(q)' = Due(q) /\ Told(q)' = Told(q)
    BY <1>1 DEF Due, Told, Said
  <2>. QED
    BY <1>1, <2>1, InvParts DEF Counted, Reading
<1>. QED
  BY <1>5, <1>7, <1>8, <1>9, <1>10, <1>11 DEF Inv

-----------------------------------------------------------------------------
(* update_slots.                                                           *)

LEMMA AdvanceIs ==
    ASSUME Inv, pc \in {"gen", "prompt", "decode", "post"}, NEW phase \in {"prompt", "decode", "wait"}, Advance(phase)
    PROVE  /\ turn' \in Slots /\ pc' \in Phases \ {"process"} /\ hand' = hand
           /\ pc' \in Phases /\ (pc' = "process" <=> pc = "process")
<1>1. NumSlots \in Nat \ {0} /\ turn \in Slots /\ pc \in Phases
  BY SlotsAssumption, InvParts DEF SlotsOK, QueuesOK
<1>. QED
  BY <1>1 DEF Advance, Slots, Phases

LEMMA PreIs ==
    ASSUME Inv, NEW b, Pre(b)
    PROVE  /\ turn' \in Slots /\ pc' \in Phases \ {"process"} /\ hand' = hand /\ batch' = b
           /\ pc' \in Phases /\ (pc' = "process" <=> pc = "process")
           /\ pc \in {"gen", "prompt"}
BY AdvanceIs DEF Pre

LEMMA UpdateBeginStep ==
    ASSUME Inv, UpdateBegin
    PROVE  Inv'
<1>1. Moves({})
  BY InvParts, BeginMoves
<1>2. 0 \in Slots
  BY SlotsAssumption DEF Slots
<1>3. Frees({})
  BY <1>2, InvParts, StayFrees DEF UpdateBegin
<1>4. Says({}, "partial")
  BY InvParts, SilentSays DEF UpdateBegin
<1>. QED
  BY <1>1, <1>3, <1>4, QuietStep DEF UpdateBegin

LEMMA UpdateIdleStep ==
    ASSUME Inv, UpdateIdle
    PROVE  Inv'
<1>1. Moves({})
  BY InvParts, StayMoves DEF UpdateIdle, Phases
<1>2. Frees({})
  BY InvParts, StayFrees DEF UpdateIdle, SlotsOK
<1>3. Says({}, "partial")
  BY InvParts, SilentSays DEF UpdateIdle
<1>. QED
  BY <1>1, <1>2, <1>3, QuietStep DEF UpdateIdle

LEMMA PreSkipStep ==
    ASSUME Inv, PreSkip
    PROVE  Inv'
<1>1. /\ Pre(batch) /\ UNCHANGED <<queue, deferred, slot, waiting, results, reader, answers>>
  BY DEF PreSkip
<1>2. Moves({})
  BY <1>1, InvParts, PreIs, StayMoves
<1>3. Frees({})
  BY <1>1, InvParts, PreIs, StayFrees DEF SlotsOK
<1>4. Says({}, "partial")
  BY <1>1, InvParts, SilentSays
<1>. QED
  BY <1>1, <1>2, <1>3, <1>4, QuietStep

LEMMA PreGeneratingStep ==
    ASSUME Inv, NEW s \in Slots, PreGenerating(s)
    PROVE  Inv'
<1>1. /\ Pre(batch \cup {s}) /\ UNCHANGED <<queue, deferred, slot, waiting, results, reader, answers>>
  BY DEF PreGenerating
<1>2. Moves({})
  BY <1>1, InvParts, PreIs, StayMoves
<1>3. Frees({})
  BY <1>1, InvParts, PreIs, StayFrees DEF SlotsOK
<1>4. Says({}, "partial")
  BY <1>1, InvParts, SilentSays
<1>. QED
  BY <1>1, <1>2, <1>3, <1>4, QuietStep

\* A slot that is not idle changes its state, and none waits that did not.
LEMMA StateFrees ==
    ASSUME Inv, turn' \in Slots, batch' \subseteq Slots, slot' \in [Slots -> SlotSet],
           \A s \in Slots : /\ slot'[s].id = slot[s].id
                            /\ slot'[s].state # slot[s].state =>
                                   slot[s].state # "IDLE" /\ slot'[s].state \notin {"IDLE", "WAIT_OTHER"}
    PROVE  Frees({})
<1>1. SlotsOK'
  BY DEF SlotsOK
<1>2. \A s \in Slots : /\ slot'[s].id = slot[s].id
                       /\ slot'[s].state = "IDLE" <=> slot[s].state = "IDLE"
                       /\ slot'[s].state = "WAIT_OTHER" => slot[s].state = "WAIT_OTHER"
  OBVIOUS
<1>. QED
  BY <1>1, <1>2, InvParts, SameFrees

LEMMA PrePromptStep ==
    ASSUME Inv, NEW s \in Slots, NEW state \in {"PROCESSING_PROMPT", "DONE_PROMPT"}, PrePrompt(s, state)
    PROVE  Inv'
<1>1. /\ Pre(batch \cup {s}) /\ UNCHANGED <<queue, deferred, waiting, results, reader, answers>>
      /\ slot' = [slot EXCEPT ![s].state = state] /\ turn = s /\ Wanted /\ pc = "prompt"
  BY DEF PrePrompt
<1>2. Moves({})
  BY <1>1, InvParts, PreIs, StayMoves
<1>3. slot[s].state \in {"STARTED", "PROCESSING_PROMPT"}
  BY <1>1 DEF Wanted
<1>4. slot \in [Slots -> SlotSet] /\ batch \subseteq Slots
  BY InvParts DEF SlotsOK
<1>5. slot' \in [Slots -> SlotSet]
  BY <1>1, <1>4 DEF SlotSet, SlotStates
<1>6. \A u \in Slots : slot'[u].id = slot[u].id /\ (u # s => slot'[u] = slot[u])
  BY <1>1, <1>4 DEF SlotSet
<1>7. slot'[s].state = state
  BY <1>1, <1>4 DEF SlotSet
<1>8. Frees({})
  BY <1>1, <1>3, <1>4, <1>5, <1>6, <1>7, PreIs, StateFrees
<1>9. Says({}, "partial")
  BY <1>1, InvParts, SilentSays
<1>. QED
  BY <1>1, <1>2, <1>8, <1>9, QuietStep

LEMMA DecodeOkStep ==
    ASSUME Inv, DecodeOk
    PROVE  Inv'
<1>1. /\ slot'  = [s \in Slots |-> IF Activated(s) THEN [slot[s] EXCEPT !.state = "DONE_PROMPT"] ELSE slot[s]]
      /\ batch' = batch \cup {s \in Slots : Activated(s)}
      /\ pc = "decode" /\ pc' = "post"
      /\ UNCHANGED <<hand, turn, queue, deferred, waiting, results, reader, answers>>
  BY DEF DecodeOk
<1>2. Moves({})
  BY <1>1, InvParts, StayMoves DEF Phases
<1>3. slot \in [Slots -> SlotSet] /\ batch \subseteq Slots /\ turn \in Slots
  BY InvParts DEF SlotsOK
<1>4. ASSUME NEW s \in Slots
      PROVE  /\ slot'[s] \in SlotSet /\ slot'[s].id = slot[s].id
             /\ slot'[s].state # slot[s].state =>
                    slot[s].state = "WAIT_OTHER" /\ slot'[s].state = "DONE_PROMPT"
  <2>1. slot[s] \in SlotSet
    BY <1>3
  <2>2. CASE Activated(s)
    <3>1. slot'[s] = [slot[s] EXCEPT !.state = "DONE_PROMPT"] /\ slot[s].state = "WAIT_OTHER"
      BY <1>1, <2>2 DEF Activated
    <3>. QED
      BY <2>1, <3>1 DEF SlotSet, SlotStates
  <2>3. CASE ~Activated(s)
    BY <1>1, <2>1, <2>3
  <2>. QED
    BY <2>2, <2>3
<1>5. slot' \in [Slots -> SlotSet]
  BY <1>1, <1>4
<1>6. Frees({})
  BY <1>1, <1>3, <1>4, <1>5, StateFrees
<1>7. Says({}, "partial")
  BY <1>1, InvParts, SilentSays
<1>. QED
  BY <1>1, <1>2, <1>6, <1>7, QuietStep

LEMMA PostSkipStep ==
    ASSUME Inv, PostSkip
    PROVE  Inv'
<1>1. /\ pc = "post" /\ Advance("wait") /\ UNCHANGED <<batch, queue, deferred, slot, waiting, results, reader, answers>>
  BY DEF PostSkip
<1>2. Moves({})
  BY <1>1, InvParts, AdvanceIs, StayMoves
<1>3. Frees({})
  BY <1>1, InvParts, AdvanceIs, StayFrees DEF SlotsOK
<1>4. Says({}, "partial")
  BY <1>1, InvParts, SilentSays
<1>. QED
  BY <1>1, <1>2, <1>3, <1>4, QuietStep

\* The slots of S are released and their tasks answered.
LEMMA FinishStep ==
    ASSUME Inv, NEW S \in SUBSET Slots, NEW kind \in {"final", "error"}, NEW ts \in Seq(Ids),
           \A t : Once(ts, t), \A t : Has(ts, t) <=> \E s \in S : slot[s].id = t,
           Send(kind, ts), ReleaseSlots(S), UNCHANGED <<reader, waiting, hand>>,
           pc # "process", pc' \in Phases \ {"process"}, turn' \in Slots, batch' \subseteq Slots
    PROVE  Inv'
<1>. DEFINE T == Range(ts)
            F == {slot[s].id : s \in S}
            R == {}
<1>1. \A t : t \in T <=> \E s \in S : slot[s].id = t
  BY HasRange
<1>2. T \subseteq Ids
  BY ElementOfSeq, LenProperties DEF Range
<1>3. ASSUME NEW t \in T
      PROVE  answers[t] = <<>> /\ reader[Req(t)].pc # "new" /\ Sits(t) /\ ~Carries(Req(t))
  <2>1. Sits(t)
    BY <1>1 DEF Sits
  <2>2. t \in IdsOf(Req(t)) /\ Req(t) \in Requests
    BY <1>2, IdFacts
  <2>. QED
    BY <2>1, <2>2, InvParts DEF Placed
<1>4. Answers(T, kind)
  BY <1>3, InvParts, SendAnswers
<1>5. Flows(queue, deferred, queue', deferred')
  BY InvParts, ReleaseIs DEF ReleaseSlots
<1>6. Moves(R)
  BY <1>5, OtherMoves
<1>7. Frees(F)
  BY InvParts, ReleaseFrees DEF ReleaseSlots
<1>8. F \cap Ids \subseteq T
  BY <1>1
<1>9. \A t \in T : t \in F
  BY <1>1
<1>. HIDE DEF T, F
<1>10. ASSUME NEW t \in T
       PROVE  ~Sits(t)' /\ ~Carries(Req(t))'
  <2>1. t \in Ids /\ Req(t) \in Requests
    BY <1>2, IdFacts
  <2>2. ~Sits(t)'
    BY <1>7, <1>9, <2>1 DEF Frees
  <2>3. ~Carries(Req(t))'
    BY <1>3, <1>6, <2>1 DEF Moves
  <2>. QED
    BY <2>2, <2>3
<1>11. \A r \in R : IdsOf(r) \subseteq T \/ (kind = "error" /\ T \cap IdsOf(r) # {})
  OBVIOUS
<1>. HIDE DEF R
<1>12. Settles(R, T, F, kind)
  BY <1>4, <1>6, <1>7, <1>8, <1>10, <1>11 DEF Settles
<1>. QED
  BY <1>12, AnswerStep

LEMMA FinishOneStep ==
    ASSUME Inv, NEW s \in Slots, slot[s].state # "IDLE", NEW kind \in {"final", "error"},
           Send(kind, <<slot[s].id>>), ReleaseSlots({s}), UNCHANGED <<reader, waiting, hand>>,
           pc # "process", pc' \in Phases \ {"process"}, turn' \in Slots, batch' \subseteq Slots
    PROVE  Inv'
<1>1. PICK t \in Ids : slot[s].id = t
  <2>1. slot[s].id \in Ids \cup {NoId} /\ slot[s].id # NoId
    BY InvParts DEF SlotsOK, SlotSet, Seats
  <2>. QED
    BY <2>1
<1>2. <<t>> \in Seq(Ids) /\ \A y : (Has(<<t>>, y) <=> t = y) /\ Once(<<t>>, y)
  BY SingleDeque
<1>. DEFINE ts == <<t>>
            S == {s}
<1>3. \A y : Has(ts, y) <=> \E u \in S : slot[u].id = y
  BY <1>1, <1>2
<1>4. ts \in Seq(Ids) /\ (\A y : Once(ts, y)) /\ Send(kind, ts) /\ ReleaseSlots(S) /\ S \in SUBSET Slots
  BY <1>1, <1>2
<1>. HIDE DEF ts, S
<1>. QED
  BY <1>3, <1>4, FinishStep

LEMMA PreEndsStep ==
    ASSUME Inv, PreEnds
    PROVE  Inv'
<1>1. /\ Pre(batch) /\ Wanted /\ UNCHANGED <<waiting, reader>>
      /\ \E kind \in {"final", "error"} : Finish(kind)
  BY DEF PreEnds
<1>2. PICK kind \in {"final", "error"} : Send(kind, <<slot[turn].id>>) /\ ReleaseSlots({turn})
  BY <1>1 DEF Finish
<1>3. PICK s \in Slots : s = turn
  BY InvParts DEF SlotsOK
<1>4. slot[s].state # "IDLE"
  BY <1>1, <1>3 DEF Wanted
<1>5. /\ UNCHANGED hand /\ pc # "process" /\ pc' \in Phases \ {"process"} /\ turn' \in Slots
      /\ batch' \subseteq Slots
  BY <1>1, PreIs, InvParts DEF SlotsOK
<1>6. Send(kind, <<slot[s].id>>) /\ ReleaseSlots({s})
  BY <1>2, <1>3
<1>. QED
  BY <1>1, <1>4, <1>5, <1>6, FinishOneStep

LEMMA PostEndsStep ==
    ASSUME Inv, PostEnds
    PROVE  Inv'
<1>1. /\ pc = "post" /\ Sampling(turn) /\ Advance("wait") /\ UNCHANGED <<batch, waiting, reader>>
      /\ \E kind \in {"final", "error"} : Finish(kind)
  BY DEF PostEnds
<1>2. PICK kind \in {"final", "error"} : Send(kind, <<slot[turn].id>>) /\ ReleaseSlots({turn})
  BY <1>1 DEF Finish
<1>3. PICK s \in Slots : s = turn
  BY InvParts DEF SlotsOK
<1>4. slot[s].state # "IDLE"
  BY <1>1, <1>3 DEF Sampling
<1>5. /\ UNCHANGED hand /\ pc # "process" /\ pc' \in Phases \ {"process"} /\ turn' \in Slots
      /\ batch' \subseteq Slots
  BY <1>1, AdvanceIs, InvParts DEF SlotsOK
<1>6. Send(kind, <<slot[s].id>>) /\ ReleaseSlots({s})
  BY <1>2, <1>3
<1>. QED
  BY <1>1, <1>4, <1>5, <1>6, FinishOneStep

\* The tasks of a set of slots that are not idle, in order.
LEMMA TasksInOrder ==
    ASSUME Inv, NEW S \in SUBSET Slots, \A s \in S : slot[s].state # "IDLE",
           NEW ts, ts = [i \in DOMAIN InOrder(S) |-> slot[InOrder(S)[i]].id]
    PROVE  ts \in Seq(Ids) /\ (\A t : Once(ts, t)) /\ (\A t : Has(ts, t) <=> \E s \in S : slot[s].id = t)
<1>. DEFINE ids == InOrder(S)
<1>1. ids \in Seq(Slots) /\ \A s : (Has(ids, s) <=> s \in S) /\ Once(ids, s)
  BY InOrderIs
<1>2. ts = [i \in DOMAIN ids |-> slot[ids[i]].id]
  OBVIOUS
<1>. HIDE DEF ids
<1>3. Len(ids) \in Nat /\ DOMAIN ids = 1 .. Len(ids)
  BY <1>1, LenProperties
<1>4. ASSUME NEW s \in S
      PROVE  slot[s].id \in Ids /\ slot[s].id # NoId
  BY <1>4, InvParts DEF SlotsOK, SlotSet, Seats
<1>5. ASSUME NEW i \in DOMAIN ids
      PROVE  ids[i] \in S
  BY <1>1 DEF Has
<1>6. ts \in Seq(Ids) /\ DOMAIN ts = DOMAIN ids /\ \A i \in DOMAIN ids : ts[i] = slot[ids[i]].id
  BY <1>2, <1>3, <1>4, <1>5
<1>7. ASSUME NEW t
      PROVE  Once(ts, t)
  <2>1. SUFFICES ASSUME NEW i \in DOMAIN ids, NEW j \in DOMAIN ids, ts[i] = t, ts[j] = t
                 PROVE  i = j
    BY <1>6 DEF Once
  <2>2. ids[i] = ids[j]
    BY <1>4, <1>5, <1>6, <2>1, InvParts DEF Seats
  <2>. QED
    BY <1>1, <2>2 DEF Once
<1>8. ASSUME NEW t
      PROVE  Has(ts, t) <=> \E s \in S : slot[s].id = t
  <2>1. Has(ts, t) => \E s \in S : slot[s].id = t
    BY <1>5, <1>6 DEF Has
  <2>2. ASSUME NEW s \in S, slot[s].id = t
        PROVE  Has(ts, t)
    BY <1>1, <1>6, <2>2 DEF Has
  <2>. QED
    BY <2>1, <2>2
<1>. QED
  BY <1>6, <1>7, <1>8

LEMMA AbortAllStep ==
    ASSUME Inv, AbortAll
    PROVE  Inv'
<1>1. PICK S \in SUBSET Slots : S = Processing
  BY DEF Processing
<1>2. \A s \in S : slot[s].state # "IDLE"
  BY <1>1 DEF Processing
<1>3. PICK ts : ts = [i \in DOMAIN InOrder(S) |-> slot[InOrder(S)[i]].id]
  OBVIOUS
<1>4. Send("error", ts) /\ ReleaseSlots(S) /\ pc' = "wait" /\ turn' = 0 /\ UNCHANGED <<hand, batch, waiting, reader>>
      /\ pc \in {"gen", "prompt", "decode", "post"}
  BY <1>1, <1>3 DEF AbortAll
<1>5. ts \in Seq(Ids) /\ (\A t : Once(ts, t)) /\ (\A t : Has(ts, t) <=> \E s \in S : slot[s].id = t)
  BY <1>2, <1>3, TasksInOrder
<1>6. turn' \in Slots /\ batch' \subseteq Slots /\ pc' \in Phases \ {"process"} /\ pc # "process"
  BY <1>4, SlotsAssumption, InvParts DEF Slots, SlotsOK, Phases
<1>. QED
  BY <1>4, <1>5, <1>6, FinishStep

LEMMA PostTokenStep ==
    ASSUME Inv, PostToken
    PROVE  Inv'
<1>1. /\ pc = "post" /\ Sampling(turn) /\ Advance("wait") /\ UNCHANGED <<batch, queue, deferred, waiting, reader>>
      /\ slot' = [slot EXCEPT ![turn].state = "GENERATING", ![turn].n = @ + 1]
      /\ Send("partial", <<slot[turn].id>>) \/ UNCHANGED <<results, answers>>
  BY DEF PostToken
<1>2. PICK s \in Slots : s = turn
  BY InvParts DEF SlotsOK
<1>3. slot[s].state \notin {"IDLE", "WAIT_OTHER"}
  BY <1>1, <1>2 DEF Sampling
<1>4. slot \in [Slots -> SlotSet] /\ batch \subseteq Slots
  BY InvParts DEF SlotsOK
<1>5. PICK t \in Ids : slot[s].id = t
  <2>1. slot[s].id \in Ids \cup {NoId} /\ slot[s].id # NoId
    BY <1>3, InvParts DEF SlotsOK, SlotSet, Seats
  <2>. QED
    BY <2>1
<1>6. slot' \in [Slots -> SlotSet] /\ slot'[s].state = "GENERATING"
      /\ \A u \in Slots : slot'[u].id = slot[u].id /\ (u # s => slot'[u] = slot[u])
  BY <1>1, <1>2, <1>4 DEF SlotSet, SlotStates
<1>7. Moves({})
  BY <1>1, InvParts, AdvanceIs, StayMoves
<1>8. Frees({})
  BY <1>1, <1>3, <1>4, <1>6, AdvanceIs, StateFrees
<1>9. CASE Send("partial", <<t>>)
  <2>1. <<t>> \in Seq(Ids) /\ (\A y : (Has(<<t>>, y) <=> t = y) /\ Once(<<t>>, y)) /\ Range(<<t>>) = {t}
    BY SingleDeque, HasRange
  <2>2. answers[t] = <<>> /\ reader[Req(t)].pc # "new"
    <3>1. Sits(t) /\ Req(t) \in Requests /\ t \in IdsOf(Req(t))
      BY <1>5, IdFacts DEF Sits
    <3>. QED
      BY <3>1, InvParts DEF Placed
  <2>3. Says({t}, "partial")
    BY <1>1, <1>9, <2>1, <2>2, InvParts, SendSays
  <2>4. answers' = answers
    <3>1. answers' = [u \in Ids |-> answers[u]]
      BY <1>9 DEF Send
    <3>. QED
      BY <3>1, InvParts DEF RepliesOK
  <2>. QED
    BY <1>7, <1>8, <2>3, <2>4, QuietStep
<1>10. CASE UNCHANGED <<results, answers>>
  <2>1. Says({}, "partial")
    BY <1>1, <1>10, InvParts, SilentSays
  <2>. QED
    BY <1>7, <1>8, <1>10, <2>1, QuietStep
<1>. QED
  BY <1>1, <1>2, <1>5, <1>9, <1>10

-----------------------------------------------------------------------------
(* The readers.                                                            *)

LEMMA OpenStep ==
    ASSUME Inv, NEW r \in Requests, Open(r)
    PROVE  Inv'
<1>1. /\ reader[r].pc = "new" /\ reader' = [reader EXCEPT ![r].pc = "reading"]
      /\ waiting' = waiting \cup IdsOf(r) /\ queue' = Append(queue, Task(Own(r)))
      /\ UNCHANGED <<deferred, hand, pc, turn, batch, slot, results, answers>>
  BY DEF Open, mainvars, Own
<1>2. ~Carries(r) /\ \A t \in IdsOf(r) : ~Sits(t) /\ answers[t] = <<>> /\ t \in Ids /\ Req(t) = r
  BY <1>1, InvParts, IdFacts DEF Placed
<1>3. /\ QueuesOK'
      /\ \A x : /\ Has(queue', x) <=> Task(Own(r)) = x \/ Has(queue, x)
                /\ Once(queue, x) /\ ~(Task(Own(r)) = x /\ Has(queue, x)) => Once(queue', x)
  <2>1. queue \in Seq(QItems) /\ Task(Own(r)) \in QItems
    BY InvParts, ItemFacts DEF QueuesOK
  <2>2. /\ queue' \in Seq(QItems)
        /\ \A x : /\ Has(queue', x) <=> Task(Own(r)) = x \/ Has(queue, x)
                  /\ Once(queue, x) /\ ~(Task(Own(r)) = x /\ Has(queue, x)) => Once(queue', x)
    BY <1>1, <2>1, BackDeque
  <2>. QED
    BY <1>1, <2>2, InvParts DEF QueuesOK
<1>4. /\ reader' \in [Requests -> Readers] /\ reader'[r].pc = "reading" /\ reader'[r].received = reader[r].received
      /\ \A q \in Requests : q # r => reader'[q] = reader[q]
  BY <1>1, InvParts DEF RepliesOK, Readers
<1>5. /\ RepliesOK'
  BY <1>1, <1>2, <1>4, InvParts DEF RepliesOK
<1>6. SlotsOK' /\ Seats'
  BY <1>1, InvParts DEF SlotsOK, Seats
<1>7. Cancelled'
  <2>1. ASSUME NEW t \in Ids, Called(t)'
        PROVE  Gone(Req(t))'
    <3>1. Called(t)
      BY <1>1, <1>3, <2>1, ItemFacts DEF Called
    <3>2. Gone(Req(t)) /\ Req(t) \in Requests
      BY <3>1, InvParts, IdFacts DEF Cancelled
    <3>. QED
      BY <1>1, <1>4, <3>2 DEF Gone
  <2>. QED
    BY <2>1 DEF Cancelled
<1>8. ASSUME NEW q \in Requests
      PROVE  Reading(q)' <=> Reading(q) \/ q = r
  BY <1>4 DEF Reading
<1>9. \A t : Said(t)' <=> Said(t)
  BY <1>1 DEF Said
<1>10. ~Reading(r)
  BY <1>1 DEF Reading
<1>11. Heard'
  <2>1. ASSUME NEW t \in Ids
        PROVE  (t \in waiting)' <=> Reading(Req(t))'
    <3>1. Req(t) \in Requests /\ (t \in IdsOf(r) <=> Req(t) = r)
      BY IdFacts
    <3>. QED
      BY <1>1, <1>8, <3>1, InvParts DEF Heard
  <2>2. ASSUME NEW x \in Replies, Has(results', x)
        PROVE  /\ Reading(Req(x.id))'
               /\ x.kind # "partial" => answers'[x.id] = <<x.kind>>
               /\ answers'[x.id] # <<>> => Said(x.id)'
    <3>1. Req(x.id) \in Requests /\ Has(results, x)
      BY <1>1, <2>2, IdFacts DEF Replies
    <3>. QED
      BY <1>1, <1>8, <1>9, <3>1, InvParts DEF Heard
  <2>3. ASSUME NEW t \in Ids
        PROVE  /\ answers'[t] \in {<<>>, <<"final">>, <<"error">>}
               /\ Reading(Req(t))' /\ answers'[t] = <<"error">> => Has(results', [kind |-> "error", id |-> t])
    <3>1. Req(t) \in Requests /\ (Req(t) = r => answers[t] = <<>>)
      BY <1>2, IdFacts
    <3>2. /\ answers[t] \in {<<>>, <<"final">>, <<"error">>}
          /\ Reading(Req(t)) /\ answers[t] = <<"error">> => Has(results, [kind |-> "error", id |-> t])
      BY InvParts DEF Heard
    <3>3. <<>> # <<"error">>
      OBVIOUS
    <3>. QED
      BY <1>1, <1>8, <3>1, <3>2, <3>3
  <2>4. Ordered(results')
    BY <1>1, InvParts DEF Heard
  <2>. QED
    BY <2>1, <2>2, <2>3, <2>4 DEF Heard
<1>12. ASSUME NEW q \in Requests
       PROVE  /\ Carries(q)' <=> Carries(q) \/ q = r
              /\ Apart(q)'
  <2>1. Task(Own(q)) = Task(Own(r)) <=> q = r
    BY ItemFacts
  <2>2. Carries(q)' <=> Carries(q) \/ q = r
    BY <1>1, <1>3, <2>1 DEF Carries
  <2>3. Apart(q)'
    BY <1>1, <1>2, <1>3, <2>1, InvParts DEF Apart, Single, Carries
  <2>. QED
    BY <2>2, <2>3
<1>13. ASSUME NEW q \in Requests
       PROVE  Placed(q)'
  <2>1. (ErrorPending(q)' <=> ErrorPending(q)) /\ \A t : Sits(t)' <=> Sits(t)
    BY <1>1 DEF ErrorPending, PendingFor, Sits
  <2>2. Apart(q)' /\ (Carries(q)' <=> Carries(q) \/ q = r)
    BY <1>12
  <2>3. CASE q = r
    BY <1>1, <1>2, <1>4, <2>1, <2>2, <2>3 DEF Placed
  <2>4. CASE q # r
    BY <1>1, <1>4, <1>8, <2>1, <2>2, <2>4, InvParts DEF Placed
  <2>. QED
    BY <2>3, <2>4
<1>14. ASSUME NEW q \in Requests
       PROVE  Counted(q)'
  <2>1. Due(q)' = Due(q) /\ Told(q)' = Told(q)
    BY <1>1, <1>9 DEF Due, Told
  <2>2. CASE q = r
    <3>1. Told(q) = {}
      BY <1>2, <2>2 DEF Told
    <3>2. Due(q) = {}
      BY <1>2, <1>10, <2>2, InvParts DEF Due, Said, Heard
    <3>3. reader[q].received = 0
      BY <1>1, <2>2, InvParts DEF Counted
    <3>4. Cardinality({}) = 0
      BY FS_EmptySet
    <3>. QED
      BY <1>4, <2>1, <2>2, <3>1, <3>2, <3>3, <3>4 DEF Counted
  <2>3. CASE q # r
    BY <1>4, <1>8, <2>1, <2>3, InvParts DEF Counted
  <2>. QED
    BY <2>2, <2>3
<1>. QED
  BY <1>3, <1>5, <1>6, <1>7, <1>11, <1>13, <1>14 DEF Inv, Typed


\* Cleanup takes the task of the request out of a deque, and nothing else that is there.
LEMMA CleanupIs ==
    ASSUME NEW r \in Requests, NEW T, NEW q \in Seq(T)
    PROVE  /\ Cleanup(q, IdsOf(r)) \in Seq(T)
           /\ \A x : Once(q, x) => Once(Cleanup(q, IdsOf(r)), x)
           /\ \A u \in Requests : Has(Cleanup(q, IdsOf(r)), Task(Own(u))) <=> Has(q, Task(Own(u))) /\ u # r
           /\ \A t \in Ids : Has(Cleanup(q, IdsOf(r)), Cancel(t)) <=> Has(q, Cancel(t))
<1>. DEFINE S == Range(q) \ {Task(t) : t \in IdsOf(r)}
            v == Keep(q, S)
<1>1. /\ v \in Seq(T)
      /\ \A x : (Has(v, x) <=> Has(q, x) /\ x \in S) /\ (Once(q, x) => Once(v, x))
  <2>. HIDE DEF S
  <2>. QED
    BY KeepDeque
<1>2. Cleanup(q, IdsOf(r)) = v
  BY DEF Cleanup
<1>3. \A x : x \in S <=> Has(q, x) /\ x \notin {Task(t) : t \in IdsOf(r)}
  BY HasRange
<1>. HIDE DEF S, v
<1>4. ASSUME NEW u \in Requests
      PROVE  Task(Own(u)) \notin {Task(t) : t \in IdsOf(r)} <=> u # r
  <2>1. \A t : Task(t).id = t
    BY DEF Task
  <2>2. Own(r) \in IdsOf(r) /\ (Own(u) \in IdsOf(r) => u = r)
    BY IdFacts
  <2>. QED
    BY <2>1, <2>2
<1>5. ASSUME NEW t \in Ids
      PROVE  Cancel(t) \notin {Task(u) : u \in IdsOf(r)}
  BY DEF Cancel, Task
<1>. QED
  BY <1>1, <1>2, <1>3, <1>4, <1>5

\* The CANCELs of a reader that leaves.
LEMMA CancelsAre ==
    ASSUME NEW r \in Requests, NEW order \in SetToSeqs({Cancel(t) : t \in IdsOf(r)})
    PROVE  /\ order \in Seq(QItems)
           /\ \A x : Has(order, x) => \E t \in IdsOf(r) : x = Cancel(t)
<1>. DEFINE S == {Cancel(t) : t \in IdsOf(r)}
            f == [t \in IdsOf(r) |-> Cancel(t)]
<1>1. f \in Surjection(IdsOf(r), S)
  BY DEF Surjection
<1>. HIDE DEF f
<1>2. S \subseteq QItems /\ \A x \in S : \E t \in IdsOf(r) : x = Cancel(t)
  BY IdFacts, ItemFacts
<1>3. order \in SetToSeqs(S)
  OBVIOUS
<1>. HIDE DEF S
<1>4. Cardinality(S) \in Nat
  BY <1>1, IdsOfFinite, FS_Surjection, FS_CardinalityType
<1>5. order \in [1 .. Cardinality(S) -> S]
  BY <1>3 DEF SetToSeqs
<1>6. order \in Seq(S)
  BY <1>4, <1>5
<1>7. order \in Seq(QItems)
  BY <1>2, <1>4, <1>5
<1>8. \A i \in DOMAIN order : order[i] \in S
  BY <1>5
<1>. QED
  BY <1>2, <1>7, <1>8 DEF Has

\* A reader leaves before it has all answers.
LEMMA StopStep ==
    ASSUME Inv, NEW r \in Requests, Reading(r), NEW why \in {"failed", "stopped"}, Stop(r, why),
           UNCHANGED <<mainvars, slot, answers>>
    PROVE  Inv'
<1>1. /\ reader' = [reader EXCEPT ![r].pc = why]
      /\ waiting' = waiting \ IdsOf(r)
      /\ results' = Keep(results, {x \in Range(results) : x.id \notin IdsOf(r)})
      /\ deferred' = Cleanup(deferred, IdsOf(r))
      /\ \E order \in SetToSeqs({Cancel(t) : t \in IdsOf(r)}) :
            queue' = order \o Cleanup(queue, IdsOf(r))
      /\ UNCHANGED <<hand, pc, turn, batch, slot, answers>>
  BY DEF Stop, mainvars
<1>2. PICK order \in SetToSeqs({Cancel(t) : t \in IdsOf(r)}) :
            queue' = order \o Cleanup(queue, IdsOf(r))
  BY <1>1
<1>3. /\ reader' \in [Requests -> Readers] /\ reader'[r].pc = why
      /\ \A q \in Requests : q # r => reader'[q] = reader[q]
  BY <1>1, InvParts DEF RepliesOK, Readers
<1>4. /\ deferred' \in Seq(DItems)
      /\ \A x : Once(deferred, x) => Once(deferred', x)
      /\ \A u \in Requests : Has(deferred', Task(Own(u))) <=> Has(deferred, Task(Own(u))) /\ u # r
  BY <1>1, InvParts, CleanupIs DEF QueuesOK
<1>5. /\ queue' \in Seq(QItems)
      /\ \A u \in Requests : /\ Has(queue', Task(Own(u))) <=> Has(queue, Task(Own(u))) /\ u # r
                             /\ Once(queue, Task(Own(u))) => Once(queue', Task(Own(u)))
      /\ \A t \in Ids : Has(queue', Cancel(t)) => t \in IdsOf(r) \/ Has(queue, Cancel(t))
  <2>. DEFINE p == Cleanup(queue, IdsOf(r))
  <2>1. /\ p \in Seq(QItems)
        /\ \A x : Once(queue, x) => Once(p, x)
        /\ \A u \in Requests : Has(p, Task(Own(u))) <=> Has(queue, Task(Own(u))) /\ u # r
        /\ \A t \in Ids : Has(p, Cancel(t)) <=> Has(queue, Cancel(t))
    BY InvParts, CleanupIs DEF QueuesOK
  <2>2. queue' = order \o p
    BY <1>2
  <2>. HIDE DEF p
  <2>3. order \in Seq(QItems) /\ \A x : Has(order, x) => \E t \in IdsOf(r) : x = Cancel(t)
    BY CancelsAre
  <2>4. /\ queue' \in Seq(QItems)
        /\ \A x : /\ Has(queue', x) <=> Has(order, x) \/ Has(p, x)
                  /\ Once(order, x) /\ Once(p, x) /\ ~(Has(order, x) /\ Has(p, x)) => Once(queue', x)
    BY <2>1, <2>2, <2>3, ConcatDeque
  <2>5. ASSUME NEW u \in Requests
        PROVE  ~Has(order, Task(Own(u))) /\ Once(order, Task(Own(u)))
    <3>1. ~Has(order, Task(Own(u)))
      BY <2>3, ItemFacts, IdFacts
    <3>. QED
      BY <3>1 DEF Has, Once
  <2>6. ASSUME NEW t \in Ids, Has(order, Cancel(t))
        PROVE  t \in IdsOf(r)
    <3>1. PICK u \in IdsOf(r) : Cancel(t) = Cancel(u)
      BY <2>3, <2>6
    <3>. QED
      BY <3>1, ItemFacts, IdFacts
  <2>. QED
    BY <2>1, <2>4, <2>5, <2>6
<1>6. /\ results' \in Seq(Replies) /\ Ordered(results')
      /\ \A x : Has(results', x) <=> Has(results, x) /\ x.id \notin IdsOf(r)
  <2>. DEFINE S == {x \in Range(results) : x.id \notin IdsOf(r)}
  <2>1. \A x : x \in S <=> Has(results, x) /\ x.id \notin IdsOf(r)
    BY HasRange
  <2>2. results' = Keep(results, S)
    BY <1>1
  <2>. HIDE DEF S
  <2>. QED
    BY <2>1, <2>2, InvParts, KeepDeque DEF RepliesOK, Heard
<1>7. RepliesOK'
  BY <1>1, <1>3, <1>6, InvParts DEF RepliesOK
<1>8. QueuesOK'
  BY <1>1, <1>4, <1>5, InvParts DEF QueuesOK
<1>9. SlotsOK' /\ Seats'
  BY <1>1, InvParts DEF SlotsOK, Seats
<1>10. ASSUME NEW q \in Requests
       PROVE  Reading(q)' <=> Reading(q) /\ q # r
  BY <1>3 DEF Reading
<1>11. Cancelled'
  <2>1. ASSUME NEW t \in Ids, Called(t)'
        PROVE  Gone(Req(t))'
    <3>1. Req(t) \in Requests /\ (t \in IdsOf(r) => Req(t) = r)
      BY IdFacts
    <3>2. t \in IdsOf(r) \/ Called(t)
      BY <1>1, <1>5, <2>1 DEF Called
    <3>3. Called(t) => Gone(Req(t))
      BY InvParts DEF Cancelled
    <3>. QED
      BY <1>3, <3>1, <3>2, <3>3 DEF Gone
  <2>. QED
    BY <2>1 DEF Cancelled
<1>12. ASSUME NEW t \in Ids, Req(t) # r
       PROVE  Said(t)' <=> Said(t)
  BY <1>6, <1>12, IdFacts DEF Said
<1>13. Heard'
  <2>1. ASSUME NEW t \in Ids
        PROVE  (t \in waiting)' <=> Reading(Req(t))'
    <3>1. Req(t) \in Requests /\ (t \in IdsOf(r) <=> Req(t) = r)
      BY IdFacts
    <3>. QED
      BY <1>1, <1>10, <3>1, InvParts DEF Heard
  <2>2. ASSUME NEW x \in Replies, Has(results', x)
        PROVE  /\ Reading(Req(x.id))'
               /\ x.kind # "partial" => answers'[x.id] = <<x.kind>>
               /\ answers'[x.id] # <<>> => Said(x.id)'
    <3>1. x.id \in Ids /\ Req(x.id) \in Requests /\ Has(results, x) /\ Req(x.id) # r
      BY <1>6, <2>2, IdFacts DEF Replies
    <3>. QED
      BY <1>1, <1>10, <1>12, <3>1, InvParts DEF Heard
  <2>3. ASSUME NEW t \in Ids
        PROVE  /\ answers'[t] \in {<<>>, <<"final">>, <<"error">>}
               /\ Reading(Req(t))' /\ answers'[t] = <<"error">> => Has(results', [kind |-> "error", id |-> t])
    <3>. DEFINE x == [kind |-> "error", id |-> t]
    <3>1. Req(t) \in Requests /\ (Req(t) # r => t \notin IdsOf(r)) /\ x.id = t
      BY IdFacts
    <3>. HIDE DEF x
    <3>2. /\ answers[t] \in {<<>>, <<"final">>, <<"error">>}
          /\ Reading(Req(t)) /\ answers[t] = <<"error">> => Has(results, x)
      BY InvParts DEF Heard, x
    <3>3. Reading(Req(t))' /\ answers'[t] = <<"error">> => Has(results', x)
      BY <1>1, <1>6, <1>10, <3>1, <3>2
    <3>. QED
      BY <1>1, <3>2, <3>3 DEF x
  <2>. QED
    BY <1>6, <2>1, <2>2, <2>3 DEF Heard
<1>14. ASSUME NEW q \in Requests
       PROVE  Placed(q)'
  <2>1. \A t : Sits(t)' <=> Sits(t)
    BY <1>1 DEF Sits
  <2>2. Apart(q)'
    <3>1. Apart(q)
      BY InvParts
    <3>. QED
      BY <1>1, <1>4, <1>5, <3>1 DEF Apart, Single
  <2>3. CASE q = r
    <3>1. reader'[q].pc \notin {"new", "reading"} /\ reader[q].pc # "new"
      BY <1>3, <2>3 DEF Reading
    <3>2. Carries(q)' => Carries(q)
      BY <1>1, <1>4, <1>5 DEF Carries
    <3>. QED
      BY <1>1, <2>1, <2>2, <3>1, <3>2, InvParts DEF Placed, Reading
  <2>4. CASE q # r
    <3>1. Carries(q)' <=> Carries(q)
      BY <1>1, <1>4, <1>5, <2>4 DEF Carries
    <3>2. ErrorPending(q) => ErrorPending(q)'
      <4>1. SUFFICES ASSUME ErrorPending(q)
                     PROVE  ErrorPending(q)'
        OBVIOUS
      <4>2. PICK t \in IdsOf(q) : Has(results, [kind |-> "error", id |-> t])
        BY <4>1, InvParts, ErrorIs
      <4>3. t \notin IdsOf(r) /\ [kind |-> "error", id |-> t].id = t
        BY <2>4, IdFacts
      <4>4. Has(results', [kind |-> "error", id |-> t])
        BY <1>6, <4>2, <4>3
      <4>. QED
        BY <4>4, ErrorNow
    <3>3. reader'[q] = reader[q]
      BY <1>3, <2>4
    <3>. QED
      BY <1>1, <2>1, <2>2, <3>1, <3>2, <3>3, InvParts DEF Placed, Reading
  <2>. QED
    BY <2>3, <2>4
<1>15. ASSUME NEW q \in Requests
       PROVE  Counted(q)'
  <2>1. CASE q = r
    BY <1>3, <2>1 DEF Counted, Reading
  <2>2. CASE q # r
    <3>1. Due(q)' = Due(q) /\ Told(q)' = Told(q)
      BY <1>1, <1>12, <2>2, IdFacts DEF Due, Told
    <3>. QED
      BY <1>3, <2>2, <3>1, InvParts DEF Counted, Reading
  <2>. QED
    BY <2>1, <2>2
<1>. QED
  BY <1>7, <1>8, <1>9, <1>11, <1>13, <1>14, <1>15 DEF Inv, Typed


\* The result that next() returns: the first one of the reader's.
FirstFor(r, i) ==
    /\ i \in DOMAIN results /\ results[i].id \in IdsOf(r)
    /\ \A j \in DOMAIN results : j < i => results[j].id \notin IdsOf(r)

\* What the reader does with a result that is no error.
Takes(r, i, n, all) ==
    /\ results' = RemoveAt(results, i)
    /\ n = reader[r].received + (IF results[i].kind = "final" THEN 1 ELSE 0)
    /\ all \in BOOLEAN /\ (all <=> n = Cardinality(IdsOf(r)))
    /\ reader' = [reader EXCEPT ![r] = [pc |-> IF all THEN "done" ELSE "reading", received |-> n]]
    /\ waiting' = IF all THEN waiting \ IdsOf(r) ELSE waiting
    /\ UNCHANGED <<queue, deferred, mainvars, slot, answers>>

LEMMA ReceiveIs ==
    ASSUME Inv, NEW r \in Requests, Receive(r)
    PROVE  /\ Reading(r)
           /\ \E i : /\ FirstFor(r, i)
                     /\ \/ results[i].kind = "error" /\ Stop(r, "failed") /\ UNCHANGED <<mainvars, slot, answers>>
                        \/ results[i].kind \in {"partial", "final"} /\ \E n, all : Takes(r, i, n, all)
<1>. DEFINE I == {j \in 1 .. Len(results) : results[j].id \in IdsOf(r)}
            i == IF I # {} THEN Min(I) ELSE 0
<1>1. /\ reader[r].pc = "reading" /\ i # 0
      /\ IF results[i].kind = "error" THEN Stop(r, "failed")
         ELSE /\ results' = RemoveAt(results, i)
              /\ LET n == reader[r].received + (IF results[i].kind = "final" THEN 1 ELSE 0)
                     all == n = Cardinality(IdsOf(r))
                 IN  /\ reader'  = [reader EXCEPT ![r] = [pc |-> IF all THEN "done" ELSE "reading", received |-> n]]
                     /\ waiting' = IF all THEN waiting \ IdsOf(r) ELSE waiting
              /\ UNCHANGED <<queue, deferred>>
      /\ UNCHANGED <<mainvars, slot, answers>>
  BY Zenon DEF Receive, SelectInSeq
<1>2. Len(results) \in Nat /\ DOMAIN results = 1 .. Len(results) /\ \A j \in DOMAIN results : results[j] \in Replies
  BY InvParts, LenProperties, ElementOfSeq DEF RepliesOK
<1>3. FirstFor(r, i)
  <2>1. I \in SUBSET Nat /\ I # {} /\ i = Min(I)
    BY <1>1, <1>2
  <2>2. \A j : j \in I <=> j \in DOMAIN results /\ results[j].id \in IdsOf(r)
    BY <1>2
  <2>. HIDE DEF I, i
  <2>3. i \in I /\ \A j \in I : i <= j
    BY <2>1, MinInSet
  <2>. QED
    BY <1>2, <2>1, <2>2, <2>3 DEF FirstFor
<1>. HIDE DEF i
<1>4. ASSUME results[i].kind # "error"
      PROVE  results[i].kind \in {"partial", "final"} /\ \E n, all : Takes(r, i, n, all)
  <2>1. results[i].kind \in {"partial", "final"}
    BY <1>2, <1>3, <1>4 DEF FirstFor, Replies
  <2>. DEFINE n == reader[r].received + (IF results[i].kind = "final" THEN 1 ELSE 0)
              all == n = Cardinality(IdsOf(r))
  <2>2. /\ results' = RemoveAt(results, i) /\ all \in BOOLEAN
        /\ reader' = [reader EXCEPT ![r] = [pc |-> IF all THEN "done" ELSE "reading", received |-> n]]
        /\ waiting' = IF all THEN waiting \ IdsOf(r) ELSE waiting
        /\ UNCHANGED <<queue, deferred, mainvars, slot, answers>>
    BY <1>1, <1>4
  <2>3. Takes(r, i, n, all)
    BY <2>2, Zenon DEF Takes
  <2>. QED
    BY <2>1, <2>3, Zenon
<1>. QED
  BY <1>1, <1>3, <1>4, Zenon DEF Reading

\* After the removal of result i what is said is the same, but for task results[i].id.
LEMMA TakesSaid ==
    ASSUME Inv, NEW r \in Requests, NEW i, FirstFor(r, i), NEW n, NEW all, Takes(r, i, n, all),
           results[i].kind \in {"partial", "final"}
    PROVE  /\ results' \in Seq(Replies) /\ Ordered(results') /\ results[i] \in Replies /\ Has(results, results[i])
           /\ \A y : Has(results, y) <=> results[i] = y \/ Has(results', y)
           /\ \A u \in Ids : Said(u)' <=> Said(u) /\ (results[i].kind = "final" => u # results[i].id)
           /\ \A y \in Replies : /\ Has(results', y) /\ y.id \in IdsOf(r) /\ answers[y.id] # <<>>
                                 => Said(y.id)'
<1>. DEFINE x == results[i]
<1>1. /\ results \in Seq(Replies) /\ Ordered(results) /\ i \in DOMAIN results /\ results' = RemoveAt(results, i)
      /\ DOMAIN results = 1 .. Len(results) /\ Len(results) \in Nat
  BY InvParts, LenProperties DEF RepliesOK, Heard, FirstFor, Takes
<1>2. /\ results' \in Seq(Replies) /\ x \in Replies
      /\ \A y : /\ Has(results, y) <=> x = y \/ Has(results', y)
                /\ Has(results', y) => \E j \in DOMAIN results : j # i /\ results[j] = y
      /\ Ordered(results') /\ (x.kind # "partial" => ~Has(results', x))
  <2>. DEFINE v == RemoveAt(results, i)
  <2>1. /\ v \in Seq(Replies) /\ results[i] \in Replies
        /\ \A y : /\ Has(results, y) <=> results[i] = y \/ Has(v, y)
                  /\ Once(results, y) => Once(v, y) /\ ~(results[i] = y /\ Has(v, y))
        /\ Ordered(results) => /\ Ordered(v)
                               /\ results[i].kind # "partial" => ~Has(v, results[i])
        /\ \A y : Has(v, y) => \E j \in DOMAIN results : j # i /\ results[j] = y
    BY <1>1, RemoveDeque, ZenonT(30)
  <2>2. results' = v
    BY <1>1
  <2>. HIDE DEF v
  <2>. QED
    BY <1>1, <2>1, <2>2
<1>3. Has(results, x)
  BY <1>1 DEF Has
<1>4. \A y \in Replies : Has(results, y) /\ y.kind # "partial" => answers[y.id] = <<y.kind>>
  BY InvParts DEF Heard
<1>5. ASSUME NEW u \in Ids
      PROVE  Said(u)' <=> Said(u) /\ (x.kind = "final" => u # x.id)
  <2>1. Said(u)' => Said(u)
    BY <1>2 DEF Said
  <2>2. ASSUME Said(u)', x.kind = "final", u = x.id
        PROVE  FALSE
    <3>1. PICK y \in Replies : Has(results', y) /\ y.id = u /\ y.kind # "partial"
      BY <2>2 DEF Said
    <3>2. <<y.kind>> = <<x.kind>>
      BY <1>2, <1>3, <1>4, <2>2, <3>1
    <3>3. y.kind = x.kind
      BY <3>2
    <3>4. x = [kind |-> x.kind, id |-> x.id] /\ y = [kind |-> y.kind, id |-> y.id]
      BY <1>2 DEF Replies
    <3>5. x = y
      BY <2>2, <3>1, <3>3, <3>4
    <3>. QED
      BY <1>2, <2>2, <3>1, <3>5
  <2>3. ASSUME Said(u), x.kind = "final" => u # x.id
        PROVE  Said(u)'
    <3>1. PICK y \in Replies : Has(results, y) /\ y.id = u /\ y.kind # "partial"
      BY <2>3 DEF Said
    <3>2. x # y
      BY <2>3, <3>1
    <3>. QED
      BY <1>2, <3>1, <3>2 DEF Said
  <2>. QED
    BY <2>1, <2>2, <2>3
<1>6. ASSUME NEW y \in Replies, Has(results', y), y.id \in IdsOf(r), answers[y.id] # <<>>
      PROVE  Said(y.id)'
  <2>1. y.id \in Ids /\ Said(y.id)
    BY <1>2, <1>6, InvParts DEF Heard, Replies
  <2>2. ASSUME x.kind = "final", y.id = x.id
        PROVE  FALSE
    <3>1. PICK j \in DOMAIN results : j # i /\ results[j] = y
      BY <1>2, <1>6
    <3>2. ~(j < i)
      BY <1>6, <3>1 DEF FirstFor
    <3>3. i < j
      BY <1>1, <3>1, <3>2
    <3>. QED
      BY <1>1, <2>2, <3>1, <3>3 DEF Ordered
  <2>. QED
    BY <1>5, <2>1, <2>2
<1>. QED
  BY <1>2, <1>3, <1>5, <1>6


\* The counter stays right; and when it says that all are there, they are and are final,
\* and no result of the request is left.
LEMMA TakesCounts ==
    ASSUME Inv, NEW r \in Requests, Reading(r), NEW i, FirstFor(r, i), NEW n, NEW all, Takes(r, i, n, all),
           results[i].kind \in {"partial", "final"}
    PROVE  /\ n \in Nat /\ n + Cardinality(Due(r)') = Cardinality(Told(r)) /\ Told(r)' = Told(r)
           /\ all => /\ \A t \in IdsOf(r) : answers[t] = <<"final">>
                     /\ \A y \in Replies : Has(results', y) => y.id \notin IdsOf(r)
<1>. DEFINE x == results[i]
            c == reader[r].received
            d == Cardinality(Due(r))
            e == Cardinality(Due(r)')
            m == Cardinality(Told(r))
            l == Cardinality(IdsOf(r))
<1>1. /\ x \in Replies /\ Has(results, x) /\ \A y : Has(results, y) <=> x = y \/ Has(results', y)
      /\ \A u \in Ids : Said(u)' <=> Said(u) /\ (x.kind = "final" => u # x.id)
      /\ \A y \in Replies : /\ Has(results', y) /\ y.id \in IdsOf(r) /\ answers[y.id] # <<>>
                            => Said(y.id)'
  BY TakesSaid
<1>2. /\ n = c + (IF x.kind = "final" THEN 1 ELSE 0) /\ (all <=> n = l) /\ UNCHANGED answers
      /\ x.id \in IdsOf(r)
  BY DEF Takes, FirstFor
<1>3. c \in Nat /\ c + d = m
  BY InvParts DEF RepliesOK, Readers, Counted
<1>4. IdsOf(r) \subseteq Ids
  BY IdFacts
<1>5. /\ Due(r) \in SUBSET IdsOf(r) /\ Due(r)' \in SUBSET IdsOf(r) /\ Told(r) \in SUBSET IdsOf(r)
      /\ Told(r)' = Told(r)
  BY <1>2 DEF Due, Told
<1>6. /\ d \in Nat /\ e \in Nat /\ m \in Nat /\ l \in Nat /\ m <= l
      /\ IsFiniteSet(Due(r)) /\ IsFiniteSet(Due(r)') /\ IsFiniteSet(IdsOf(r))
  BY <1>5, IdsOfFinite
<1>7. n \in Nat /\ n + e = m
  <2>1. CASE x.kind = "final"
    <3>1. Due(r)' = Due(r) \ {x.id}
      BY <1>1, <1>4, <2>1 DEF Due
    <3>2. x.id \in Due(r)
      BY <1>1, <1>2, <2>1 DEF Due, Said
    <3>3. e = d - 1
      BY <1>6, <3>1, <3>2, FS_RemoveElement
    <3>. QED
      BY <1>2, <1>3, <1>6, <2>1, <3>3
  <2>2. CASE x.kind # "final"
    <3>1. Due(r)' = Due(r)
      BY <1>1, <1>4, <2>2 DEF Due
    <3>. QED
      BY <1>2, <1>3, <1>6, <2>2, <3>1
  <2>. QED
    BY <2>1, <2>2
<1>8. ASSUME all
      PROVE  /\ \A t \in IdsOf(r) : answers[t] = <<"final">>
             /\ \A y \in Replies : Has(results', y) => y.id \notin IdsOf(r)
  <2>1. e = 0 /\ m = l
    BY <1>2, <1>6, <1>7, <1>8
  <2>2. Due(r)' = {}
    BY <1>6, <2>1, FS_EmptySet
  <2>3. Told(r) = IdsOf(r)
    BY <1>5, <1>6, <2>1, FS_Subset
  <2>4. ASSUME NEW y \in Replies, Has(results', y), y.id \in IdsOf(r)
        PROVE  FALSE
    <3>1. answers[y.id] # <<>>
      BY <2>3, <2>4 DEF Told
    <3>2. y.id \in Due(r)'
      BY <1>1, <2>4, <3>1 DEF Due
    <3>. QED
      BY <2>2, <3>2
  <2>5. ASSUME NEW t \in IdsOf(r)
        PROVE  answers[t] = <<"final">>
    <3>. DEFINE y == [kind |-> "error", id |-> t]
    <3>1. t \in Ids /\ Req(t) = r /\ answers[t] # <<>>
      BY <2>3, IdFacts DEF Told
    <3>2. y \in Replies /\ y.id = t /\ y.kind = "error" /\ x.kind # "error"
      BY <3>1 DEF Replies
    <3>3. answers[t] = <<"error">> => Has(results, y)
      BY <3>1, InvParts DEF Heard
    <3>. HIDE DEF y
    <3>4. ~Has(results, y)
      BY <1>1, <2>4, <3>2
    <3>. QED
      BY <3>1, <3>3, <3>4, InvParts DEF Heard
  <2>. QED
    BY <2>4, <2>5
<1>. QED
  BY <1>5, <1>7, <1>8

LEMMA TakesStep ==
    ASSUME Inv, NEW r \in Requests, Reading(r), NEW i, FirstFor(r, i), NEW n, NEW all, Takes(r, i, n, all),
           results[i].kind \in {"partial", "final"}
    PROVE  Inv'
<1>. DEFINE x == results[i]
<1>1. /\ results' \in Seq(Replies) /\ Ordered(results') /\ x \in Replies /\ Has(results, x)
      /\ \A y : Has(results, y) <=> x = y \/ Has(results', y)
      /\ \A u \in Ids : Said(u)' <=> Said(u) /\ (x.kind = "final" => u # x.id)
      /\ \A y \in Replies : /\ Has(results', y) /\ y.id \in IdsOf(r) /\ answers[y.id] # <<>>
                            => Said(y.id)'
  BY TakesSaid
<1>2. /\ n \in Nat /\ n + Cardinality(Due(r)') = Cardinality(Told(r)) /\ Told(r)' = Told(r)
      /\ all => \A y \in Replies : Has(results', y) => y.id \notin IdsOf(r)
  BY TakesCounts
<1>3. /\ reader' = [reader EXCEPT ![r] = [pc |-> IF all THEN "done" ELSE "reading", received |-> n]]
      /\ waiting' = IF all THEN waiting \ IdsOf(r) ELSE waiting
      /\ all \in BOOLEAN /\ x.id \in IdsOf(r)
      /\ UNCHANGED <<queue, deferred, hand, pc, turn, batch, slot, answers>>
  BY DEF Takes, mainvars, FirstFor
<1>4. /\ reader' \in [Requests -> Readers] /\ reader'[r].received = n
      /\ reader'[r].pc = IF all THEN "done" ELSE "reading"
      /\ \A q \in Requests : q # r => reader'[q] = reader[q]
  BY <1>2, <1>3, InvParts DEF RepliesOK, Readers
<1>5. Typed' /\ Seats'
  BY <1>1, <1>3, <1>4, InvParts DEF Typed, QueuesOK, SlotsOK, RepliesOK, Seats
<1>6. ASSUME NEW q \in Requests
      PROVE  /\ Reading(q)' <=> Reading(q) /\ (q = r => ~all)
             /\ Gone(q)' <=> Gone(q)
             /\ reader'[q].pc = "new" <=> reader[q].pc = "new"
  BY <1>3, <1>4 DEF Reading, Gone
<1>7. Cancelled'
  BY <1>3, <1>6, InvParts, IdFacts DEF Cancelled, Called
<1>8. ASSUME NEW u \in Ids
      PROVE  Has(results, [kind |-> "error", id |-> u]) => Has(results', [kind |-> "error", id |-> u])
  <2>1. [kind |-> "error", id |-> u].kind = "error" /\ x.kind # "error"
    OBVIOUS
  <2>. QED
    BY <1>1, <2>1
<1>9. Heard'
  <2>1. ASSUME NEW t \in Ids
        PROVE  (t \in waiting)' <=> Reading(Req(t))'
    <3>1. Req(t) \in Requests /\ (t \in IdsOf(r) <=> Req(t) = r)
      BY IdFacts
    <3>. QED
      BY <1>3, <1>6, <3>1, InvParts DEF Heard
  <2>2. ASSUME NEW y \in Replies, Has(results', y)
        PROVE  /\ Reading(Req(y.id))'
               /\ y.kind # "partial" => answers'[y.id] = <<y.kind>>
               /\ answers'[y.id] # <<>> => Said(y.id)'
    <3>1. y.id \in Ids /\ Req(y.id) \in Requests /\ (y.id \in IdsOf(r) <=> Req(y.id) = r)
      BY IdFacts DEF Replies
    <3>2. Has(results, y)
      BY <1>1, <2>2
    <3>3. /\ Reading(Req(y.id)) /\ (y.kind # "partial" => answers[y.id] = <<y.kind>>)
          /\ answers[y.id] # <<>> => Said(y.id)
      BY <3>2, InvParts DEF Heard
    <3>4. Reading(Req(y.id))'
      BY <1>2, <1>6, <2>2, <3>1, <3>3
    <3>5. answers[y.id] # <<>> => Said(y.id)'
      BY <1>1, <1>3, <2>2, <3>1, <3>3
    <3>. QED
      BY <1>3, <3>3, <3>4, <3>5
  <2>3. ASSUME NEW t \in Ids
        PROVE  /\ answers'[t] \in {<<>>, <<"final">>, <<"error">>}
               /\ Reading(Req(t))' /\ answers'[t] = <<"error">> => Has(results', [kind |-> "error", id |-> t])
    <3>1. Req(t) \in Requests
      BY IdFacts
    <3>2. /\ answers[t] \in {<<>>, <<"final">>, <<"error">>}
          /\ Reading(Req(t)) /\ answers[t] = <<"error">> => Has(results, [kind |-> "error", id |-> t])
      BY InvParts DEF Heard
    <3>3. Reading(Req(t))' /\ answers'[t] = <<"error">> => Has(results', [kind |-> "error", id |-> t])
      BY <1>3, <1>6, <1>8, <3>1, <3>2
    <3>. QED
      BY <1>3, <3>2, <3>3
  <2>. QED
    BY <1>1, <2>1, <2>2, <2>3 DEF Heard
<1>10. ASSUME NEW q \in Requests
       PROVE  Placed(q)'
  <2>1. /\ Apart(q)' <=> Apart(q)
        /\ Carries(q)' <=> Carries(q)
        /\ \A t : Sits(t)' <=> Sits(t)
    BY <1>3 DEF Apart, Carries, Sits
  <2>2. ErrorPending(q) => ErrorPending(q)'
    <3>1. SUFFICES ASSUME ErrorPending(q)
                   PROVE  ErrorPending(q)'
      OBVIOUS
    <3>2. PICK t \in IdsOf(q) : Has(results, [kind |-> "error", id |-> t])
      BY <3>1, InvParts, ErrorIs
    <3>3. Has(results', [kind |-> "error", id |-> t])
      BY <1>8, <3>2, IdFacts
    <3>. QED
      BY <3>3, ErrorNow
  <2>. QED
    BY <1>3, <1>6, <2>1, <2>2, InvParts DEF Placed
<1>11. ASSUME NEW q \in Requests
       PROVE  Counted(q)'
  <2>1. CASE q = r
    <3>1. reader'[r].pc # "new"
      BY <1>3, <1>4
    <3>. QED
      BY <1>2, <1>4, <2>1, <3>1 DEF Counted
  <2>2. CASE q # r
    <3>1. \A t \in IdsOf(q) : t \in Ids /\ t \notin IdsOf(r)
      BY <2>2, IdFacts
    <3>2. Due(q)' = Due(q) /\ Told(q)' = Told(q)
      BY <1>1, <1>3, <3>1 DEF Due, Told
    <3>. QED
      BY <1>4, <1>6, <2>2, <3>2, InvParts DEF Counted
  <2>. QED
    BY <2>1, <2>2
<1>. QED
  BY <1>5, <1>7, <1>9, <1>10, <1>11 DEF Inv

LEMMA ReceiveStep ==
    ASSUME Inv, NEW r \in Requests, Receive(r)
    PROVE  Inv'
<1>1. PICK i : /\ Reading(r) /\ FirstFor(r, i)
               /\ \/ results[i].kind = "error" /\ Stop(r, "failed") /\ UNCHANGED <<mainvars, slot, answers>>
                  \/ results[i].kind \in {"partial", "final"} /\ \E n, all : Takes(r, i, n, all)
  BY ReceiveIs
<1>2. CASE Stop(r, "failed") /\ UNCHANGED <<mainvars, slot, answers>>
  BY <1>1, <1>2, StopStep
<1>3. CASE results[i].kind \in {"partial", "final"} /\ \E n, all : Takes(r, i, n, all)
  BY <1>1, <1>3, TakesStep
<1>. QED
  BY <1>1, <1>2, <1>3

LEMMA DisconnectStep ==
    ASSUME Inv, NEW r \in Requests, Disconnect(r)
    PROVE  Inv'
BY StopStep DEF Disconnect, Reading

-----------------------------------------------------------------------------
(* The invariant.                                                          *)

LEMMA InitInv ==
    ASSUME Init
    PROVE  Inv
<1>1. /\ queue = <<>> /\ deferred = <<>> /\ hand = NoItem /\ pc = "take" /\ turn = 0 /\ batch = {}
      /\ slot = [s \in Slots |-> Idle] /\ waiting = {} /\ results = <<>>
      /\ reader = [r \in Requests |-> [pc |-> "new", received |-> 0]]
      /\ answers = [t \in Ids |-> <<>>]
  BY DEF Init
<1>2. Idle \in SlotSet /\ Idle.id = NoId /\ Idle.state = "IDLE"
  BY DEF Idle, SlotSet, SlotStates
<1>3. QueuesOK
  BY <1>1 DEF QueuesOK, Phases
<1>4. SlotsOK /\ Seats
  BY <1>1, <1>2, SlotsAssumption DEF SlotsOK, Seats, Slots
<1>5. /\ \A r \in Requests : reader[r].pc = "new" /\ reader[r].received = 0
      /\ \A t \in Ids : answers[t] = <<>>
  BY <1>1
<1>6. RepliesOK
  BY <1>1 DEF RepliesOK, Readers
<1>7. \A x : ~Has(queue, x) /\ ~Has(deferred, x) /\ ~Has(results, x) /\ Once(queue, x) /\ Once(deferred, x)
  BY <1>1, EmptyDeque
<1>8. \A t \in Ids : ~Sits(t)
  BY <1>1, <1>2, IdFacts DEF Sits
<1>9. Cancelled
  <2>1. \A t \in Ids : hand # Cancel(t)
    BY <1>1, ItemFacts
  <2>. QED
    BY <1>7, <2>1 DEF Cancelled, Called
<1>10. Heard
  BY <1>1, <1>5, <1>7, EmptyDeque, IdFacts DEF Heard, Reading
<1>11. ASSUME NEW r \in Requests
       PROVE  Placed(r) /\ Counted(r)
  <2>1. Apart(r) /\ ~Carries(r)
    BY <1>1, <1>7, ItemFacts DEF Apart, Single, Carries
  <2>2. IdsOf(r) \subseteq Ids
    BY IdFacts
  <2>3. Placed(r)
    BY <1>5, <1>8, <2>1, <2>2 DEF Placed, Reading
  <2>4. Counted(r)
    BY <1>5 DEF Counted, Reading
  <2>. QED
    BY <2>3, <2>4
<1>. QED
  BY <1>3, <1>4, <1>6, <1>9, <1>10, <1>11 DEF Inv, Typed

LEMMA StutterInv ==
    ASSUME Inv, UNCHANGED vars
    PROVE  Inv'
<1>1. UNCHANGED <<queue, deferred, hand, pc, turn, batch, slot, waiting, results, reader, answers>>
  BY DEF vars, mainvars
<1>2. Moves({})
  BY <1>1, InvParts, StayMoves DEF QueuesOK
<1>3. Frees({})
  BY <1>1, InvParts, StayFrees DEF SlotsOK
<1>4. Says({}, "partial")
  BY <1>1, InvParts, SilentSays
<1>. QED
  BY <1>1, <1>2, <1>3, <1>4, QuietStep

LEMMA NextInv ==
    ASSUME Inv, [Next]_vars
    PROVE  Inv'
<1>1. CASE Take
  BY <1>1, TakeStep
<1>2. CASE Process
  BY <1>2, LaunchStep, LaunchFailsStep, DeferStep, SlotActionStep, CancelTaskStep, NextResponseStep DEF Process
<1>3. CASE Update
  BY <1>3, UpdateBeginStep, UpdateIdleStep, PreSkipStep, PreEndsStep, DecodeOkStep, AbortAllStep,
     PreGeneratingStep, PrePromptStep, PostSkipStep, PostTokenStep, PostEndsStep DEF Update
<1>4. ASSUME NEW r \in Requests, Client(r)
      PROVE  Inv'
  BY <1>4, OpenStep, ReceiveStep, DisconnectStep DEF Client
<1>5. CASE UNCHANGED vars
  BY <1>5, StutterInv
<1>. QED
  BY <1>1, <1>2, <1>3, <1>4, <1>5 DEF Next

LEMMA Invariance == Spec => []Inv
<1>. QED
  BY InitInv, NextInv, PTL DEF Spec

-----------------------------------------------------------------------------
(* Every task is in one place.                                             *)

LEMMA AtMostOne ==
    ASSUME NEW S, \A a, b \in S : a = b
    PROVE  Cardinality(S) = IF S = {} THEN 0 ELSE 1
<1>1. CASE S = {}
  BY <1>1, FS_EmptySet
<1>2. CASE S # {}
  <2>1. PICK a : S = {a}
    BY <1>2
  <2>. QED
    BY <1>2, <2>1, FS_Singleton
<1>. QED
  BY <1>1, <1>2

LEMMA PlacesIs ==
    ASSUME Inv, NEW r \in Requests, NEW t \in IdsOf(r)
    PROVE  Places(t) = IF Carries(r) \/ Sits(t) THEN 1 ELSE 0
<1>. DEFINE x == Task(Own(r))
            A == {i \in DOMAIN queue : queue[i] = x} \X {"queue"}
            B == {i \in DOMAIN deferred : deferred[i] = x} \X {"deferred"}
            C == {1} \X (IF hand = x THEN {"hand"} ELSE {})
<1>1. t \in Ids /\ Req(t) = r /\ t # NoId /\ Parent(t) = Own(r)
  BY IdFacts DEF Parent, Own, Req
<1>2. Carried(t) = A \cup B \cup C
  BY <1>1 DEF Carried
<1>3. \A c \in A : \E i \in DOMAIN queue : c = <<i, "queue">> /\ queue[i] = x
  OBVIOUS
<1>4. \A c \in B : \E i \in DOMAIN deferred : c = <<i, "deferred">> /\ deferred[i] = x
  OBVIOUS
<1>5. \A c \in C : c = <<1, "hand">> /\ hand = x
  OBVIOUS
<1>6. /\ A # {} <=> Has(queue, x)
      /\ B # {} <=> Has(deferred, x)
      /\ C # {} <=> hand = x
  <2>1. \A i \in DOMAIN queue : queue[i] = x => <<i, "queue">> \in A
    OBVIOUS
  <2>2. \A i \in DOMAIN deferred : deferred[i] = x => <<i, "deferred">> \in B
    OBVIOUS
  <2>3. hand = x => <<1, "hand">> \in C
    OBVIOUS
  <2>. HIDE DEF A, B, C
  <2>. QED
    BY <1>3, <1>4, <1>5, <2>1, <2>2, <2>3 DEF Has
<1>7. /\ Once(queue, x) /\ Once(deferred, x) /\ ~(Has(queue, x) /\ Has(deferred, x))
      /\ hand = x => ~Has(queue, x) /\ ~Has(deferred, x)
  BY InvParts DEF Apart, Single
<1>. HIDE DEF A, B, C
<1>8. \A a, b \in A \cup B \cup C : a = b
  <2>1. \A a, b \in A : a = b
    BY <1>3, <1>7 DEF Once
  <2>2. \A a, b \in B : a = b
    BY <1>4, <1>7 DEF Once
  <2>3. \A a, b \in C : a = b
    BY <1>5
  <2>4. (A = {} \/ B = {}) /\ (C = {} \/ (A = {} /\ B = {}))
    BY <1>6, <1>7
  <2>. QED
    BY <2>1, <2>2, <2>3, <2>4
<1>9. Carried(t) # {} <=> Carries(r)
  BY <1>2, <1>6 DEF Carries
<1>10. Cardinality(Carried(t)) = IF Carries(r) THEN 1 ELSE 0
  BY <1>2, <1>8, <1>9, AtMostOne
<1>11. \A a, b \in InSlots(t) : a = b
  BY <1>1, InvParts DEF InSlots, Seats
<1>12. InSlots(t) # {} <=> Sits(t)
  BY DEF InSlots, Sits
<1>13. Cardinality(InSlots(t)) = IF Sits(t) THEN 1 ELSE 0
  BY <1>11, <1>12, AtMostOne
<1>14. ~(Carries(r) /\ Sits(t))
  BY InvParts DEF Placed
<1>. QED
  BY <1>10, <1>13, <1>14 DEF Places

LEMMA InvTypeOK ==
    ASSUME Inv
    PROVE  TypeOK
<1>1. QItems \subseteq Items /\ DItems \subseteq {Task(t) : t \in Ids}
  BY IdFacts DEF QItems, DItems
<1>2. queue \in Seq(Items)
  BY <1>1, InvParts, ElementOfSeq, LenProperties DEF QueuesOK
<1>3. deferred \in Seq({Task(t) : t \in Ids})
  BY <1>1, InvParts, ElementOfSeq, LenProperties DEF QueuesOK
<1>4. hand \in Items \cup {NoItem} /\ pc \in {"take", "process", "gen", "prompt", "decode", "post", "wait"}
  BY <1>1, InvParts DEF QueuesOK, Phases
<1>5. turn \in Slots /\ batch \subseteq Slots /\ slot \in [Slots -> [state : SlotStates, id : Ids \cup {NoId}, n : Nat]]
  BY InvParts DEF SlotsOK, SlotSet
<1>. QED
  BY <1>2, <1>3, <1>4, <1>5, InvParts DEF TypeOK, RepliesOK, Replies, Readers

LEMMA InvInOnePlace ==
    ASSUME Inv
    PROVE  InOnePlace
<1>1. ASSUME NEW r \in Requests, NEW t \in IdsOf(r)
      PROVE  /\ Places(t) <= 1
             /\ Reading(r) => Places(t) = 1 \/ Len(answers[t]) = 1 \/ ErrorPending(r)
             /\ answers[t] # <<>> => Places(t) = 0
  <2>1. Places(t) = IF Carries(r) \/ Sits(t) THEN 1 ELSE 0
    BY PlacesIs
  <2>2. answers[t] \in {<<>>, <<"final">>, <<"error">>}
    BY InvParts, IdFacts DEF Heard
  <2>3. answers[t] # <<>> => Len(answers[t]) = 1
    BY <2>2
  <2>. QED
    BY <2>1, <2>3, InvParts DEF Placed
<1>. QED
  BY <1>1, InvTypeOK DEF InOnePlace

\* While its reader waits a task is in exactly one place - the queue, the deferred
\* tasks, the main thread's hand or one slot - until it is answered or an error of its
\* request is on the way, and after its answer in none (launch, defer, release,
\* pop_deferred_task), for any requests and any number of slots.
THEOREM SpecInOnePlace == Spec => []InOnePlace
<1>. QED
  BY Invariance, InvInOnePlace, PTL

-----------------------------------------------------------------------------
(* No answer is lost.                                                      *)

LEMMA InvAnswers ==
    ASSUME Inv
    PROVE  AnswersReachReaders
<1>1. /\ results \in Seq(Replies) /\ Ordered(results)
      /\ Len(results) \in Nat /\ DOMAIN results = 1 .. Len(results)
      /\ \A i \in DOMAIN results : results[i] \in Replies /\ Has(results, results[i])
  BY InvParts, LenProperties, ElementOfSeq DEF RepliesOK, Heard, Has
<1>2. ASSUME NEW r \in Requests, Reading(r)
      PROVE  reader[r].received + Cardinality({i \in PendingFor(r) : results[i].kind # "partial"})
                = Cardinality({t \in IdsOf(r) : answers[t] # <<>>})
  <2>. DEFINE P == {i \in PendingFor(r) : results[i].kind # "partial"}
              f == [i \in P |-> results[i].id]
  <2>1. \A i : i \in P <=> i \in DOMAIN results /\ results[i].id \in IdsOf(r) /\ results[i].kind # "partial"
    BY DEF PendingFor
  <2>2. IsFiniteSet(P)
    <3>1. P \in SUBSET (1 .. Len(results))
      BY <1>1, <2>1
    <3>2. IsFiniteSet(1 .. Len(results))
      BY <1>1, FS_Interval
    <3>. QED
      BY <3>1, <3>2, FS_Subset
  <2>. HIDE DEF P
  <2>3. ASSUME NEW i \in P, NEW j \in P, results[i].id = results[j].id
        PROVE  i = j
    <3>1. ~(i < j) /\ ~(j < i)
      BY <1>1, <2>1, <2>3 DEF Ordered
    <3>. QED
      BY <1>1, <2>1, <3>1
  <2>4. ASSUME NEW i \in P
        PROVE  results[i].id \in Due(r)
    BY <1>1, <2>1 DEF Due, Said
  <2>5. ASSUME NEW t \in Due(r)
        PROVE  \E i \in P : results[i].id = t
    BY <2>1 DEF Due, Said, Has
  <2>6. f \in Bijection(P, Due(r))
    BY <2>3, <2>4, <2>5 DEF Bijection, Injection, Surjection, IsInjective
  <2>7. Cardinality(P) = Cardinality(Due(r))
    BY <2>2, <2>6, FS_Bijection DEF ExistsBijection
  <2>8. reader[r].received + Cardinality(Due(r)) = Cardinality(Told(r))
    BY <1>2, InvParts DEF Counted
  <2>. QED
    BY <2>7, <2>8 DEF P, Told
<1>3. \A i, j \in DOMAIN results :
          i < j /\ results[i].id = results[j].id => results[i].kind = "partial"
  BY <1>1 DEF Ordered
<1>4. \A t \in Ids : Len(answers[t]) <= 1
  <2>1. ASSUME NEW t \in Ids
        PROVE  Len(answers[t]) <= 1
    <3>1. answers[t] \in {<<>>, <<"final">>, <<"error">>}
      BY InvParts DEF Heard
    <3>2. CASE answers[t] = <<>>
      <4>1. Len(answers[t]) = 0
        BY <3>2
      <4>. QED
        BY <4>1
    <3>3. CASE answers[t] # <<>>
      <4>1. Len(answers[t]) = 1
        BY <3>1, <3>3
      <4>. QED
        BY <4>1
    <3>. QED
      BY <3>2, <3>3
  <2>. QED
    BY <2>1
<1>5. \A i \in DOMAIN results : Reading(Req(results[i].id))
  BY <1>1, InvParts DEF Heard
<1>. QED
  BY <1>2, <1>3, <1>4, <1>5 DEF AnswersReachReaders

\* Every answer sent to a reader that still waits was taken by it or is in queue_results,
\* no more than one per task and after its partial results, and queue_results holds
\* nothing for a reader that has left (send, next, stop), for any requests.
THEOREM SpecAnswersReachReaders == Spec => []AnswersReachReaders
<1>. QED
  BY Invariance, InvAnswers, PTL


-----------------------------------------------------------------------------
(* The refinement: every step of the server is a step of the life of the  *)
(* requests (RequestLife), or none.                                       *)

Phase   == [r \in Requests |-> reader[r].pc]
Running == {slot[s].id : s \in Processing}

-----------------------------------------------------------------------------
(* What RequestLife says, of this state.                                   *)

LEMMA TasksAre == \A r \in Requests : Life!TasksOf(r) = IdsOf(r)
BY DEF Life!TasksOf, IdsOf, Id

\* The tasks that run are those that sit in a slot.
LEMMA RunningIs ==
    ASSUME SlotsOK, Seats
    PROVE  Running \subseteq Ids /\ \A t \in Ids : t \in Running <=> Sits(t)
<1>1. \A s \in Slots : slot[s].id \in Ids \cup {NoId} /\ (s \in Processing <=> slot[s].id # NoId)
  BY DEF SlotsOK, SlotSet, Seats, Processing
<1>2. NoId \notin Ids /\ Processing \subseteq Slots
  BY IdFacts DEF Processing
<1>. QED
  BY <1>1, <1>2 DEF Running, Sits

\* RequestLife counts as ServerTasks does.
LEMMA SameCardinality == \A S : Life!Cardinality(S) = Cardinality(S)
BY Zenon DEF Life!Cardinality, Cardinality

\* There are no more tasks in slots than slots.
LEMMA SeatsAreFew ==
    ASSUME NEW P \in SUBSET Slots, NEW seats
    PROVE  /\ IsFiniteSet({seats[s].id : s \in P})
           /\ Cardinality({seats[s].id : s \in P}) \in Nat
           /\ Cardinality({seats[s].id : s \in P}) <= NumSlots
<1>. DEFINE f == [s \in P |-> seats[s].id]
            T == {seats[s].id : s \in P}
<1>1. NumSlots \in Nat /\ Slots = 0 .. NumSlots - 1
  BY SlotsAssumption DEF Slots
<1>2. IsFiniteSet(Slots) /\ Cardinality(Slots) = NumSlots
  BY <1>1, FS_Interval
<1>3. IsFiniteSet(P) /\ Cardinality(P) <= NumSlots /\ Cardinality(P) \in Nat
  BY <1>1, <1>2, FS_Subset, FS_CardinalityType
<1>4. f \in Surjection(P, T)
  BY DEF Surjection
<1>. HIDE DEF f, T
<1>5. IsFiniteSet(T) /\ Cardinality(T) <= Cardinality(P)
  BY <1>3, <1>4, FS_Surjection
<1>6. Cardinality(T) \in Nat
  BY <1>5, FS_CardinalityType
<1>7. Cardinality(T) <= NumSlots
  BY <1>1, <1>3, <1>5, <1>6
<1>. QED
  BY <1>5, <1>6, <1>7 DEF T

LEMMA StartsAs ==
    ASSUME Init
    PROVE  Life!Init
<1>1. /\ slot = [s \in Slots |-> Idle] /\ answers = [t \in Ids |-> <<>>]
      /\ reader = [r \in Requests |-> [pc |-> "new", received |-> 0]]
  BY DEF Init
<1>2. [r \in Requests |-> reader[r].pc] = [r \in Requests |-> "new"]
  BY <1>1
<1>3. Processing = {}
  BY <1>1 DEF Processing, Idle
<1>4. UNION {Life!TasksOf(r) : r \in Requests} = Ids
  BY TasksAre DEF Ids
<1>. QED
  BY <1>1, <1>2, <1>3, <1>4 DEF Life!Init

\* A step in which nobody starts, ends, leaves or is answered.
LEMMA Stutters ==
    ASSUME UNCHANGED <<reader, answers>>, Running' = Running
    PROVE  UNCHANGED Life!vars
BY DEF Life!vars, Running

-----------------------------------------------------------------------------
(* Tasks start, end and are dropped.                                       *)

LEMMA OpenIs ==
    ASSUME Inv, NEW r \in Requests, reader[r].pc # "new", NEW t \in IdsOf(r), answers[t] = <<>>
    PROVE  t \in Life!Open
<1>1. Phase[r] # "new" /\ t \in Life!TasksOf(r)
  BY TasksAre DEF Phase
<1>. QED
  BY <1>1 DEF Life!Open, Life!Posted, Phase

\* The tasks of T are answered: one task, or all that run, with an error.
Ends(T, kind) ==
    /\ Answers(T, kind) /\ Running' = Running \ T
    /\ T # {} /\ ((\E t : T = {t}) \/ (kind = "error" /\ T = Running))

LEMMA AnswersAs ==
    ASSUME Inv, NEW T, NEW kind \in {"final", "error"}, Ends(T, kind)
    PROVE  Life!Next
<1>. Answers(T, kind) /\ Running' = Running \ T /\ T # {} /\ ((\E t : T = {t}) \/ (kind = "error" /\ T = Running))
  BY DEF Ends
<1>1. /\ T \subseteq Ids /\ reader' = reader
      /\ \A t \in T : answers[t] = <<>> /\ reader[Req(t)].pc # "new"
      /\ answers' = [t \in Ids |-> IF t \in T THEN <<kind>> ELSE answers[t]]
  BY DEF Answers, Says
<1>2. \A t \in T : t \in Life!Open
  BY <1>1, IdFacts, OpenIs
<1>3. DOMAIN answers = Ids
  BY InvParts DEF RepliesOK
<1>4. (\E t : T = {t}) => Cardinality(T) = 1
  BY FS_Singleton
<1>5. Life!Answer(T, kind)
  BY <1>1, <1>2, <1>3, <1>4, SameCardinality DEF Life!Answer, Running
<1>6. CASE \E t : T = {t}
  <2>1. PICK t \in Life!Open : T = {t}
    BY <1>2, <1>6
  <2>. QED
    BY <1>5, <2>1 DEF Life!Next
<1>7. CASE T = Running
  BY <1>5, <1>7 DEF Life!Next, Running
<1>. QED
  BY <1>6, <1>7

\* A task leaves its slot, after its reader has gone.
LEMMA DropsAs ==
    ASSUME Inv, NEW t \in Running, Gone(Req(t)), Running' = Running \ {t}, UNCHANGED <<reader, answers>>
    PROVE  Life!Next
<1>1. Req(t) \in Requests
  BY InvParts, RunningIs, IdFacts
<1>2. Phase[t[1]] \in {"failed", "stopped"}
  BY <1>1 DEF Phase, Gone, Req
<1>3. Life!Drop(t)
  BY <1>2 DEF Life!Drop, Phase, Running
<1>. QED
  BY <1>3 DEF Life!Next, Running

\* The tasks of a request enter their slots.
LEMMA StartsAll ==
    ASSUME Inv, NEW r \in Requests, reader[r].pc # "new",
           \A t \in IdsOf(r) : answers[t] = <<>> /\ t \notin Running,
           Running' = Running \cup IdsOf(r), UNCHANGED <<reader, answers>>
    PROVE  Life!Next
<1>1. IdsOf(r) \subseteq Life!Open \ Running
  BY OpenIs
<1>2. Cardinality(Running) + Cardinality(IdsOf(r)) <= NumSlots
  <2>. DEFINE n == Cardinality(Running)
              m == Cardinality(IdsOf(r))
  <2>1. IsFiniteSet(Running) /\ n \in Nat /\ IsFiniteSet(IdsOf(r)) /\ m \in Nat
    <3>1. Running = {slot[s].id : s \in Processing} /\ Processing \in SUBSET Slots
      BY DEF Running, Processing
    <3>2. IsFiniteSet(Running) /\ Cardinality(Running) \in Nat
      BY <3>1, SeatsAreFew
    <3>. QED
      BY <3>2, IdsOfFinite
  <2>2. Running \cap IdsOf(r) = {} /\ Cardinality({}) = 0
    BY FS_EmptySet
  <2>3. Cardinality(Running \cup IdsOf(r)) = n + m - Cardinality(Running \cap IdsOf(r))
    BY <2>1, FS_Union
  <2>4. Cardinality(Running \cap IdsOf(r)) = 0
    BY <2>2
  <2>5. Cardinality(Running)' <= NumSlots
    <3>1. Running' = {slot'[s].id : s \in Processing'} /\ Processing' \in SUBSET Slots
      BY DEF Running, Processing
    <3>2. PICK P \in SUBSET Slots : P = Processing'
      BY <3>1
    <3>3. PICK seats : seats = slot'
      OBVIOUS
    <3>4. Running' = {seats[s].id : s \in P}
      BY <3>1, <3>2, <3>3
    <3>5. Cardinality({seats[s].id : s \in P}) <= NumSlots
      BY SeatsAreFew
    <3>. QED
      BY <3>4, <3>5
  <2>6. Cardinality(Running)' = Cardinality(Running \cup IdsOf(r))
    OBVIOUS
  <2>. HIDE DEF n, m
  <2>7. n + m <= NumSlots
    BY <2>1, <2>3, <2>4, <2>5, <2>6
  <2>. QED
    BY <2>7 DEF n, m
<1>3. Life!TasksOf(r) = IdsOf(r)
  BY TasksAre
<1>4. Life!Start(r)
  BY <1>1, <1>2, <1>3, SameCardinality DEF Life!Start, Running
<1>. QED
  BY <1>4 DEF Life!Next

\* A reader begins, and ends.
LEMMA PostsAs ==
    ASSUME Inv, NEW r \in Requests, Open(r)
    PROVE  Life!Next
<1>1. /\ reader[r].pc = "new" /\ reader' = [reader EXCEPT ![r].pc = "reading"]
      /\ UNCHANGED <<slot, answers>>
  BY DEF Open
<1>2. reader \in [Requests -> Readers]
  BY InvParts DEF RepliesOK
<1>3. /\ reader'[r].pc = "reading" /\ reader' \in [Requests -> Readers]
      /\ \A q \in Requests : q # r => reader'[q] = reader[q]
  BY <1>1, <1>2 DEF Readers
<1>4. Phase' = [Phase EXCEPT ![r] = "reading"]
  BY <1>3 DEF Phase
<1>5. Running' = Running
  BY <1>1 DEF Running, Processing
<1>6. Life!Post(r)
  BY <1>1, <1>4, <1>5 DEF Life!Post, Phase, Running
<1>. QED
  BY <1>6 DEF Life!Next

LEMMA ClosesAs ==
    ASSUME Inv, NEW r \in Requests, Reading(r), NEW why \in {"done", "failed", "stopped"},
           \A q \in Requests : reader'[q].pc = IF q = r THEN why ELSE reader[q].pc,
           UNCHANGED <<slot, answers>>,
           why = "done" => \A t \in IdsOf(r) : answers[t] = <<"final">>,
           why = "failed" => \E t \in IdsOf(r) : answers[t] = <<"error">>
    PROVE  Life!Next
<1>1. Phase' = [Phase EXCEPT ![r] = why] /\ Phase[r] = "reading"
  BY DEF Phase, Reading
<1>2. Running' = Running
  BY DEF Running, Processing
<1>3. Life!TasksOf(r) = IdsOf(r)
  BY TasksAre
<1>4. Life!Close(r, why)
  BY <1>1, <1>2, <1>3 DEF Life!Close, Phase, Running
<1>. QED
  BY <1>4 DEF Life!Next

-----------------------------------------------------------------------------
(* The actions.                                                            *)

LifeStep == Life!Next \/ UNCHANGED Life!vars

\* A slot keeps its task.
LEMMA StayRunning ==
    ASSUME \A s \in Slots : /\ slot'[s].id = slot[s].id
                            /\ slot'[s].state = "IDLE" <=> slot[s].state = "IDLE"
    PROVE  Running' = Running
<1>1. Processing' = Processing
  BY DEF Processing
<1>2. \A s \in Processing : slot'[s].id = slot[s].id
  BY DEF Processing
<1>. QED
  BY <1>1, <1>2 DEF Running

LEMMA SameRunning ==
    ASSUME UNCHANGED slot
    PROVE  Running' = Running
BY StayRunning

\* The tasks of the slots of S leave them.
LEMMA LessRunning ==
    ASSUME Inv, NEW S \in SUBSET Slots, slot' = [s \in Slots |-> IF s \in S THEN Idle ELSE slot[s]]
    PROVE  Running' = Running \ {slot[s].id : s \in S}
<1>1. /\ \A s \in Slots : slot[s].id \in Ids \cup {NoId} /\ (slot[s].state = "IDLE" <=> slot[s].id = NoId)
      /\ \A s, u \in Slots : slot[s].id = slot[u].id /\ slot[s].id # NoId => s = u
  BY InvParts DEF SlotsOK, SlotSet, Seats
<1>2. Processing' = Processing \ S
  BY DEF Processing, Idle
<1>3. \A s \in Processing \ S : slot'[s] = slot[s]
  BY DEF Processing
<1>4. Running' = {slot[s].id : s \in Processing \ S}
  BY <1>2, <1>3 DEF Running
<1>5. \A s \in Processing \ S, u \in S : slot[s].id # slot[u].id
  BY <1>1 DEF Processing
<1>. QED
  BY <1>4, <1>5 DEF Running

\* A task that never got to a slot is answered.
LEMMA AnswerHandAs ==
    ASSUME Inv, Processed("task"), NEW u \in IdsOf(Req(hand.id)), NEW kind \in {"final", "error"},
           Send(kind, <<u>>), UNCHANGED <<slot, waiting, reader>>
    PROVE  LifeStep
<1>1. u \in Ids /\ Req(u) = Req(hand.id) /\ ~Sits(u) /\ answers[u] = <<>> /\ reader[Req(u)].pc # "new"
  BY HandIs
<1>2. <<u>> \in Seq(Ids) /\ (\A y : Once(<<u>>, y)) /\ Range(<<u>>) = {u}
  BY <1>1, SingleDeque, HasRange
<1>3. Answers({u}, kind)
  BY <1>1, <1>2, InvParts, SendAnswers
<1>4. u \notin Running /\ Running' = Running
  BY <1>1, InvParts, RunningIs, SameRunning
<1>5. Ends({u}, kind)
  BY <1>3, <1>4 DEF Ends
<1>. QED
  BY <1>5, AnswersAs DEF LifeStep

LEMMA LaunchFailsAs ==
    ASSUME Inv, LaunchFails
    PROVE  LifeStep
<1>1. Processed("task") /\ UNCHANGED <<slot, waiting, reader>>
  BY DEF LaunchFails
<1>2. PICK bad \in 0 .. Children[Req(hand.id)] : Send("error", <<Id(Req(hand.id), bad)>>)
  BY DEF LaunchFails
<1>3. Id(Req(hand.id), bad) \in IdsOf(Req(hand.id))
  BY <1>1, HandIs, IdFacts
<1>. QED
  BY <1>1, <1>2, <1>3, AnswerHandAs

LEMMA SlotActionAs ==
    ASSUME Inv, SlotAction
    PROVE  LifeStep
<1>1. Processed("task") /\ UNCHANGED <<slot, waiting, reader>>
  BY DEF SlotAction
<1>2. PICK kind \in {"final", "error"} : Send(kind, <<hand.id>>)
  BY DEF SlotAction
<1>3. hand.id \in IdsOf(Req(hand.id))
  BY <1>1, HandIs, IdFacts
<1>. QED
  BY <1>1, <1>2, <1>3, AnswerHandAs

LEMMA LaunchAs ==
    ASSUME Inv, Launch
    PROVE  LifeStep
<1>1. /\ Processed("task") /\ Done /\ UNCHANGED <<queue, deferred, waiting, results, reader, answers>>
  BY DEF Launch
<1>2. PICK r \in Requests : r = Req(hand.id)
  BY <1>1, HandIs
<1>3. /\ hand.id = Own(r) /\ reader[r].pc # "new"
      /\ \A t \in IdsOf(r) : t \in Ids /\ ~Sits(t) /\ answers[t] = <<>>
  BY <1>1, <1>2, HandIs
<1>4. PICK s \in IdleSlots : CanLaunch(Own(r), s) /\ slot' = Launched(Own(r), s, Children[r], TRUE)
  <2>1. Available(hand.id) \subseteq IdleSlots
    BY DEF Available
  <2>. QED
    BY <1>2, <1>3, <2>1 DEF Launch
<1>5. /\ SlotsOK' /\ Seats'
      /\ \A t \in Ids : Sits(t)' <=> Sits(t) \/ t \in IdsOf(r)
  BY <1>1, <1>3, <1>4, InvParts, LaunchSits DEF Done
<1>6. Running \subseteq Ids /\ \A t \in Ids : t \in Running <=> Sits(t)
  BY InvParts, RunningIs
<1>7. Running' \subseteq Ids /\ \A t \in Ids : t \in Running' <=> Sits(t)'
  <2>1. \A u \in Slots : slot'[u].id \in Ids \cup {NoId} /\ (u \in Processing' <=> slot'[u].id # NoId)
    BY <1>5 DEF SlotsOK, SlotSet, Seats, Processing
  <2>2. NoId \notin Ids /\ Processing' \subseteq Slots
    BY IdFacts DEF Processing
  <2>. QED
    BY <2>1, <2>2 DEF Running, Sits
<1>8. Running' = Running \cup IdsOf(r)
  BY <1>3, <1>5, <1>6, <1>7
<1>9. \A t \in IdsOf(r) : answers[t] = <<>> /\ t \notin Running
  BY <1>3, <1>6
<1>. QED
  BY <1>1, <1>3, <1>8, <1>9, StartsAll DEF LifeStep

LEMMA CancelTaskAs ==
    ASSUME Inv, CancelTask
    PROVE  LifeStep
<1>1. PICK S \in SUBSET Slots : S = {s \in Slots : slot[s].id = hand.id}
  OBVIOUS
<1>2. /\ Processed("cancel") /\ ReleaseSlots(S) /\ UNCHANGED <<reader, answers>>
  BY <1>1 DEF CancelTask
<1>3. hand \in QItems /\ hand.kind = "cancel"
  BY <1>2, InvParts DEF Processed, QueuesOK
<1>4. hand.id \in Ids /\ Gone(Req(hand.id))
  BY <1>3, InvParts, ItemFacts DEF Cancelled, Called
<1>5. Running' = Running \ {slot[s].id : s \in S}
  BY <1>2, LessRunning DEF ReleaseSlots
<1>6. CASE S = {}
  BY <1>2, <1>5, <1>6, Stutters DEF LifeStep
<1>7. CASE S # {}
  <2>1. {slot[s].id : s \in S} = {hand.id}
    BY <1>1, <1>7
  <2>2. hand.id \in Running
    <3>1. Sits(hand.id)
      BY <1>1, <1>7 DEF Sits
    <3>. QED
      BY <1>4, <3>1, InvParts, RunningIs
  <2>. QED
    BY <1>2, <1>4, <1>5, <2>1, <2>2, DropsAs DEF LifeStep
<1>. QED
  BY <1>6, <1>7

\* The slots of S are released and their tasks answered.
LEMMA FinishAs ==
    ASSUME Inv, NEW S \in SUBSET Slots, NEW kind \in {"final", "error"}, NEW ts \in Seq(Ids),
           \A t : Once(ts, t), \A t : Has(ts, t) <=> \E s \in S : slot[s].id = t,
           Send(kind, ts), ReleaseSlots(S), UNCHANGED <<reader, waiting>>,
           S # {}, (\E s : S = {s}) \/ (kind = "error" /\ S = Processing)
    PROVE  LifeStep
<1>. DEFINE T == Range(ts)
<1>1. \A t : t \in T <=> \E s \in S : slot[s].id = t
  BY HasRange
<1>2. T = {slot[s].id : s \in S} /\ T # {}
  BY <1>1
<1>3. T \subseteq Ids
  BY ElementOfSeq, LenProperties DEF Range
<1>4. ASSUME NEW t \in T
      PROVE  answers[t] = <<>> /\ reader[Req(t)].pc # "new"
  <2>1. Sits(t)
    BY <1>1 DEF Sits
  <2>2. t \in IdsOf(Req(t)) /\ Req(t) \in Requests
    BY <1>3, IdFacts
  <2>. QED
    BY <2>1, <2>2, InvParts DEF Placed
<1>5. Answers(T, kind)
  BY <1>4, InvParts, SendAnswers
<1>. HIDE DEF T
<1>6. Running' = Running \ T
  BY <1>2, LessRunning DEF ReleaseSlots
<1>7. ASSUME NEW s, S = {s}
      PROVE  T = {slot[s].id}
  BY <1>2, <1>7
<1>8. S = Processing => T = Running
  BY <1>2 DEF Running
<1>9. (\E t : T = {t}) \/ (kind = "error" /\ T = Running)
  BY <1>7, <1>8, Zenon
<1>10. Ends(T, kind)
  BY <1>2, <1>5, <1>6, <1>9 DEF Ends
<1>11. Life!Next
  BY <1>10, AnswersAs
<1>. QED
  BY <1>11 DEF LifeStep

LEMMA FinishOneAs ==
    ASSUME Inv, slot[turn].state # "IDLE", NEW kind \in {"final", "error"}, Finish(kind), UNCHANGED <<reader, waiting>>
    PROVE  LifeStep
<1>1. PICK s \in Slots : s = turn
  BY InvParts DEF SlotsOK
<1>2. PICK t \in Ids : slot[s].id = t
  <2>1. slot[s].id \in Ids \cup {NoId} /\ slot[s].id # NoId
    BY <1>1, InvParts DEF SlotsOK, SlotSet, Seats
  <2>. QED
    BY <2>1
<1>3. <<t>> \in Seq(Ids) /\ \A y : (Has(<<t>>, y) <=> t = y) /\ Once(<<t>>, y)
  BY SingleDeque
<1>. DEFINE ts == <<t>>
            S == {s}
<1>4. \A y : Has(ts, y) <=> \E u \in S : slot[u].id = y
  BY <1>2, <1>3
<1>5. /\ ts \in Seq(Ids) /\ (\A y : Once(ts, y)) /\ Send(kind, ts) /\ ReleaseSlots(S) /\ S \in SUBSET Slots
      /\ S # {} /\ \E u : S = {u}
  BY <1>1, <1>2, <1>3 DEF Finish
<1>. HIDE DEF ts, S
<1>. QED
  BY <1>4, <1>5, FinishAs

LEMMA PreEndsAs ==
    ASSUME Inv, PreEnds
    PROVE  LifeStep
<1>1. Wanted /\ UNCHANGED <<waiting, reader>> /\ \E kind \in {"final", "error"} : Finish(kind)
  BY DEF PreEnds
<1>2. slot[turn].state # "IDLE"
  BY <1>1 DEF Wanted
<1>. QED
  BY <1>1, <1>2, FinishOneAs

LEMMA PostEndsAs ==
    ASSUME Inv, PostEnds
    PROVE  LifeStep
<1>1. Sampling(turn) /\ UNCHANGED <<waiting, reader>> /\ \E kind \in {"final", "error"} : Finish(kind)
  BY DEF PostEnds
<1>2. slot[turn].state # "IDLE"
  BY <1>1 DEF Sampling
<1>. QED
  BY <1>1, <1>2, FinishOneAs

\* All slots are aborted, if any is in use.
LEMMA AbortAllAs ==
    ASSUME Inv, AbortAll
    PROVE  LifeStep
<1>1. PICK S \in SUBSET Slots : S = Processing
  BY DEF Processing
<1>2. \A s \in S : slot[s].state # "IDLE"
  BY <1>1 DEF Processing
<1>3. PICK ts : ts = [i \in DOMAIN InOrder(S) |-> slot[InOrder(S)[i]].id]
  OBVIOUS
<1>4. Send("error", ts) /\ ReleaseSlots(S) /\ UNCHANGED <<waiting, reader>>
  BY <1>1, <1>3 DEF AbortAll
<1>5. ts \in Seq(Ids) /\ (\A t : Once(ts, t)) /\ (\A t : Has(ts, t) <=> \E s \in S : slot[s].id = t)
  BY <1>2, <1>3, TasksInOrder
<1>6. CASE S # {}
  BY <1>1, <1>4, <1>5, <1>6, FinishAs
<1>7. CASE S = {}
  <2>1. Range(ts) = {}
    BY <1>5, <1>7, HasRange
  <2>2. answers' = [t \in Ids |-> IF t \in Range(ts) THEN Append(answers[t], "error") ELSE answers[t]]
    BY <1>4 DEF Send
  <2>3. answers' = answers
    BY <2>1, <2>2, InvParts DEF RepliesOK
  <2>4. Running' = Running \ {slot[s].id : s \in S}
    BY <1>4, LessRunning DEF ReleaseSlots
  <2>. QED
    BY <1>4, <1>7, <2>3, <2>4, Stutters DEF LifeStep
<1>. QED
  BY <1>6, <1>7

\* One token more, or a prompt, or a copy of a state.
LEMMA PostTokenAs ==
    ASSUME Inv, PostToken
    PROVE  LifeStep
<1>1. /\ Sampling(turn) /\ UNCHANGED reader
      /\ slot' = [slot EXCEPT ![turn].state = "GENERATING", ![turn].n = @ + 1]
      /\ Send("partial", <<slot[turn].id>>) \/ UNCHANGED answers
  BY DEF PostToken
<1>2. slot \in [Slots -> SlotSet] /\ turn \in Slots /\ slot[turn].state # "IDLE"
  BY <1>1, InvParts DEF SlotsOK, Sampling
<1>3. Running' = Running
  BY <1>1, <1>2, StayRunning DEF SlotSet
<1>4. Send("partial", <<slot[turn].id>>) => answers' = [u \in Ids |-> answers[u]]
  BY DEF Send
<1>5. answers' = answers
  BY <1>1, <1>4, InvParts DEF RepliesOK
<1>. QED
  BY <1>1, <1>3, <1>5, Stutters DEF LifeStep

LEMMA PrePromptAs ==
    ASSUME Inv, NEW s \in Slots, NEW state \in {"PROCESSING_PROMPT", "DONE_PROMPT"}, PrePrompt(s, state)
    PROVE  LifeStep
<1>1. UNCHANGED <<reader, answers>> /\ slot' = [slot EXCEPT ![s].state = state] /\ turn = s /\ Wanted
  BY DEF PrePrompt
<1>2. slot \in [Slots -> SlotSet] /\ slot[s].state # "IDLE"
  BY <1>1, InvParts DEF SlotsOK, Wanted
<1>3. Running' = Running
  BY <1>1, <1>2, StayRunning DEF SlotSet
<1>. QED
  BY <1>1, <1>3, Stutters DEF LifeStep

LEMMA DecodeOkAs ==
    ASSUME Inv, DecodeOk
    PROVE  LifeStep
<1>1. /\ slot' = [s \in Slots |-> IF Activated(s) THEN [slot[s] EXCEPT !.state = "DONE_PROMPT"] ELSE slot[s]]
      /\ UNCHANGED <<reader, answers>>
  BY DEF DecodeOk
<1>2. ASSUME NEW s \in Slots
      PROVE  slot'[s].id = slot[s].id /\ (slot'[s].state = "IDLE" <=> slot[s].state = "IDLE")
  <2>1. slot[s] \in SlotSet
    BY InvParts DEF SlotsOK
  <2>2. CASE Activated(s)
    <3>1. slot'[s] = [slot[s] EXCEPT !.state = "DONE_PROMPT"] /\ slot[s].state = "WAIT_OTHER"
      BY <1>1, <2>2 DEF Activated
    <3>. QED
      BY <2>1, <3>1 DEF SlotSet
  <2>3. CASE ~Activated(s)
    BY <1>1, <2>3
  <2>. QED
    BY <2>2, <2>3
<1>3. Running' = Running
  BY <1>2, StayRunning
<1>. QED
  BY <1>1, <1>3, Stutters DEF LifeStep

\* The steps that move what is in the queues, or nothing.
LEMMA QuietAs ==
    ASSUME UNCHANGED <<slot, reader, answers>>
    PROVE  LifeStep
BY SameRunning, Stutters DEF LifeStep

\* A reader takes a result.
LEMMA StopAs ==
    ASSUME Inv, NEW r \in Requests, Reading(r), NEW why \in {"failed", "stopped"}, Stop(r, why),
           UNCHANGED <<slot, answers>>, why = "failed" => \E t \in IdsOf(r) : answers[t] = <<"error">>
    PROVE  LifeStep
<1>1. reader' = [reader EXCEPT ![r].pc = why] /\ reader \in [Requests -> Readers]
  BY InvParts DEF Stop, RepliesOK
<1>2. \A q \in Requests : reader'[q].pc = IF q = r THEN why ELSE reader[q].pc
  BY <1>1 DEF Readers
<1>. QED
  BY <1>2, ClosesAs DEF LifeStep

LEMMA TakesAs ==
    ASSUME Inv, NEW r \in Requests, Reading(r), NEW i, FirstFor(r, i), NEW n, NEW all, Takes(r, i, n, all),
           results[i].kind \in {"partial", "final"}
    PROVE  LifeStep
<1>1. /\ reader' = [reader EXCEPT ![r] = [pc |-> IF all THEN "done" ELSE "reading", received |-> n]]
      /\ reader \in [Requests -> Readers] /\ all \in BOOLEAN /\ UNCHANGED <<slot, answers>>
  BY InvParts DEF Takes, RepliesOK
<1>2. \A q \in Requests : reader'[q].pc = IF q = r THEN (IF all THEN "done" ELSE "reading") ELSE reader[q].pc
  BY <1>1
<1>3. CASE all
  <2>1. \A t \in IdsOf(r) : answers[t] = <<"final">>
    BY <1>3, TakesCounts
  <2>. QED
    BY <1>1, <1>2, <1>3, <2>1, ClosesAs DEF LifeStep
<1>4. CASE ~all
  <2>1. \A q \in Requests : reader'[q].pc = reader[q].pc
    BY <1>2, <1>4 DEF Reading
  <2>2. Running' = Running
    BY <1>1, SameRunning
  <2>. QED
    BY <1>1, <2>1, <2>2 DEF LifeStep, Life!vars, Running
<1>. QED
  BY <1>3, <1>4, <1>1

LEMMA ReceiveAs ==
    ASSUME Inv, NEW r \in Requests, Receive(r)
    PROVE  LifeStep
<1>1. PICK i : /\ Reading(r) /\ FirstFor(r, i)
               /\ \/ results[i].kind = "error" /\ Stop(r, "failed") /\ UNCHANGED <<mainvars, slot, answers>>
                  \/ results[i].kind \in {"partial", "final"} /\ \E n, all : Takes(r, i, n, all)
  BY ReceiveIs
<1>2. CASE results[i].kind = "error" /\ Stop(r, "failed") /\ UNCHANGED <<mainvars, slot, answers>>
  <2>1. results[i] \in Replies /\ Has(results, results[i]) /\ results[i].id \in IdsOf(r)
    BY <1>1, InvParts, ElementOfSeq, LenProperties DEF FirstFor, RepliesOK, Has
  <2>2. answers[results[i].id] = <<"error">>
    BY <1>2, <2>1, InvParts DEF Heard
  <2>. QED
    BY <1>1, <1>2, <2>1, <2>2, StopAs
<1>3. CASE results[i].kind \in {"partial", "final"} /\ \E n, all : Takes(r, i, n, all)
  BY <1>1, <1>3, TakesAs
<1>. QED
  BY <1>1, <1>2, <1>3

LEMMA DisconnectAs ==
    ASSUME Inv, NEW r \in Requests, Disconnect(r)
    PROVE  LifeStep
<1>1. Reading(r) /\ Stop(r, "stopped") /\ UNCHANGED <<slot, answers>>
  BY DEF Disconnect, Reading
<1>. QED
  BY <1>1, StopAs

-----------------------------------------------------------------------------
(* The refinement.                                                         *)

LEMMA StepAs ==
    ASSUME Inv, [Next]_vars
    PROVE  LifeStep
<1>1. CASE Take
  BY <1>1, QuietAs DEF Take
<1>2. CASE Process
  <2>1. CASE Defer
    BY <2>1, QuietAs DEF Defer
  <2>2. CASE Next_Response
    BY <2>2, QuietAs DEF Next_Response
  <2>. QED
    BY <1>2, <2>1, <2>2, LaunchAs, LaunchFailsAs, SlotActionAs, CancelTaskAs DEF Process
<1>3. CASE Update
  <2>1. CASE UpdateBegin \/ UpdateIdle \/ PreSkip \/ PostSkip
    BY <2>1, QuietAs DEF UpdateBegin, UpdateIdle, PreSkip, PostSkip
  <2>2. ASSUME NEW s \in Slots, PreGenerating(s)
        PROVE  LifeStep
    BY <2>2, QuietAs DEF PreGenerating
  <2>. QED
    BY <1>3, <2>1, <2>2, PreEndsAs, DecodeOkAs, AbortAllAs, PrePromptAs, PostTokenAs, PostEndsAs DEF Update
<1>4. ASSUME NEW r \in Requests, Client(r)
      PROVE  LifeStep
  <2>1. Open(r) => LifeStep
    BY PostsAs DEF LifeStep
  <2>. QED
    BY <1>4, <2>1, ReceiveAs, DisconnectAs DEF Client
<1>5. CASE UNCHANGED vars
  BY <1>5, QuietAs DEF vars
<1>. QED
  BY <1>1, <1>2, <1>3, <1>4, <1>5 DEF Next

\* The tasks of a request enter their slots together, none leaves its slot unanswered
\* while its reader waits, each gets one verdict, and a reader is done only when all its
\* tasks ended well and failed only when one of them did not: the server implements
\* RequestLife, for any requests, children and slots.
THEOREM SpecImplementsLife == Spec => ImplementsLife
<1>1. Init => Life!Init
  BY StartsAs
<1>2. Inv /\ [Next]_vars => [Life!Next]_(Life!vars)
  BY StepAs DEF LifeStep
<1>. QED
  BY <1>1, <1>2, Invariance, PTL DEF Spec, ImplementsLife, Life!Spec

-----------------------------------------------------------------------------
(* A child does not wait for a parent that is not there.                   *)

\* The tasks that have children have a prompt: pre_decode() answers one without a prompt
\* before decode() can give its state to the children.
Prompted == \A r \in Requests : Children[r] > 0 => r \notin EmptyPrompts

-----------------------------------------------------------------------------
(* The invariant.                                                          *)

\* The slot will be done with its prompt, or is, and decode() is ahead.
Prepares(p) ==
    \/ slot[p].state \in {"STARTED", "PROCESSING_PROMPT"}
    \/ slot[p].state = "DONE_PROMPT" /\ pc # "post"

\* A task of the request has ended with an error.
Wrong(r) == \E t \in IdsOf(r) : answers[t] = <<"error">>

Waits(s)  == slot[s].state = "WAIT_OTHER"
Cared(r)  == ~Reading(r) \/ Wrong(r) \/ \E p \in Slots : slot[p].id = Own(r) /\ Prepares(p)
Parented  == \A s \in Slots : Waits(s) => Cared(Req(slot[s].id))

\* A slot that prepared for the children of r goes on, or nobody needs it any more.
GoesOn(p) == slot'[p].id = slot[p].id /\ Prepares(p)'
Parts(r)  == ~Reading(r)' \/ Wrong(r)' \/ \A s \in Slots : Waits(s)' => Req(slot'[s].id) # r

-----------------------------------------------------------------------------
(* Readers and answers.                                                    *)

LEMMA SeatedIs ==
    ASSUME Inv, NEW s \in Slots, slot[s].state # "IDLE"
    PROVE  /\ slot[s].id \in Ids /\ slot[s].id # NoId /\ Req(slot[s].id) \in Requests
           /\ slot[s].id \in IdsOf(Req(slot[s].id))
           /\ reader[Req(slot[s].id)].pc # "new" /\ answers[slot[s].id] = <<>>
<1>1. slot[s].id \in Ids /\ slot[s].id # NoId
  BY InvParts DEF SlotsOK, SlotSet, Seats
<1>2. Req(slot[s].id) \in Requests /\ slot[s].id \in IdsOf(Req(slot[s].id))
  BY <1>1, IdFacts
<1>3. Sits(slot[s].id)
  BY DEF Sits
<1>. QED
  BY <1>1, <1>2, <1>3, InvParts DEF Placed

\* A task that waits is a child.
LEMMA WaitsIs ==
    ASSUME Inv, NEW s \in Slots, Waits(s)
    PROVE  /\ slot[s].id \in Ids /\ Req(slot[s].id) \in Requests /\ reader[Req(slot[s].id)].pc # "new"
           /\ Children[Req(slot[s].id)] > 0 /\ Parent(slot[s].id) = Own(Req(slot[s].id))
<1>1. /\ slot[s].id \in Ids /\ Req(slot[s].id) \in Requests /\ reader[Req(slot[s].id)].pc # "new"
  BY SeatedIs DEF Waits
<1>2. slot[s].id[2] > 0 /\ slot[s].id[2] \in 0 .. Children[Req(slot[s].id)]
  BY <1>1, InvParts, IdFacts DEF Seats, Waits
<1>3. Children[Req(slot[s].id)] \in Nat
  BY <1>1, IdFacts
<1>. QED
  BY <1>1, <1>2, <1>3 DEF Parent, Own, Req

\* What a step of the life of the requests does with readers and answers.
LEMMA LifeKeeps ==
    ASSUME Inv, LifeStep, NEW r \in Requests, reader[r].pc # "new"
    PROVE  (Reading(r)' => Reading(r)) /\ (Wrong(r) => Wrong(r)')
<1>1. IdsOf(r) \subseteq Ids
  BY IdFacts
<1>2. ASSUME answers' = answers \/ \E kind : \E T \in SUBSET Life!Open : Life!Answer(T, kind)
      PROVE  Wrong(r) => Wrong(r)'
  <2>1. ASSUME NEW t \in IdsOf(r), answers[t] = <<"error">>
        PROVE  answers'[t] = <<"error">>
    <3>1. CASE answers' = answers
      BY <2>1, <3>1
    <3>2. ASSUME NEW kind, NEW T \in SUBSET Life!Open, Life!Answer(T, kind)
          PROVE  answers'[t] = <<"error">>
      <4>1. t \notin T
        <5>1. <<"error">> # <<>>
          OBVIOUS
        <5>. QED
          BY <2>1, <3>2, <5>1 DEF Life!Open
      <4>2. t \in DOMAIN answers
        BY <1>1, <2>1, InvParts DEF RepliesOK
      <4>. QED
        BY <2>1, <3>2, <4>1, <4>2 DEF Life!Answer
    <3>. QED
      BY <1>2, <3>1, <3>2
  <2>. QED
    BY <2>1 DEF Wrong
<1>3. ASSUME Phase' = Phase \/ (\E q \in Requests : Phase[q] = "new" /\ Phase' = [Phase EXCEPT ![q] = "reading"])
             \/ (\E q \in Requests : \E why : Phase[q] = "reading" /\ Phase' = [Phase EXCEPT ![q] = why])
      PROVE  Reading(r)' => Reading(r)
  <2>1. Phase[r] = reader[r].pc /\ Phase'[r] = reader'[r].pc /\ Phase = [q \in Requests |-> Phase[q]]
    BY DEF Phase
  <2>. QED
    BY <1>3, <2>1 DEF Reading
<1>4. CASE UNCHANGED Life!vars
  <2>1. Phase' = Phase /\ answers' = answers
    BY <1>4 DEF Life!vars, Phase
  <2>. QED
    BY <1>2, <1>3, <2>1
<1>5. CASE Life!Next
  <2>1. ASSUME NEW q \in Requests, Life!Post(q)
        PROVE  (Reading(r)' => Reading(r)) /\ (Wrong(r) => Wrong(r)')
    <3>1. Phase[q] = "new" /\ Phase' = [Phase EXCEPT ![q] = "reading"] /\ answers' = answers
      BY <2>1 DEF Life!Post, Phase
    <3>. QED
      BY <1>2, <1>3, <3>1
  <2>2. ASSUME NEW q \in Requests, Life!Start(q)
        PROVE  (Reading(r)' => Reading(r)) /\ (Wrong(r) => Wrong(r)')
    <3>1. Phase' = Phase /\ answers' = answers
      BY <2>2 DEF Life!Start, Phase
    <3>. QED
      BY <1>2, <1>3, <3>1
  <2>3. ASSUME NEW q \in Requests, NEW why, Life!Close(q, why)
        PROVE  (Reading(r)' => Reading(r)) /\ (Wrong(r) => Wrong(r)')
    <3>1. Phase[q] = "reading" /\ Phase' = [Phase EXCEPT ![q] = why] /\ answers' = answers
      BY <2>3 DEF Life!Close, Phase
    <3>. QED
      BY <1>2, <1>3, <3>1
  <2>4. ASSUME NEW kind, NEW T, Life!Answer(T, kind)
        PROVE  (Reading(r)' => Reading(r)) /\ (Wrong(r) => Wrong(r)')
    <3>1. Phase' = Phase /\ T \in SUBSET Life!Open
      BY <2>4 DEF Life!Answer, Phase
    <3>. QED
      BY <1>2, <1>3, <2>4, <3>1
  <2>5. ASSUME NEW t, Life!Drop(t)
        PROVE  (Reading(r)' => Reading(r)) /\ (Wrong(r) => Wrong(r)')
    <3>1. Phase' = Phase /\ answers' = answers
      BY <2>5 DEF Life!Drop, Phase
    <3>. QED
      BY <1>2, <1>3, <3>1
  <2>. QED
    BY <1>5, <2>1, <2>2, <2>3, <2>4, <2>5 DEF Life!Next
<1>. QED
  BY <1>4, <1>5 DEF LifeStep

-----------------------------------------------------------------------------
(* The steps.                                                              *)

\* The children that wait did so before, and the slots that prepare go on, or the
\* children no longer need them.
LEMMA CareStep ==
    ASSUME Inv, LifeStep, Parented,
           \A s \in Slots : Waits(s)' => Waits(s) /\ slot'[s].id = slot[s].id,
           \A p \in Slots, r \in Requests : slot[p].id = Own(r) /\ Prepares(p) => GoesOn(p) \/ Parts(r)
    PROVE  Parented'
<1>1. SUFFICES ASSUME NEW s \in Slots, Waits(s)'
               PROVE  Cared(Req(slot[s].id))'
  BY DEF Parented
<1>2. Waits(s) /\ slot'[s].id = slot[s].id
  BY <1>1
<1>3. PICK r \in Requests : r = Req(slot[s].id)
  BY <1>2, WaitsIs
<1>4. Cared(r) /\ reader[r].pc # "new"
  BY <1>2, <1>3, WaitsIs DEF Parented
<1>5. (Reading(r)' => Reading(r)) /\ (Wrong(r) => Wrong(r)')
  BY <1>4, LifeKeeps
<1>6. ASSUME NEW p \in Slots, slot[p].id = Own(r), Prepares(p)
      PROVE  Cared(r)'
  <2>2. CASE GoesOn(p)
    BY <1>6, <2>2 DEF GoesOn, Cared
  <2>3. CASE Parts(r)
    BY <1>1, <1>2, <1>3, <2>3 DEF Parts, Cared
  <2>. QED
    BY <1>6, <2>2, <2>3
<1>7. Cared(r)'
  BY <1>4, <1>5, <1>6 DEF Cared
<1>8. Req(slot[s].id)' = r
  BY <1>2, <1>3
<1>. QED
  BY <1>7, <1>8 DEF Cared

\* A step that leaves the slots alone, and does not come to post_decode().
LEMMA QuietCare ==
    ASSUME Inv, LifeStep, Parented, UNCHANGED slot, pc' = "post" => pc = "post"
    PROVE  Parented'
<1>1. \A s \in Slots : Waits(s)' => Waits(s) /\ slot'[s].id = slot[s].id
  BY DEF Waits
<1>2. \A p \in Slots : Prepares(p) => GoesOn(p)
  BY DEF Prepares, GoesOn
<1>. QED
  BY <1>1, <1>2, CareStep

LEMMA PrePromptCare ==
    ASSUME Inv, LifeStep, Parented, NEW s \in Slots, NEW state \in {"PROCESSING_PROMPT", "DONE_PROMPT"},
           PrePrompt(s, state)
    PROVE  Parented'
<1>1. /\ pc = "prompt" /\ pc' \in {"prompt", "wait", "decode"} /\ Wanted /\ turn = s
      /\ slot' = [slot EXCEPT ![s].state = state]
  BY DEF PrePrompt, Pre, Advance
<1>2. slot \in [Slots -> SlotSet]
  BY InvParts DEF SlotsOK
<1>3. /\ slot'[s].state = state /\ slot'[s].id = slot[s].id
      /\ \A u \in Slots : u # s => slot'[u] = slot[u]
  BY <1>1, <1>2 DEF SlotSet
<1>4. \A u \in Slots : Waits(u)' => Waits(u) /\ slot'[u].id = slot[u].id
  BY <1>3 DEF Waits
<1>5. \A p \in Slots : Prepares(p) => GoesOn(p)
  BY <1>1, <1>3 DEF Prepares, GoesOn
<1>. QED
  BY <1>4, <1>5, CareStep

\* The children of a parent that is done with its prompt wait no longer.
LEMMA DecodeOkCare ==
    ASSUME Inv, LifeStep, Parented, DecodeOk
    PROVE  Parented'
<1>1. slot' = [s \in Slots |-> IF Activated(s) THEN [slot[s] EXCEPT !.state = "DONE_PROMPT"] ELSE slot[s]]
  BY DEF DecodeOk
<1>2. ASSUME NEW s \in Slots, Activated(s)
      PROVE  Waits(s) /\ ~Waits(s)' /\ slot'[s].id = slot[s].id
  <2>1. slot[s] \in SlotSet
    BY InvParts DEF SlotsOK
  <2>2. slot'[s] = [slot[s] EXCEPT !.state = "DONE_PROMPT"] /\ slot[s].state = "WAIT_OTHER"
    BY <1>1, <1>2 DEF Activated
  <2>. QED
    BY <2>1, <2>2 DEF SlotSet, Waits
<1>3. \A s \in Slots : ~Activated(s) => slot'[s] = slot[s]
  BY <1>1
<1>4. \A s \in Slots : Waits(s)' => Waits(s) /\ slot'[s].id = slot[s].id /\ ~Activated(s)
  BY <1>2, <1>3 DEF Waits
<1>5. ASSUME NEW p \in Slots, NEW r \in Requests, slot[p].id = Own(r), Prepares(p)
      PROVE  GoesOn(p) \/ Parts(r)
  <2>1. CASE slot[p].state \in {"STARTED", "PROCESSING_PROMPT"}
    <3>1. ~Activated(p)
      BY <2>1 DEF Activated
    <3>. QED
      BY <1>3, <2>1, <3>1 DEF GoesOn, Prepares
  <2>2. CASE slot[p].state = "DONE_PROMPT"
    <3>1. ASSUME NEW s \in Slots, Waits(s)', Req(slot'[s].id) = r
          PROVE  FALSE
      <4>1. Waits(s) /\ Req(slot[s].id) = r /\ ~Activated(s)
        BY <1>4, <3>1
      <4>2. Parent(slot[s].id) = Own(r)
        BY <4>1, WaitsIs
      <4>. QED
        BY <1>5, <2>2, <4>1, <4>2 DEF Activated, Waits
    <3>. QED
      BY <3>1 DEF Parts
  <2>. QED
    BY <1>5, <2>1, <2>2 DEF Prepares
<1>. QED
  BY <1>4, <1>5, CareStep

\* The slots of S are released.
LEMMA ReleaseCare ==
    ASSUME Inv, LifeStep, Parented, NEW S \in SUBSET Slots, ReleaseSlots(S), pc' = "post" => pc = "post",
           \A p \in S, r \in Requests : slot[p].id = Own(r) /\ Prepares(p) => Parts(r)
    PROVE  Parented'
<1>1. slot' = [s \in Slots |-> IF s \in S THEN Idle ELSE slot[s]]
  BY DEF ReleaseSlots
<1>2. \A s \in Slots : /\ s \in S => slot'[s].state = "IDLE"
                       /\ s \notin S => slot'[s] = slot[s]
  BY <1>1 DEF Idle
<1>3. \A s \in Slots : Waits(s)' => Waits(s) /\ slot'[s].id = slot[s].id
  BY <1>2 DEF Waits
<1>4. \A p \in Slots : p \notin S /\ Prepares(p) => GoesOn(p)
  BY <1>2 DEF Prepares, GoesOn
<1>. QED
  BY <1>3, <1>4, CareStep

\* A slot that prepares and ends without an error has no children.
LEMMA PreEndsCare ==
    ASSUME Prompted, Inv, LifeStep, Parented, PreEnds
    PROVE  Parented'
<1>1. /\ pc \in {"gen", "prompt"} /\ pc' \in {"gen", "prompt", "wait", "decode"} /\ Wanted
      /\ IF pc = "prompt" /\ Req(slot[turn].id) \in EmptyPrompts THEN Finish("final") ELSE Finish("error")
  BY DEF PreEnds, Pre, Advance
<1>2. PICK s \in Slots : s = turn
  BY InvParts DEF SlotsOK
<1>3. PICK S \in SUBSET Slots : S = {s}
  OBVIOUS
<1>4. ReleaseSlots(S)
  BY <1>1, <1>2, <1>3 DEF Finish
<1>5. ASSUME NEW r \in Requests, slot[s].id = Own(r), Prepares(s)
      PROVE  Parts(r)
  <2>1. pc = "prompt"
    BY <1>1, <1>2, <1>5 DEF Wanted, Prepares
  <2>2. Req(slot[s].id) = r /\ slot[s].state # "IDLE"
    BY <1>5, IdFacts DEF Prepares
  <2>3. CASE r \in EmptyPrompts
    <3>1. ~(Children[r] > 0)
      BY <2>3 DEF Prompted
    <3>2. ASSUME NEW u \in Slots, Waits(u)'
          PROVE  Req(slot'[u].id) # r
      <4>1. slot' = [v \in Slots |-> IF v \in S THEN Idle ELSE slot[v]]
        BY <1>4 DEF ReleaseSlots
      <4>2. Waits(u) /\ slot'[u] = slot[u]
        BY <3>2, <4>1 DEF Waits, Idle
      <4>. QED
        BY <3>1, <4>2, WaitsIs
    <3>. QED
      BY <3>2 DEF Parts
  <2>4. CASE r \notin EmptyPrompts
    <3>1. Send("error", <<slot[s].id>>)
      BY <1>1, <1>2, <2>2, <2>4 DEF Finish
    <3>2. answers[slot[s].id] = <<>> /\ slot[s].id \in Ids /\ slot[s].id \in IdsOf(r)
      BY <2>2, SeatedIs
    <3>3. answers' = [t \in Ids |-> IF t \in Range(<<slot[s].id>>) THEN Append(answers[t], "error") ELSE answers[t]]
      BY <3>1 DEF Send
    <3>4. slot[s].id \in Range(<<slot[s].id>>)
      BY <3>2, SingleDeque, HasRange
    <3>5. Append(<<>>, "error") = <<"error">>
      BY AppendIsConcat
    <3>6. answers'[slot[s].id] = <<"error">>
      BY <3>2, <3>3, <3>4, <3>5
    <3>. QED
      BY <3>2, <3>6 DEF Parts, Wrong
  <2>. QED
    BY <2>3, <2>4
<1>6. \A p \in S, r \in Requests : slot[p].id = Own(r) /\ Prepares(p) => Parts(r)
  BY <1>3, <1>5
<1>. QED
  BY <1>1, <1>4, <1>6, ReleaseCare

\* A slot that samples prepares no longer.
LEMMA PostEndsCare ==
    ASSUME Inv, LifeStep, Parented, PostEnds
    PROVE  Parented'
<1>1. pc = "post" /\ Sampling(turn) /\ \E kind \in {"final", "error"} : Finish(kind)
  BY DEF PostEnds
<1>2. PICK S \in SUBSET Slots : S = {turn}
  BY InvParts DEF SlotsOK
<1>3. ReleaseSlots(S)
  BY <1>1, <1>2 DEF Finish
<1>4. \A p \in S : ~Prepares(p)
  BY <1>1, <1>2 DEF Prepares, Sampling
<1>. QED
  BY <1>1, <1>3, <1>4, ReleaseCare

LEMMA PostTokenCare ==
    ASSUME Inv, LifeStep, Parented, PostToken
    PROVE  Parented'
<1>1. /\ pc = "post" /\ Sampling(turn)
      /\ slot' = [slot EXCEPT ![turn].state = "GENERATING", ![turn].n = @ + 1]
  BY DEF PostToken
<1>2. slot \in [Slots -> SlotSet] /\ turn \in Slots
  BY InvParts DEF SlotsOK
<1>3. /\ slot'[turn].state = "GENERATING"
      /\ \A u \in Slots : u # turn => slot'[u] = slot[u]
  BY <1>1, <1>2 DEF SlotSet
<1>4. \A s \in Slots : Waits(s)' => Waits(s) /\ slot'[s].id = slot[s].id
  BY <1>3 DEF Waits
<1>5. \A p \in Slots : Prepares(p) => p # turn /\ GoesOn(p)
  BY <1>1, <1>3 DEF Prepares, GoesOn, Sampling
<1>. QED
  BY <1>4, <1>5, CareStep

LEMMA AbortAllCare ==
    ASSUME Inv, AbortAll
    PROVE  Parented'
<1>1. slot' = [s \in Slots |-> IF s \in Processing THEN Idle ELSE slot[s]]
  BY DEF AbortAll, ReleaseSlots
<1>2. \A s \in Slots : ~Waits(s)'
  BY <1>1 DEF Waits, Processing, Idle
<1>. QED
  BY <1>2 DEF Parented

\* A slot is released because its reader has gone.
LEMMA CancelTaskCare ==
    ASSUME Inv, LifeStep, Parented, CancelTask
    PROVE  Parented'
<1>1. PICK S \in SUBSET Slots : S = {s \in Slots : slot[s].id = hand.id}
  OBVIOUS
<1>2. /\ Processed("cancel") /\ ReleaseSlots(S) /\ UNCHANGED reader /\ pc' = "take"
  BY <1>1 DEF CancelTask, Done
<1>3. hand \in QItems /\ hand.kind = "cancel"
  BY <1>2, InvParts DEF Processed, QueuesOK
<1>4. hand.id \in Ids /\ Gone(Req(hand.id))
  BY <1>3, InvParts, ItemFacts DEF Cancelled, Called
<1>5. ASSUME NEW p \in S, NEW r \in Requests, slot[p].id = Own(r)
      PROVE  Parts(r)
  <2>1. Req(hand.id) = r
    BY <1>1, <1>5, IdFacts
  <2>. QED
    BY <1>2, <1>4, <2>1 DEF Parts, Reading, Gone
<1>. QED
  BY <1>2, <1>5, ReleaseCare

\* A request enters its slots with its children; those of the others are not touched.
LEMMA LaunchCare ==
    ASSUME Inv, LifeStep, Parented, Launch
    PROVE  Parented'
<1>1. Processed("task") /\ pc' = "take" /\ UNCHANGED reader
  BY DEF Launch, Done
<1>2. PICK q \in Requests : q = Req(hand.id)
  BY <1>1, HandIs
<1>3. PICK s0 \in IdleSlots : CanLaunch(Own(q), s0) /\ slot' = Launched(Own(q), s0, Children[q], TRUE)
  <2>1. Available(hand.id) \subseteq IdleSlots /\ hand.id = Own(q)
    BY <1>1, <1>2, HandIs DEF Available
  <2>. QED
    BY <1>2, <2>1 DEF Launch
<1>4. PICK at : Placement(at, slot', q)
  BY <1>3, LaunchedIs, Zenon
<1>5. /\ at \in [0 .. Children[q] -> IdleSlots]
      /\ slot'[at[0]] = Seat("STARTED", Own(q))
      /\ \A i \in 1 .. Children[q] : slot'[at[i]] = Seat("WAIT_OTHER", Id(q, i))
      /\ \A x \in Slots : (\A i \in 0 .. Children[q] : at[i] # x) => slot'[x] = slot[x]
  BY <1>4 DEF Placement
<1>6. Children[q] \in Nat /\ at[0] \in Slots /\ \A i \in 0 .. Children[q] : slot[at[i]].state = "IDLE"
  BY <1>5, IdFacts DEF IdleSlots, Processing
<1>7. slot'[at[0]].id = Own(q) /\ slot'[at[0]].state = "STARTED"
  BY <1>5 DEF Seat
<1>8. Cared(q)'
  BY <1>6, <1>7 DEF Cared, Prepares
<1>9. ASSUME NEW s \in Slots, slot[s].state # "IDLE"
      PROVE  slot'[s] = slot[s]
  BY <1>5, <1>6, <1>9
<1>10. ASSUME NEW s \in Slots, Waits(s)', slot[s].state = "IDLE"
       PROVE  Req(slot[s].id)' = q
  <2>1. PICK i \in 0 .. Children[q] : at[i] = s
    BY <1>5, <1>10 DEF Waits
  <2>2. i # 0
    BY <1>7, <1>10, <2>1 DEF Waits
  <2>3. i \in 1 .. Children[q] /\ i \in Nat
    BY <1>6, <2>2
  <2>4. slot'[s].id = Id(q, i)
    <3>1. slot'[at[i]] = Seat("WAIT_OTHER", Id(q, i))
      BY <1>5, <2>3
    <3>2. Seat("WAIT_OTHER", Id(q, i)).id = Id(q, i)
      BY DEF Seat
    <3>. QED
      BY <2>1, <3>1, <3>2
  <2>. QED
    BY <2>3, <2>4, IdFacts
<1>11. SUFFICES ASSUME NEW s \in Slots, Waits(s)'
                PROVE  Cared(Req(slot[s].id))'
  BY DEF Parented
<1>12. CASE slot[s].state = "IDLE"
  <2>1. Req(slot[s].id)' = q
    BY <1>10, <1>11, <1>12
  <2>. QED
    BY <1>8, <2>1 DEF Cared
<1>13. CASE slot[s].state # "IDLE"
  <2>1. slot'[s] = slot[s] /\ Waits(s)
    BY <1>9, <1>11, <1>13 DEF Waits
  <2>2. PICK r \in Requests : r = Req(slot[s].id)
    BY <2>1, WaitsIs
  <2>3. Cared(r) /\ reader[r].pc # "new"
    BY <2>1, <2>2, WaitsIs DEF Parented
  <2>4. (Reading(r)' => Reading(r)) /\ (Wrong(r) => Wrong(r)')
    BY <2>3, LifeKeeps
  <2>5. \A p \in Slots : Prepares(p) => slot'[p].id = slot[p].id /\ Prepares(p)'
    BY <1>1, <1>9 DEF Prepares
  <2>6. Cared(r)'
    BY <2>3, <2>4, <2>5 DEF Cared
  <2>7. Req(slot[s].id)' = r
    BY <2>1, <2>2
  <2>. QED
    BY <2>6, <2>7 DEF Cared
<1>. QED
  BY <1>12, <1>13

-----------------------------------------------------------------------------
(* The theorem.                                                            *)

LEMMA NextCare ==
    ASSUME Prompted, Inv, Parented, [Next]_vars
    PROVE  Parented'
<1>0. LifeStep
  BY StepAs
<1>1. CASE Take
  BY <1>0, <1>1, QuietCare DEF Take
<1>2. CASE Process
  <2>1. CASE LaunchFails \/ Defer \/ SlotAction \/ Next_Response
    BY <1>0, <2>1, QuietCare DEF LaunchFails, Defer, SlotAction, Next_Response, Done
  <2>. QED
    BY <1>0, <1>2, <2>1, LaunchCare, CancelTaskCare DEF Process
<1>3. CASE Update
  <2>1. CASE UpdateBegin \/ UpdateIdle
    BY <1>0, <2>1, QuietCare DEF UpdateBegin, UpdateIdle
  <2>2. CASE PreSkip
    <3>1. UNCHANGED slot /\ pc \in {"gen", "prompt"} /\ pc' \in {"gen", "prompt", "decode", "wait"}
      BY <2>2 DEF PreSkip, Pre, Advance
    <3>. QED
      BY <1>0, <3>1, QuietCare
  <2>3. ASSUME NEW s \in Slots, PreGenerating(s)
        PROVE  Parented'
    <3>1. UNCHANGED slot /\ pc = "gen" /\ pc' \in {"gen", "prompt"}
      BY <2>3 DEF PreGenerating, Pre, Advance
    <3>. QED
      BY <1>0, <3>1, QuietCare
  <2>4. CASE PostSkip
    BY <1>0, <2>4, QuietCare DEF PostSkip
  <2>. QED
    BY <1>0, <1>3, <2>1, <2>2, <2>3, <2>4, PreEndsCare, DecodeOkCare, AbortAllCare, PrePromptCare,
       PostTokenCare, PostEndsCare DEF Update
<1>4. ASSUME NEW r \in Requests, Client(r)
      PROVE  Parented'
  <2>1. Receive(r) => UNCHANGED <<mainvars, slot>>
    BY Zenon DEF Receive
  <2>2. UNCHANGED <<mainvars, slot>>
    BY <1>4, <2>1 DEF Client, Open, Disconnect
  <2>. QED
    BY <1>0, <2>2, QuietCare DEF mainvars
<1>5. CASE UNCHANGED vars
  BY <1>0, <1>5, QuietCare DEF vars, mainvars
<1>. QED
  BY <1>1, <1>2, <1>3, <1>4, <1>5 DEF Next

LEMMA InitCare ==
    ASSUME Init
    PROVE  Parented
BY DEF Init, Parented, Waits, Idle

LEMMA CareIs ==
    ASSUME Inv, Parented
    PROVE  ChildHasParent
<1>1. SUFFICES ASSUME NEW s \in Slots, Waits(s), NEW r \in Requests, r = Req(slot[s].id)
               PROVE  \/ ~Reading(r) \/ ErrorPending(r)
                      \/ \E p \in Slots : /\ slot[p].id = Id(r, 0)
                                          /\ slot[p].state \in {"STARTED", "PROCESSING_PROMPT", "DONE_PROMPT"}
  <2>1. \A s \in Slots : Waits(s) => Req(slot[s].id) \in Requests
    BY WaitsIs
  <2>. QED
    BY <2>1 DEF ChildHasParent, Waits
<1>2. Cared(r)
  BY <1>1 DEF Parented
<1>3. CASE ~Reading(r)
  BY <1>3
<1>4. CASE Reading(r) /\ Wrong(r)
  <2>1. PICK t \in IdsOf(r) : answers[t] = <<"error">>
    BY <1>4 DEF Wrong
  <2>2. t \in Ids /\ Req(t) = r
    BY <2>1, IdFacts
  <2>3. Has(results, [kind |-> "error", id |-> t])
    BY <1>4, <2>1, <2>2, InvParts DEF Heard
  <2>4. ErrorPending(r)
    BY <2>1, <2>3, InvParts, ErrorIs
  <2>. QED
    BY <2>4
<1>5. ASSUME NEW p \in Slots, slot[p].id = Own(r), Prepares(p)
      PROVE  slot[p].id = Id(r, 0) /\ slot[p].state \in {"STARTED", "PROCESSING_PROMPT", "DONE_PROMPT"}
  BY <1>5 DEF Own, Prepares
<1>. QED
  BY <1>2, <1>3, <1>4, <1>5 DEF Cared

\* When every task that has children has a prompt, a child that waits for the prompt of
\* its parent has a parent in a slot that is still to give it, or its reader has left or
\* is about to learn of an error (launch, decode, abort_all_slots), for any requests,
\* children and slots.
THEOREM ChildrenHaveParents == Prompted => (Spec => []ChildHasParent)
<1>1. Prompted /\ Inv /\ Parented /\ [Next]_vars => Parented'
  BY NextCare
<1>2. Init => Parented
  BY InitCare
<1>3. Inv /\ Parented => ChildHasParent
  BY CareIs
<1>4. SUFFICES ASSUME Prompted
               PROVE  Spec => []ChildHasParent
  OBVIOUS
<1>5. Inv /\ Parented /\ [Next]_vars => Parented'
  BY <1>1, <1>4
<1>. QED
  BY <1>2, <1>3, <1>5, Invariance, PTL DEF Spec

=============================================================================
