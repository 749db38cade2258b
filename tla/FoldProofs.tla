----------------------------- MODULE FoldProofs -----------------------------
(***************************************************************************)
(* Facts about folds, minima and parts of sequences that the proofs need   *)
(* and the library does not have.  A fold over a finite set (FoldSet,      *)
(* FoldLeft over the indices of a sequence) is a function on the subsets   *)
(* of the set that is defined by itself: the element that is chosen of a   *)
(* subset is folded after the others.                                      *)
(***************************************************************************)
EXTENDS Integers, Sequences, FiniteSets, FiniteSetsExt, FiniteSetTheorems, WellFoundedInduction,
        SequenceTheorems, TLAPS

\* A non-empty set of naturals has a least element.
LEMMA LeastOf ==
    ASSUME NEW I \in SUBSET Nat, I # {}
    PROVE  \E n \in I : \A m \in I : n <= m
<1>. DEFINE R == {ss \in Nat \X Nat : ss[1] < ss[2]}
<1>1. IsWellFoundedOn(R, Nat)
  BY NatLessThanWellFounded DEF OpToRel
<1>2. PICK n \in I : \A m \in I : ~ (<<m, n>> \in R)
  BY <1>1, WFMin
<1>3. ASSUME NEW m \in I, m < n
      PROVE  <<m, n>> \in R
  <2>1. <<m, n>> \in Nat \X Nat /\ <<m, n>>[1] < <<m, n>>[2]
    BY <1>3
  <2>. QED
    BY <2>1, Zenon
<1>. HIDE DEF R
<1>4. \A m \in I : ~ (m < n)
  BY <1>2, <1>3, Zenon
<1>. QED
  BY <1>4

\* Induction, for a set of naturals.
LEMMA Inductive ==
    ASSUME NEW N \in Nat, NEW I \in SUBSET (0 .. N), 0 \in I, \A n \in I : n < N => n + 1 \in I
    PROVE  \A n \in 0 .. N : n \in I
<1>1. SUFFICES ASSUME (0 .. N) \ I # {}
               PROVE  FALSE
  OBVIOUS
<1>. DEFINE J == (0 .. N) \ I
<1>2. PICK n \in J : \A m \in J : n <= m
  <2>1. J \in SUBSET Nat /\ J # {}
    BY <1>1
  <2>. HIDE DEF J
  <2>. QED
    BY <2>1, LeastOf
<1>3. n # 0 /\ n - 1 \in 0 .. N /\ n - 1 \in I
  BY <1>2
<1>. QED
  BY <1>2, <1>3

\* The subsets of S with at most n elements.
Small(S, n) == {T \in SUBSET S : Cardinality(T) <= n}

\* Small sets, from those with an element less.
LEMMA SmallSets ==
    ASSUME NEW S, IsFiniteSet(S)
    PROVE  /\ Cardinality(S) \in Nat
           /\ \A T \in SUBSET S : T \in Small(S, Cardinality(S))
           /\ \A T \in Small(S, 0) : T = {}
           /\ \A n \in Nat : {} \in Small(S, n)
           /\ \A n \in Nat : Small(S, n) \in SUBSET Small(S, n + 1) 
           /\ \A n \in Nat : \A T \in Small(S, n + 1) : \A x \in T : T \ {x} \in Small(S, n)
<1>1. \A T \in SUBSET S : IsFiniteSet(T) /\ Cardinality(T) \in Nat /\ Cardinality(T) <= Cardinality(S)
                          /\ (Cardinality(T) = 0 <=> T = {})
  BY FS_Subset, FS_CardinalityType, FS_EmptySet
<1>2. \A T \in SUBSET S : \A x \in T : Cardinality(T \ {x}) = Cardinality(T) - 1
  BY <1>1, FS_RemoveElement
<1>3. \A n \in Nat : \A T \in Small(S, n + 1) : \A x \in T : T \ {x} \in Small(S, n)
  <2> TAKE n \in Nat
  <2> TAKE T \in Small(S, n + 1)
  <2> TAKE x \in T
  <2>1. T \in SUBSET S /\ Cardinality(T) \in Nat /\ Cardinality(T) <= n + 1 /\ Cardinality(T \ {x}) = Cardinality(T) - 1
    BY <1>1, <1>2 DEF Small
  <2> QED BY <2>1 DEF Small
<1>4. \A n \in Nat : {} \in Small(S, n)
  BY <1>1, FS_EmptySet DEF Small
<1>5. \A T \in Small(S, 0) : T = {}
  BY <1>1 DEF Small
<1>6. \A n \in Nat : Small(S, n) \in SUBSET Small(S, n + 1)
  BY <1>1 DEF Small
<1>7. Cardinality(S) \in Nat /\ \A T \in SUBSET S : T \in Small(S, Cardinality(S))
  BY <1>1 DEF Small
<1> QED BY <1>3, <1>4, <1>5, <1>6, <1>7

\* ch chooses an element of each non-empty subset of S.
Chooses(ch, S) ==
    /\ ch \in [(SUBSET S) \ {{}} -> S]
    /\ \A T \in (SUBSET S) \ {{}} : ch[T] \in T

\* I has a non-empty subset of S whenever it has that set without its chosen element.
Descends(I, ch, S) == \A T \in (SUBSET S) \ {{}} : T \ {ch[T]} \in I => T \in I

\* h folds F over the subsets of S, from b.
FoldsTo(h, ch, S, V, b, F) ==
    /\ h \in [SUBSET S -> V]
    /\ h[{}] = b
    /\ \A T \in (SUBSET S) \ {{}} : h[T] = F[<<ch[T], h[T \ {ch[T]}]>>]

\* g does what F does, from b on and wherever it comes from a value of V.
GoesOn(g, ch, S, V, b, F) ==
    /\ g[{}] = b
    /\ \A T \in (SUBSET S) \ {{}} : g[T \ {ch[T]}] \in V => g[T] = F[<<ch[T], g[T \ {ch[T]}]>>]

\* F keeps to H.
Carries(H, ch, S, V, b, F) ==
    /\ <<{}, b>> \in H
    /\ \A T \in (SUBSET S) \ {{}}, v \in V :
          <<T \ {ch[T]}, v>> \in H => <<T, F[<<ch[T], v>>]>> \in H

\* h is in H.
Ends(h, S, H) == \A T \in SUBSET S : <<T, h[T]>> \in H

\* g and h have the same for a set when they have it for the set without its chosen element.
Alike(g, h, ch, S) ==
    \A T \in (SUBSET S) \ {{}} : g[T \ {ch[T]}] = h[T \ {ch[T]}] => g[T] = h[T]

\* Induction over the subsets of a finite set: a set of them that has {}, and a set
\* whenever it has that set without its chosen element, has them all.
LEMMA Subsets ==
    ASSUME NEW S, IsFiniteSet(S), NEW ch, Chooses(ch, S),
           NEW I, {} \in I, Descends(I, ch, S)
    PROVE  \A T \in SUBSET S : T \in I
<1> DEFINE N == Cardinality(S)
           J == {n \in 0 .. N : Small(S, n) \subseteq I}
<1>1. N \in Nat /\ 0 \in J
  <2>1. N \in Nat /\ \A T \in Small(S, 0) : T = {}
    BY SmallSets
  <2>2. Small(S, 0) \subseteq I
    BY <2>1
  <2> QED BY <2>1, <2>2
<1>2. ASSUME NEW n \in J, n < N
      PROVE  n + 1 \in J
  <2>1. n \in Nat /\ n + 1 \in 0 .. N
    BY <1>1, <1>2
  <2>2. ASSUME NEW T \in Small(S, n + 1), T # {}
        PROVE  T \in I
    <3>1. T \in (SUBSET S) \ {{}} /\ ch[T] \in T
      BY <2>2 DEF Small, Chooses
    <3>2. T \ {ch[T]} \in Small(S, n)
      BY <2>1, <3>1, SmallSets
    <3>3. T \ {ch[T]} \in I
      BY <3>2
    <3> QED BY <3>1, <3>3 DEF Descends
  <2> QED BY <2>1, <2>2
<1>3. J \in SUBSET (0 .. N)
  OBVIOUS
<1> HIDE DEF J
<1>4. N \in J
  BY <1>1, <1>2, <1>3, Inductive
<1> QED BY <1>4, SmallSets DEF J

\* A function F over the elements of S can be folded over S.
LEMMA FoldExists ==
    ASSUME NEW S, IsFiniteSet(S), NEW ch, Chooses(ch, S),
           NEW V, NEW b \in V, NEW F \in [S \X V -> V]
    PROVE  \E h : FoldsTo(h, ch, S, V, b, F)
<1> DEFINE N == Cardinality(S)
           Folds(n, h) == /\ h[{}] = b
                          /\ \A T \in Small(S, n) : T # {} => h[T] = F[<<ch[T], h[T \ {ch[T]}]>>]
           J == {n \in 0 .. N : \E h \in [Small(S, n) -> V] : Folds(n, h)}
<1>0. N \in Nat
  BY SmallSets
<1>1. 0 \in J
  <2> DEFINE g == [T \in Small(S, 0) |-> b]
  <2>1. g \in [Small(S, 0) -> V] /\ Folds(0, g)
    BY SmallSets
  <2>2. 0 \in 0 .. N
    BY <1>0
  <2> HIDE DEF Folds, g
  <2> QED BY <2>1, <2>2
<1>2. ASSUME NEW n \in J, n < N
      PROVE  n + 1 \in J
  <2>1. PICK h \in [Small(S, n) -> V] : Folds(n, h)
    OBVIOUS
  <2>2. n \in Nat /\ n + 1 \in 0 .. N
    BY <1>0, <1>2
  <2> DEFINE g == [T \in Small(S, n + 1) |-> IF T = {} THEN b ELSE F[<<ch[T], h[T \ {ch[T]}]>>]]
  <2>3. ASSUME NEW T \in Small(S, n + 1), T # {}
        PROVE  ch[T] \in S /\ T \ {ch[T]} \in Small(S, n) /\ h[T \ {ch[T]}] \in V
    <3>1. T \in (SUBSET S) \ {{}} /\ ch[T] \in T /\ ch[T] \in S
      BY <2>3 DEF Small, Chooses
    <3>2. T \ {ch[T]} \in Small(S, n)
      BY <2>2, <3>1, SmallSets
    <3> QED BY <3>1, <3>2
  <2>4. g \in [Small(S, n + 1) -> V]
    <3> SUFFICES ASSUME NEW T \in Small(S, n + 1)
                 PROVE  (IF T = {} THEN b ELSE F[<<ch[T], h[T \ {ch[T]}]>>]) \in V
      OBVIOUS
    <3> QED BY <2>3
  <2>5. \A T \in Small(S, n) : T \in Small(S, n + 1) /\ g[T] = h[T]
    <3>1. \A T \in Small(S, n) : T \in Small(S, n + 1)
      BY <2>2, SmallSets
    <3> QED BY <2>1, <3>1
  <2>6. g[{}] = b
    BY <2>2, SmallSets
  <2>7. ASSUME NEW T \in Small(S, n + 1), T # {}
        PROVE  g[T] = F[<<ch[T], g[T \ {ch[T]}]>>]
    <3>1. g[T] = F[<<ch[T], h[T \ {ch[T]}]>>]
      BY <2>7
    <3>2. g[T \ {ch[T]}] = h[T \ {ch[T]}]
      BY <2>3, <2>5, <2>7
    <3> QED BY <3>1, <3>2
  <2> HIDE DEF g
  <2>8. Folds(n + 1, g)
    BY <2>6, <2>7
  <2> HIDE DEF Folds
  <2> QED BY <2>2, <2>4, <2>8
<1>3. J \in SUBSET (0 .. N)
  OBVIOUS
<1> HIDE DEF J
<1>4. N \in J
  BY <1>0, <1>1, <1>2, <1>3, Inductive
<1> HIDE DEF N
<1>5. PICK h \in [Small(S, N) -> V] : Folds(N, h)
  BY <1>4 DEF J
<1>6. Small(S, N) = SUBSET S
  BY SmallSets DEF Small, N
<1>7. h \in [SUBSET S -> V]
  BY <1>6
<1>8. \A T \in (SUBSET S) \ {{}} : h[T] = F[<<ch[T], h[T \ {ch[T]}]>>]
  BY <1>5, <1>6
<1> QED BY <1>5, <1>7, <1>8 DEF FoldsTo

\* What folds F over S from b stays in V, and in whatever F does not leave on the way:
\* H relates what was folded to the value so far.  g is any function that does so when
\* F is what op does to a value of V.
LEMMA FoldRule ==
    ASSUME NEW S, IsFiniteSet(S), NEW ch, Chooses(ch, S),
           NEW V, NEW b \in V, NEW F \in [S \X V -> V],
           NEW H, Carries(H, ch, S, V, b, F)
    PROVE  \E h : FoldsTo(h, ch, S, V, b, F) /\ Ends(h, S, H)
<1>1. PICK h : FoldsTo(h, ch, S, V, b, F)
  BY FoldExists
<1> DEFINE I == {T \in SUBSET S : <<T, h[T]>> \in H}
<1>2. {} \in I
  BY <1>1 DEF FoldsTo, Carries
<1>3. Descends(I, ch, S)
  BY <1>1 DEF Descends, FoldsTo, Chooses, Carries
<1> HIDE DEF I
<1>4. \A T \in SUBSET S : T \in I
  BY <1>2, <1>3, Subsets
<1>5. Ends(h, S, H)
  BY <1>4 DEF I, Ends
<1> QED BY <1>1, <1>5

\* Two functions that fold alike are the same.
LEMMA FoldUnique ==
    ASSUME NEW S, IsFiniteSet(S), NEW ch, Chooses(ch, S),
           NEW g, NEW h, g[{}] = h[{}], Alike(g, h, ch, S)
    PROVE  g[S] = h[S]
<1> DEFINE I == {T \in SUBSET S : g[T] = h[T]}
<1>1. {} \in I /\ Descends(I, ch, S)
  BY DEF Descends, Alike
<1> HIDE DEF I
<1>2. \A T \in SUBSET S : T \in I
  BY <1>1, Subsets
<1> QED BY <1>2 DEF I

\* The rule for a fold: there is one, and what F keeps as it goes from one subset to
\* the next holds of any g that goes on as F does from values of V.
LEMMA FoldIs ==
    ASSUME NEW S, IsFiniteSet(S), NEW ch, Chooses(ch, S),
           NEW V, NEW b \in V, NEW F \in [S \X V -> V],
           NEW H, <<{}, b>> \in H,
           \A T \in SUBSET S : \A x \in T : \A v \in V :
               <<T \ {x}, v>> \in H => <<T, F[<<x, v>>]>> \in H
    PROVE  /\ \E h : FoldsTo(h, ch, S, V, b, F)
           /\ \A g : GoesOn(g, ch, S, V, b, F) => g[S] \in V /\ <<S, g[S]>> \in H
<1>1. \A T \in (SUBSET S) \ {{}} : ch[T] \in T /\ T \ {ch[T]} \in SUBSET S
  BY DEF Chooses
<1>2. Carries(H, ch, S, V, b, F)
  BY <1>1 DEF Carries
<1>3. PICK h : FoldsTo(h, ch, S, V, b, F) /\ Ends(h, S, H)
  BY <1>2, FoldRule
<1>4. ASSUME NEW g, GoesOn(g, ch, S, V, b, F)
      PROVE  g[S] \in V /\ <<S, g[S]>> \in H
  <2>1. g[{}] = h[{}]
    BY <1>3, <1>4 DEF GoesOn, FoldsTo
  <2>2. ASSUME NEW T \in (SUBSET S) \ {{}}, g[T \ {ch[T]}] = h[T \ {ch[T]}]
        PROVE  g[T] = h[T]
    <3>1. h[T \ {ch[T]}] \in V /\ h[T] = F[<<ch[T], h[T \ {ch[T]}]>>]
      BY <1>1, <1>3 DEF FoldsTo
    <3>2. g[T] = F[<<ch[T], g[T \ {ch[T]}]>>]
      BY <1>4, <2>2, <3>1 DEF GoesOn
    <3> QED BY <2>2, <3>1, <3>2
  <2>3. Alike(g, h, ch, S)
    BY <2>2 DEF Alike
  <2>4. g[S] = h[S]
    BY <2>1, <2>3, FoldUnique, ZenonT(20)
  <2>5. S \in SUBSET S
    OBVIOUS
  <2> QED BY <1>3, <2>4, <2>5 DEF FoldsTo, Ends
<1> QED BY <1>3, <1>4

\* h folds F over the subsets of S, from b, by way of H.
Traces(h, ch, S, b, H, F) ==
    /\ h \in [SUBSET S -> {p[2] : p \in H}] /\ h[{}] = b
    /\ \A T \in (SUBSET S) \ {{}} : /\ <<T \ {ch[T]}, h[T \ {ch[T]}]>> \in H
                                  /\ h[T] = F[<<ch[T], h[T \ {ch[T]}]>>]

\* g does what F does, from b on and wherever it comes from H.
Follows(g, ch, S, b, H, F) ==
    /\ g[{}] = b
    /\ \A T \in (SUBSET S) \ {{}} :
          <<T \ {ch[T]}, g[T \ {ch[T]}]>> \in H => g[T] = F[<<ch[T], g[T \ {ch[T]}]>>]

\* The rule for a fold whose steps need what the steps before left: H relates what was
\* folded to the value so far, and F is asked of no value that H does not have.
LEMMA FoldFrom ==
    ASSUME NEW S, IsFiniteSet(S), NEW ch, Chooses(ch, S),
           NEW b, NEW H, <<{}, b>> \in H, NEW F,
           \A T \in (SUBSET S) \ {{}} : \A v : <<T \ {ch[T]}, v>> \in H => <<T, F[<<ch[T], v>>]>> \in H
    PROVE  /\ \E h : Traces(h, ch, S, b, H, F)
           /\ \A g : Follows(g, ch, S, b, H, F) => <<S, g[S]>> \in H
<1> DEFINE V == {p[2] : p \in H}
           G == [p \in S \X V |-> IF F[p] \in V THEN F[p] ELSE b]
<1>1. b \in V
  <2>1. <<{}, b>>[2] = b
    OBVIOUS
  <2> QED BY <2>1
<1>2. G \in [S \X V -> V]
  BY <1>1
<1>3. ASSUME NEW T, NEW v, <<T, v>> \in H
      PROVE  v \in V
  <2>1. <<T, v>>[2] = v
    OBVIOUS
  <2> QED BY <1>3, <2>1
<1>4. \A T \in (SUBSET S) \ {{}} : ch[T] \in S /\ ch[T] \in T /\ T \ {ch[T]} \in SUBSET S
  BY DEF Chooses
<1>5. ASSUME NEW T \in (SUBSET S) \ {{}}, NEW v, <<T \ {ch[T]}, v>> \in H
      PROVE  G[<<ch[T], v>>] = F[<<ch[T], v>>] /\ <<T, F[<<ch[T], v>>]>> \in H
  <2>1. <<T, F[<<ch[T], v>>]>> \in H
    BY <1>5
  <2>2. F[<<ch[T], v>>] \in V /\ v \in V
    BY <1>3, <1>5, <2>1
  <2>3. <<ch[T], v>> \in S \X V
    BY <1>4, <2>2
  <2> QED BY <2>1, <2>2, <2>3
<1> HIDE DEF V, G
<1>6. PICK h : FoldsTo(h, ch, S, V, b, G)
  BY <1>1, <1>2, FoldExists
<1>7. ASSUME NEW g, Follows(g, ch, S, b, H, F)
      PROVE  \A T \in SUBSET S : <<T, g[T]>> \in H
  <2> DEFINE I == {T \in SUBSET S : <<T, g[T]>> \in H}
  <2>1. {} \in I
    BY <1>7 DEF Follows
  <2>2. ASSUME NEW T \in (SUBSET S) \ {{}}, T \ {ch[T]} \in I
        PROVE  T \in I
    <3>1. <<T \ {ch[T]}, g[T \ {ch[T]}]>> \in H
      BY <2>2
    <3>2. g[T] = F[<<ch[T], g[T \ {ch[T]}]>>]
      BY <1>7, <3>1 DEF Follows
    <3>3. <<T, F[<<ch[T], g[T \ {ch[T]}]>>]>> \in H
      BY <1>5, <3>1
    <3> QED BY <3>2, <3>3
  <2>3. Descends(I, ch, S)
    BY <2>2 DEF Descends
  <2> HIDE DEF I
  <2>4. \A T \in SUBSET S : T \in I
    BY <2>1, <2>3, Subsets
  <2> QED BY <2>4 DEF I
<1>8. ASSUME NEW T \in (SUBSET S) \ {{}}, <<T \ {ch[T]}, h[T \ {ch[T]}]>> \in H
      PROVE  h[T] = F[<<ch[T], h[T \ {ch[T]}]>>]
  <2>1. h[T] = G[<<ch[T], h[T \ {ch[T]}]>>]
    BY <1>6 DEF FoldsTo
  <2> QED BY <1>5, <1>8, <2>1
<1>9. h[{}] = b
  BY <1>6 DEF FoldsTo
<1>10. \A T \in SUBSET S : <<T, h[T]>> \in H
  BY <1>7, <1>8, <1>9 DEF Follows
<1>11. \A T \in (SUBSET S) \ {{}} : /\ <<T \ {ch[T]}, h[T \ {ch[T]}]>> \in H
                                    /\ h[T] = F[<<ch[T], h[T \ {ch[T]}]>>]
  BY <1>4, <1>8, <1>10
<1>12. h \in [SUBSET S -> {p[2] : p \in H}]
  BY <1>6 DEF FoldsTo, V
<1>13. Traces(h, ch, S, b, H, F)
  BY <1>9, <1>11, <1>12 DEF Traces
<1>14. ASSUME NEW g, Follows(g, ch, S, b, H, F)
       PROVE  <<S, g[S]>> \in H
  <2>1. S \in SUBSET S
    OBVIOUS
  <2> QED BY <1>7, <1>14, <2>1
<1> QED BY <1>13, <1>14

-----------------------------------------------------------------------------
(* Numbers and sequences.                                                  *)

\* The minimum of a set of naturals.
LEMMA MinIs ==
    ASSUME NEW S \in SUBSET Nat, S # {}
    PROVE  Min(S) \in S /\ \A n \in S : Min(S) <= n
BY LeastOf DEF Min

\* The maximum of a set of naturals with a bound.
LEMMA MaxIs ==
    ASSUME NEW N \in Nat, NEW S \in SUBSET (0 .. N), S # {}
    PROVE  Max(S) \in S /\ \A n \in S : n <= Max(S)
<1> DEFINE R == {N - n : n \in S}
<1>1. R \in SUBSET Nat /\ R # {}
  <2>1. PICK n \in S : TRUE
    OBVIOUS
  <2>2. N - n \in R
    OBVIOUS
  <2>3. \A k \in S : N - k \in Nat
    OBVIOUS
  <2> QED BY <2>2, <2>3
<1>2. PICK r \in R : \A q \in R : r <= q
  <2> HIDE DEF R
  <2> QED BY <1>1, LeastOf
<1>3. PICK m \in S : r = N - m
  BY <1>2
<1>4. \A n \in S : m >= n
  <2> TAKE n \in S
  <2>1. N - n \in R
    OBVIOUS
  <2>2. r <= N - n
    BY <1>2, <2>1
  <2> QED BY <1>3, <2>2
<1>5. \E x \in S : \A y \in S : x >= y
  BY <1>4
<1>6. Max(S) \in S /\ \A y \in S : Max(S) >= y
  BY <1>5 DEF Max
<1> QED BY <1>6

\* The minimum of two numbers.
LEMMA MinOfTwo ==
    ASSUME NEW a \in Int, NEW b \in Int
    PROVE  Min({a, b}) = IF a <= b THEN a ELSE b
<1> DEFINE m == IF a <= b THEN a ELSE b
<1>1. m \in {a, b} /\ (\A y \in {a, b} : m <= y) /\ (\A x \in {a, b} : (\A y \in {a, b} : x <= y) => x = m)
  OBVIOUS
<1> HIDE DEF m
<1>2. Min({a, b}) = m
  BY <1>1 DEF Min
<1> QED BY <1>2 DEF m

\* The maximum of two numbers.
LEMMA MaxOfTwo ==
    ASSUME NEW a \in Int, NEW b \in Int
    PROVE  Max({a, b}) = IF a >= b THEN a ELSE b
<1> DEFINE m == IF a >= b THEN a ELSE b
<1>1. m \in {a, b} /\ (\A y \in {a, b} : m >= y) /\ (\A x \in {a, b} : (\A y \in {a, b} : x >= y) => x = m)
  OBVIOUS
<1> HIDE DEF m
<1>2. Max({a, b}) = m
  BY <1>1 DEF Max
<1> QED BY <1>2 DEF m

\* A part of a sequence.
LEMMA PartOf ==
    ASSUME NEW T, NEW s \in Seq(T), NEW m \in Nat, NEW n \in Int, m >= 1, n <= Len(s)
    PROVE  /\ SubSeq(s, m, n) \in Seq(T)
           /\ Len(SubSeq(s, m, n)) = IF m <= n THEN n - m + 1 ELSE 0
           /\ \A i \in 1 .. n - m + 1 : SubSeq(s, m, n)[i] = s[m + i - 1]
<1>1. \A i \in m .. n : s[i] \in T
  BY LenProperties, ElementOfSeq
<1> QED BY <1>1, SubSeqProperties

\* The beginning of a sequence.
LEMMA StartOf ==
    ASSUME NEW T, NEW s \in Seq(T), NEW n \in Nat, n <= Len(s)
    PROVE  /\ SubSeq(s, 1, n) \in Seq(T) /\ Len(SubSeq(s, 1, n)) = n
           /\ \A i \in 1 .. n : SubSeq(s, 1, n)[i] = s[i]
<1>1. /\ SubSeq(s, 1, n) \in Seq(T)
      /\ Len(SubSeq(s, 1, n)) = IF 1 <= n THEN n - 1 + 1 ELSE 0
      /\ \A i \in 1 .. n - 1 + 1 : SubSeq(s, 1, n)[i] = s[1 + i - 1]
  BY PartOf
<1> QED BY <1>1
=============================================================================
