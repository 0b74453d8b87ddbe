------------------------------ MODULE ListFacts ------------------------------
(***************************************************************************)
(* Facts about lists and recursive functions that the theorems about the   *)
(* object tree rest on.  Induction is stated with sets, so that it can be  *)
(* used with a set of numbers where an operator could not be passed.       *)
(***************************************************************************)
EXTENDS Naturals, Sequences, FiniteSets, SequenceTheorems, FiniteSetTheorems,
        WellFoundedInduction, TLAPS

\* A set of numbers that is not empty has a least element.
LEMMA NatLeast ==
  ASSUME NEW T, T \subseteq Nat, T # {}
  PROVE  \E n \in T : \A m \in T : n <= m
  <1> DEFINE R == {ss \in Nat \X Nat : ss[1] < ss[2]}
  <1>1. IsWellFoundedOn(R, Nat)
    BY NatLessThanWellFounded DEF OpToRel
  <1>2. \E x \in T : \A y \in T : <<y, x>> \notin R
    <2> HIDE DEF R
    <2> QED BY <1>1, WFMin
  <1>3. \A m, n \in Nat : <<m, n>> \notin R => n <= m
    OBVIOUS
  <1> QED BY <1>2, <1>3

\* Induction over the numbers, for a set.
LEMMA NatSetInduction ==
  ASSUME NEW T, T \subseteq Nat, 0 \in T, \A n \in T : n + 1 \in T
  PROVE  \A n \in Nat : n \in T
  <1> SUFFICES ASSUME Nat \ T # {} PROVE FALSE
    OBVIOUS
  <1>1. PICK n \in Nat \ T : \A m \in Nat \ T : n <= m
    BY NatLeast
  <1>2. n # 0 /\ n - 1 \in Nat
    BY <1>1
  <1>3. n - 1 \in T
    BY <1>1, <1>2
  <1>4. n \in T
    BY <1>1, <1>3
  <1> QED BY <1>1, <1>4

\* A finite set of numbers that is not empty has a greatest element.
LEMMA NatGreatest ==
  ASSUME NEW N \in Nat, NEW T \in SUBSET (0..N), T # {}
  PROVE  \E n \in T : \A m \in T : m <= n
  <1> DEFINE D == {N - m : m \in T}
  <1>0. \A m \in T : m \in Nat /\ N - m \in Nat
    OBVIOUS
  <1>1. D \subseteq Nat /\ D # {}
    BY <1>0
  <1>2. PICK d \in D : \A e \in D : d <= e
    BY <1>1, NatLeast
  <1>3. PICK n \in T : d = N - n
    BY <1>2
  <1>4. \A m \in T : N - n <= N - m
    BY <1>2, <1>3
  <1> QED BY <1>3, <1>4

\* The first values of a function defined by recursion: from a, by the steps G.
Follows(f, N, a, G) == f[0] = a /\ \A d \in 1..N : f[d] = G[d][f[d - 1]]

\* A function defined by recursion over the first numbers exists.
LEMMA RecursionExists ==
  ASSUME NEW X, NEW A \in X, NEW N \in Nat, NEW G \in [1..N -> [X -> X]]
  PROVE  \E f \in [0..N -> X] : Follows(f, N, A, G)
  <1> DEFINE Upto(n) == n <= N =>
               \E f \in [0..n -> X] : f[0] = A /\ \A d \in 1..n : f[d] = G[d][f[d - 1]]
  <1>1. Upto(0)
    <2> DEFINE f == [d \in 0..0 |-> A]
    <2>1. f \in [0..0 -> X] /\ f[0] = A /\ \A d \in 1..0 : f[d] = G[d][f[d - 1]]
      OBVIOUS
    <2> HIDE DEF f
    <2> QED BY <2>1
  <1>2. ASSUME NEW n \in Nat, Upto(n)
        PROVE  Upto(n + 1)
    <2> SUFFICES ASSUME n + 1 <= N
                 PROVE  \E f \in [0..(n + 1) -> X] :
                          f[0] = A /\ \A d \in 1..(n + 1) : f[d] = G[d][f[d - 1]]
      OBVIOUS
    <2>1. PICK f \in [0..n -> X] : f[0] = A /\ \A d \in 1..n : f[d] = G[d][f[d - 1]]
      BY <1>2
    <2> DEFINE h == [d \in 0..(n + 1) |-> IF d = n + 1 THEN G[n + 1][f[n]] ELSE f[d]]
    <2>2. G[n + 1][f[n]] \in X
      <3>1. n + 1 \in 1..N /\ n \in 0..n
        BY <1>2
      <3> QED BY <3>1
    <2>3. h \in [0..(n + 1) -> X]
      BY <1>2, <2>2
    <2>4. h[0] = A
      BY <2>1
    <2>5. ASSUME NEW d \in 1..(n + 1)
          PROVE  h[d] = G[d][h[d - 1]]
      <3>1. CASE d = n + 1
        BY <3>1
      <3>2. CASE d # n + 1
        <4>1. d \in 1..n /\ d - 1 \in 0..n /\ d - 1 # n + 1
          BY <3>2
        <4> QED BY <2>1, <3>2, <4>1
      <3> QED BY <3>1, <3>2
    <2> QED BY <2>3, <2>4, <2>5
  <1>3. \A n \in Nat : Upto(n)
    <2> DEFINE T == {n \in Nat : Upto(n)}
    <2> HIDE DEF Upto
    <2>1. T \subseteq Nat /\ 0 \in T /\ \A n \in T : n + 1 \in T
      BY <1>1, <1>2
    <2> HIDE DEF T
    <2>2. \A n \in Nat : n \in T
      BY <2>1, NatSetInduction
    <2> USE DEF T
    <2> QED BY <2>2
  <1> QED BY <1>3 DEF Follows

\* What is computed step by step stays in a set that the steps stay in.
LEMMA RecursionType ==
  ASSUME NEW N \in Nat, NEW X, NEW f, f[0] \in X, \A d \in 1..N : f[d - 1] \in X => f[d] \in X
  PROVE  \A d \in 0..N : f[d] \in X
  <1> DEFINE T == {n \in Nat : n <= N => f[n] \in X}
  <1>1. T \subseteq Nat /\ 0 \in T
    OBVIOUS
  <1>2. ASSUME NEW n \in T PROVE n + 1 \in T
    <2> SUFFICES ASSUME NEW m, m = n + 1, m <= N PROVE f[m] \in X
      OBVIOUS
    <2>1. m \in 1..N /\ m - 1 = n /\ n <= N
      OBVIOUS
    <2>2. f[n] \in X
      BY <2>1
    <2> QED BY <2>1, <2>2
  <1>3. \A n \in Nat : n \in T
    <2> HIDE DEF T
    <2> QED BY <1>1, <1>2, NatSetInduction
  <1> QED BY <1>3

\* A set of numbers that has the first, and with each the next, has all up to a bound.
LEMMA StepInduction ==
  ASSUME NEW N \in Nat, NEW T, 0 \in T, \A d \in 1..N : d - 1 \in T => d \in T
  PROVE  \A d \in 0..N : d \in T
  <1> DEFINE f == [d \in 0..N |-> d]
  <1>1. f[0] = 0 /\ \A d \in 1..N : f[d] = d /\ f[d - 1] = d - 1
    OBVIOUS
  <1>2. \A d \in 0..N : f[d] = d
    OBVIOUS
  <1> HIDE DEF f
  <1>3. f[0] \in T /\ \A d \in 1..N : f[d - 1] \in T => f[d] \in T
    BY <1>1
  <1>4. \A d \in 0..N : f[d] \in T
    BY <1>3, RecursionType
  <1> QED BY <1>2, <1>4

-----------------------------------------------------------------------------
(* Positions in a list.                                                     *)

\* Counting the elements of a finite set of numbers up to one of them numbers the set, in
\* its order.
LEMMA Numbering ==
  ASSUME NEW n \in Nat, NEW P, P \subseteq 1..n
  PROVE  /\ Cardinality(P) \in Nat
         /\ \A i \in P : Cardinality({j \in P : j <= i}) \in 1..Cardinality(P)
         /\ \A i, k \in P : i < k => Cardinality({j \in P : j <= i}) < Cardinality({j \in P : j <= k})
         /\ \A k \in 1..Cardinality(P) : \E i \in P : Cardinality({j \in P : j <= i}) = k
  <1> DEFINE Count(i) == Cardinality({j \in P : j <= i})
             c == [i \in P |-> Count(i)]
             N == Cardinality(P)
  <1>1. IsFiniteSet(P) /\ N \in Nat /\ \A i \in P : i \in Nat
    <2>1. IsFiniteSet(1..n)
      BY FS_Interval
    <2>2. IsFiniteSet(P)
      BY <2>1, FS_Subset
    <2> QED BY <2>2, FS_CardinalityType
  <1>2. ASSUME NEW i \in P
        PROVE  IsFiniteSet({j \in P : j <= i}) /\ Count(i) \in 1..N
    <2>1. {j \in P : j <= i} \in SUBSET P /\ i \in {j \in P : j <= i}
      BY <1>1
    <2>2. IsFiniteSet({j \in P : j <= i}) /\ Count(i) <= N /\ Count(i) \in Nat
      BY <1>1, <2>1, FS_Subset, FS_CardinalityType
    <2>3. Count(i) # 0
      BY <2>1, <2>2, FS_EmptySet
    <2> QED BY <1>1, <2>2, <2>3
  <1>3. ASSUME NEW i \in P, NEW k \in P, i < k
        PROVE  Count(i) < Count(k)
    <2>0. /\ \A j \in P : j <= i => j <= k
          /\ k \in {j \in P : j <= k} /\ k \notin {j \in P : j <= i}
      BY <1>1, <1>3
    <2>1. {j \in P : j <= i} \in SUBSET {j \in P : j <= k} /\ {j \in P : j <= i} # {j \in P : j <= k}
      BY <2>0
    <2>2. Count(i) <= Count(k) /\ Count(i) # Count(k)
      BY <1>2, <2>1, FS_Subset
    <2> QED BY <1>2, <2>2
  <1>4. c \in [P -> 1..N]
    BY <1>2
  <1>5. c \in Injection(P, 1..N)
    <2>1. \A i, k \in P : c[i] = c[k] => i = k
      BY <1>1, <1>2, <1>3
    <2> QED BY <1>4, <2>1 DEF Injection, IsInjective
  <1>6. IsFiniteSet(1..N) /\ Cardinality(1..N) = N
    BY <1>1, FS_Interval
  <1>7. c \in Surjection(P, 1..N)
    BY <1>5, <1>6, FS_Injection
  <1>8. \A k \in 1..N : \E i \in P : c[i] = k
    BY <1>7 DEF Surjection
  <1> QED BY <1>1, <1>2, <1>3, <1>8

\* A set of numbers that has all numbers below its elements is an initial segment.
LEMMA Initial ==
  ASSUME NEW n \in Nat, NEW P, P \subseteq 1..n, \A i \in P : \A j \in 1..i : j \in P
  PROVE  Cardinality(P) \in 0..n /\ P = 1..Cardinality(P)
  <1>1. CASE P = {}
    BY <1>1, FS_EmptySet
  <1>2. CASE P # {}
    <2>1. P \subseteq 0..n
      OBVIOUS
    <2>2. PICK m \in P : \A i \in P : i <= m
      BY <1>2, <2>1, NatGreatest
    <2>a. m \in 1..n /\ \A j \in 1..m : j \in P
      BY <2>2
    <2>b. \A j \in P : j \in 1..m
      BY <2>2
    <2>3. P = 1..m /\ m \in 1..n
      BY <2>a, <2>b
    <2>4. Cardinality(1..m) = m
      BY <2>3, FS_Interval
    <2> QED BY <2>3, <2>4
  <1> QED BY <1>1, <1>2

\* A list with an element put in front of a position, or behind the last; and
\* without the element at a position.
PutAt(s, i, e) == SubSeq(s, 1, i - 1) \o <<e>> \o SubSeq(s, i, Len(s))
TakenAt(s, i) == SubSeq(s, 1, i - 1) \o SubSeq(s, i + 1, Len(s))

\* What stands where in a list with a new element.
LEMMA Inserted ==
  ASSUME NEW S, NEW s \in Seq(S), NEW i \in 1..(Len(s) + 1), NEW e \in S
  PROVE  LET r == PutAt(s, i, e)
         IN /\ r \in Seq(S) /\ Len(r) = Len(s) + 1
            /\ \A k \in 1..(Len(s) + 1) :
                 r[k] = IF k < i THEN s[k] ELSE IF k = i THEN e ELSE s[k - 1]
  <1> DEFINE a == SubSeq(s, 1, i - 1)
             b == SubSeq(s, i, Len(s))
             r == a \o <<e>> \o b
  <1>1. Len(s) \in Nat /\ i \in Int /\ \A k \in 1..Len(s) : s[k] \in S
    OBVIOUS
  <1>2. a \in Seq(S) /\ Len(a) = i - 1 /\ \A k \in 1..(i - 1) : a[k] = s[k]
    BY <1>1, SubSeqProperties
  <1>3. b \in Seq(S) /\ Len(b) = Len(s) - i + 1 /\ \A k \in 1..(Len(s) - i + 1) : b[k] = s[i + k - 1]
    BY <1>1, SubSeqProperties
  <1> HIDE DEF a, b
  <1>4. <<e>> \in Seq(S) /\ Len(<<e>>) = 1 /\ <<e>>[1] = e
    OBVIOUS
  <1>5. /\ a \o <<e>> \in Seq(S) /\ Len(a \o <<e>>) = i
        /\ \A k \in 1..i : (a \o <<e>>)[k] = IF k < i THEN s[k] ELSE e
    BY <1>1, <1>2, <1>4, ConcatProperties
  <1>6. /\ r \in Seq(S) /\ Len(r) = Len(s) + 1
        /\ \A k \in 1..(Len(s) + 1) : r[k] = IF k <= i THEN (a \o <<e>>)[k] ELSE b[k - i]
    <2> DEFINE c == a \o <<e>>
    <2>1. c \in Seq(S) /\ Len(c) = i
      BY <1>5
    <2> HIDE DEF c
    <2>2. /\ c \o b \in Seq(S) /\ Len(c \o b) = Len(c) + Len(b)
          /\ \A k \in 1..(Len(c) + Len(b)) :
               (c \o b)[k] = IF k <= Len(c) THEN c[k] ELSE b[k - Len(c)]
      BY <1>3, <2>1, ConcatProperties
    <2>3. Len(c) + Len(b) = Len(s) + 1
      BY <1>1, <1>3, <2>1
    <2> QED BY <2>1, <2>2, <2>3 DEF c
  <1>7. ASSUME NEW k \in 1..(Len(s) + 1), k > i
        PROVE  b[k - i] = s[k - 1]
    BY <1>1, <1>3, <1>7
  <1>8. \A k \in 1..(Len(s) + 1) : r[k] = IF k < i THEN s[k] ELSE IF k = i THEN e ELSE s[k - 1]
    BY <1>1, <1>5, <1>6, <1>7
  <1> QED BY <1>6, <1>8 DEF a, b, PutAt

\* What stands where in a list without one of its elements.
LEMMA Removed ==
  ASSUME NEW S, NEW s \in Seq(S), NEW i \in 1..Len(s)
  PROVE  LET r == TakenAt(s, i)
         IN /\ r \in Seq(S) /\ Len(r) = Len(s) - 1
            /\ \A k \in 1..(Len(s) - 1) : r[k] = IF k < i THEN s[k] ELSE s[k + 1]
  <1> DEFINE a == SubSeq(s, 1, i - 1)
             b == SubSeq(s, i + 1, Len(s))
             r == a \o b
  <1>1. Len(s) \in Nat /\ i \in Int /\ \A k \in 1..Len(s) : s[k] \in S
    OBVIOUS
  <1>2. a \in Seq(S) /\ Len(a) = i - 1 /\ \A k \in 1..(i - 1) : a[k] = s[k]
    BY <1>1, SubSeqProperties
  <1>3. b \in Seq(S) /\ Len(b) = Len(s) - i /\ \A k \in 1..(Len(s) - i) : b[k] = s[i + k]
    BY <1>1, SubSeqProperties
  <1> HIDE DEF a, b
  <1>4. /\ r \in Seq(S) /\ Len(r) = Len(s) - 1
        /\ \A k \in 1..(Len(s) - 1) : r[k] = IF k <= i - 1 THEN a[k] ELSE b[k - (i - 1)]
    <2>1. /\ r \in Seq(S) /\ Len(r) = Len(a) + Len(b)
          /\ \A k \in 1..(Len(a) + Len(b)) :
               r[k] = IF k <= Len(a) THEN a[k] ELSE b[k - Len(a)]
      BY <1>2, <1>3, ConcatProperties
    <2>2. Len(a) + Len(b) = Len(s) - 1
      BY <1>1, <1>2, <1>3
    <2> QED BY <1>2, <2>1, <2>2
  <1>5. \A k \in 1..(Len(s) - 1) : k >= i => b[k - (i - 1)] = s[k + 1]
    BY <1>1, <1>3
  <1>6. \A k \in 1..(Len(s) - 1) : r[k] = IF k < i THEN s[k] ELSE s[k + 1]
    BY <1>1, <1>2, <1>4, <1>5
  <1> QED BY <1>4, <1>6 DEF a, b, TakenAt

\* An element is in a list.
Occurs(s, e) == \E k \in 1..Len(s) : s[k] = e

\* What is in a list of two parts is in one of them.
LEMMA OccursInConcat ==
  ASSUME NEW S, NEW s \in Seq(S), NEW t \in Seq(S), NEW e
  PROVE  Occurs(s \o t, e) <=> Occurs(s, e) \/ Occurs(t, e)
  <1>1. /\ Len(s) \in Nat /\ Len(t) \in Nat /\ Len(s \o t) = Len(s) + Len(t)
        /\ \A k \in 1..(Len(s) + Len(t)) :
             (s \o t)[k] = IF k <= Len(s) THEN s[k] ELSE t[k - Len(s)]
    BY ConcatProperties
  <1>2. ASSUME Occurs(s \o t, e) PROVE Occurs(s, e) \/ Occurs(t, e)
    <2>1. PICK k \in 1..(Len(s) + Len(t)) : (s \o t)[k] = e
      BY <1>1, <1>2 DEF Occurs
    <2>2. k <= Len(s) => k \in 1..Len(s)
      BY <1>1
    <2>3. ~(k <= Len(s)) => k - Len(s) \in 1..Len(t)
      BY <1>1
    <2> QED BY <1>1, <2>1, <2>2, <2>3 DEF Occurs
  <1>3. ASSUME Occurs(s, e) PROVE Occurs(s \o t, e)
    <2>1. PICK k \in 1..Len(s) : s[k] = e
      BY <1>3 DEF Occurs
    <2>2. k \in 1..(Len(s) + Len(t)) /\ k <= Len(s)
      BY <1>1
    <2> QED BY <1>1, <2>1, <2>2 DEF Occurs
  <1>4. ASSUME Occurs(t, e) PROVE Occurs(s \o t, e)
    <2>1. PICK k \in 1..Len(t) : t[k] = e
      BY <1>4 DEF Occurs
    <2>2. /\ k + Len(s) \in 1..(Len(s) + Len(t)) /\ ~(k + Len(s) <= Len(s))
          /\ k + Len(s) - Len(s) = k
      BY <1>1
    <2> QED BY <1>1, <2>1, <2>2 DEF Occurs
  <1> QED BY <1>2, <1>3, <1>4

\* The recursion that joins lists one behind the other.
Joins(f, N, ss) == f = [i \in 1..(N + 1) |-> IF i = 1 THEN ss[i] ELSE f[i - 1] \o ss[i]]

\* The recursion that joins lists one behind the other has a solution.
LEMMA JoinExists ==
  ASSUME NEW S, NEW N \in Nat, NEW ss \in [1..(N + 1) -> Seq(S)]
  PROVE  \E g : Joins(g, N, ss)
  <1> DEFINE X == Seq(S)
             G == [d \in 1..N |-> [w \in X |-> w \o ss[d + 1]]]
  <1>1. ss[1] \in X
    OBVIOUS
  <1>2. ASSUME NEW w \in X, NEW d \in 1..N
        PROVE  w \o ss[d + 1] \in X
    <2>1. ss[d + 1] \in Seq(S)
      OBVIOUS
    <2> QED BY <2>1, ConcatProperties
  <1>3. G \in [1..N -> [X -> X]]
    BY <1>2
  <1>a. \A d \in 1..N : \A w \in X : G[d][w] = w \o ss[d + 1]
    BY <1>2
  <1> HIDE DEF X, G
  <1>4. PICK h \in [0..N -> X] : h[0] = ss[1] /\ \A d \in 1..N : h[d] = G[d][h[d - 1]]
    <2> DEFINE A == ss[1]
    <2>1. A \in X
      BY <1>1
    <2> HIDE DEF A
    <2>2. \E h \in [0..N -> X] : Follows(h, N, A, G)
      BY <1>3, <2>1, RecursionExists
    <2> QED BY <2>2 DEF A, Follows
  <1>5. h[0] = ss[1] /\ \A d \in 1..N : h[d] = h[d - 1] \o ss[d + 1]
    <2>1. \A d \in 1..N : h[d - 1] \in X
      OBVIOUS
    <2> QED BY <1>a, <1>4, <2>1
  <1> DEFINE g == [i \in 1..(N + 1) |-> h[i - 1]]
  <1>6. ASSUME NEW i \in 1..(N + 1)
        PROVE  g[i] = IF i = 1 THEN ss[i] ELSE g[i - 1] \o ss[i]
    <2>1. CASE i = 1
      BY <1>5, <2>1
    <2>2. CASE i # 1
      <3>1. i - 1 \in 1..N /\ i - 1 \in 1..(N + 1) /\ i - 1 + 1 = i
        BY <2>2
      <3>2. h[i - 1] = h[i - 1 - 1] \o ss[i]
        BY <1>5, <3>1
      <3> QED BY <2>2, <3>1, <3>2
    <2> QED BY <2>1, <2>2
  <1>7. Joins(g, N, ss)
    BY <1>6 DEF Joins
  <1> QED BY <1>7

\* The steps of a recursion that joins lists.
LEMMA JoinSteps ==
  ASSUME NEW S, NEW N \in Nat, NEW ss \in [1..(N + 1) -> Seq(S)],
         NEW f, Joins(f, N, ss)
  PROVE  f[1] = ss[1] /\ \A i \in 1..N : f[i + 1] = f[i] \o ss[i + 1]
  <1> DEFINE g == [i \in 1..(N + 1) |-> IF i = 1 THEN ss[i] ELSE f[i - 1] \o ss[i]]
  <1>1. g[1] = ss[1] /\ \A i \in 1..(N + 1) : i # 1 => g[i] = f[i - 1] \o ss[i]
    BY SMTT(30)
  <1>3. f = g
    BY DEF Joins
  <1> HIDE DEF g
  <1>2. ASSUME NEW i \in 1..N, NEW k, k = i + 1
        PROVE  f[k] = f[i] \o ss[k]
    <2>1. k \in 1..(N + 1) /\ k # 1 /\ k - 1 = i
      BY <1>2
    <2> QED BY <1>1, <1>3, <2>1
  <1>4. \A i \in 1..N : f[i + 1] = f[i] \o ss[i + 1]
    BY <1>2
  <1> QED BY <1>1, <1>3, <1>4

\* What is in the joined lists is in one of them.
LEMMA JoinElements ==
  ASSUME NEW S, NEW N \in Nat, NEW ss \in [1..(N + 1) -> Seq(S)],
         NEW f, Joins(f, N, ss)
  PROVE  /\ f[N + 1] \in Seq(S)
         /\ \A e : Occurs(f[N + 1], e) <=> \E i \in 1..(N + 1) : Occurs(ss[i], e)
  <1> DEFINE Joined(n) == n <= N =>
                 /\ f[n + 1] \in Seq(S)
                 /\ \A e : Occurs(f[n + 1], e) <=> \E i \in 1..(n + 1) : Occurs(ss[i], e)
  <1>1. f[1] = ss[1] /\ \A i \in 1..N : f[i + 1] = f[i] \o ss[i + 1]
    BY JoinSteps
  <1>2. Joined(0)
    <2>1. f[1] = ss[1] /\ ss[1] \in Seq(S)
      BY <1>1
    <2>2. 0 + 1 = 1 /\ 1..1 = {1}
      OBVIOUS
    <2> QED BY <2>1, <2>2
  <1>3. ASSUME NEW n \in Nat, Joined(n)
        PROVE  Joined(n + 1)
    <2> SUFFICES ASSUME n + 1 <= N
                 PROVE  /\ f[n + 1 + 1] \in Seq(S)
                        /\ \A e : Occurs(f[n + 1 + 1], e) <=> \E i \in 1..(n + 1 + 1) : Occurs(ss[i], e)
      OBVIOUS
    <2> DEFINE m == n + 1
    <2>1. m \in 1..N
      OBVIOUS
    <2>b. 1..(m + 1) = 1..m \cup {m + 1}
      OBVIOUS
    <2>2. /\ f[m] \in Seq(S) /\ ss[m + 1] \in Seq(S)
          /\ \A e : Occurs(f[m], e) <=> \E i \in 1..m : Occurs(ss[i], e)
      <3>1. n <= N /\ m + 1 \in 1..(N + 1)
        OBVIOUS
      <3> QED BY <1>3, <3>1
    <2> HIDE DEF m
    <2>3. f[m + 1] = f[m] \o ss[m + 1]
      BY <1>1, <2>1
    <2>4. f[m + 1] \in Seq(S)
      BY <2>2, <2>3, ConcatProperties
    <2>5. \A e : Occurs(f[m + 1], e) <=> Occurs(f[m], e) \/ Occurs(ss[m + 1], e)
      BY <2>2, <2>3, OccursInConcat
    <2>6. \A e : Occurs(f[m + 1], e) <=> \E i \in 1..(m + 1) : Occurs(ss[i], e)
      BY <2>b, <2>2, <2>5
    <2> QED BY <2>4, <2>6 DEF m
  <1>4. \A n \in Nat : Joined(n)
    <2> DEFINE T == {n \in Nat : Joined(n)}
    <2> HIDE DEF Joined
    <2>1. T \subseteq Nat /\ 0 \in T /\ \A n \in T : n + 1 \in T
      BY <1>2, <1>3
    <2> HIDE DEF T
    <2>2. \A n \in Nat : n \in T
      BY <2>1, NatSetInduction
    <2> USE DEF T
    <2> QED BY <2>2
  <1>5. N <= N
    OBVIOUS
  <1> QED BY <1>4, <1>5

-----------------------------------------------------------------------------
(* Lists without repetitions, and in the order of weights.                  *)

Distinct(s) == \A i, j \in 1..Len(s) : s[i] = s[j] => i = j

InOrder(s, w) == \A i, j \in 1..Len(s) : i < j => w[s[i]] <= w[s[j]]

\* A new element at any position.
LEMMA InsertedMembers ==
  ASSUME NEW S, NEW s \in Seq(S), NEW i \in 1..(Len(s) + 1), NEW e \in S,
         Distinct(s), ~Occurs(s, e)
  PROVE  LET r == PutAt(s, i, e)
         IN r \in Seq(S) /\ Distinct(r) /\ \A x : Occurs(r, x) <=> Occurs(s, x) \/ x = e
  <1> DEFINE r == PutAt(s, i, e)
  <1>1. /\ r \in Seq(S) /\ Len(r) = Len(s) + 1
        /\ \A k \in 1..(Len(s) + 1) :
             r[k] = IF k < i THEN s[k] ELSE IF k = i THEN e ELSE s[k - 1]
    BY Inserted
  <1>2. Len(s) \in Nat
    OBVIOUS
  <1> HIDE DEF r
  <1>3. Distinct(r)
    <2>1. SUFFICES ASSUME NEW j \in 1..Len(r), NEW k \in 1..Len(r), r[j] = r[k], j < k PROVE FALSE
      BY <1>1, <1>2 DEF Distinct
    <2>2. /\ j < i => j \in 1..Len(s) /\ r[j] = s[j]
          /\ j > i => j - 1 \in 1..Len(s) /\ r[j] = s[j - 1]
          /\ k < i => k \in 1..Len(s) /\ r[k] = s[k]
          /\ k > i => k - 1 \in 1..Len(s) /\ r[k] = s[k - 1]
          /\ j = i => r[j] = e
          /\ k = i => r[k] = e
      BY <1>1, <1>2
    <2>3. \A l \in 1..Len(s) : s[l] # e
      BY DEF Occurs
    <2>4. j \in Int /\ k \in Int /\ i \in Int
      BY <1>1, <1>2
    <2>5. \A a, b \in 1..Len(s) : s[a] = s[b] => a = b
      BY DEF Distinct
    <2>6. CASE j < i /\ k < i
      BY ONLY <2>1, <2>2, <2>4, <2>5, <2>6
    <2>7. CASE j < i /\ k > i
      BY ONLY <2>1, <2>2, <2>4, <2>5, <2>7
    <2>8. CASE j > i /\ k > i
      BY ONLY <2>1, <2>2, <2>4, <2>5, <2>8
    <2>9. CASE j = i \/ k = i
      BY ONLY <2>1, <2>2, <2>3, <2>4, <2>9
    <2> QED BY ONLY <2>1, <2>4, <2>6, <2>7, <2>8, <2>9
  <1>4. ASSUME NEW x, Occurs(r, x) PROVE Occurs(s, x) \/ x = e
    <2>1. PICK k \in 1..Len(r) : r[k] = x
      BY <1>4 DEF Occurs
    <2>2. /\ k < i => k \in 1..Len(s) /\ r[k] = s[k]
          /\ k > i => k - 1 \in 1..Len(s) /\ r[k] = s[k - 1]
          /\ k = i => r[k] = e
      BY <1>1, <1>2
    <2>3. k < i \/ k > i \/ k = i
      BY <1>1, <1>2
    <2> QED BY <2>1, <2>2, <2>3 DEF Occurs
  <1>5. ASSUME NEW x, Occurs(s, x) PROVE Occurs(r, x)
    <2>1. PICK k \in 1..Len(s) : s[k] = x
      BY <1>5 DEF Occurs
    <2>2. CASE k < i
      <3>1. k \in 1..Len(r) /\ r[k] = x
        BY <1>1, <1>2, <2>1, <2>2
      <3> QED BY <3>1 DEF Occurs
    <2>3. CASE k >= i
      <3>1. k + 1 \in 1..Len(r) /\ r[k + 1] = x
        <4>1. k + 1 \in 1..(Len(s) + 1) /\ ~(k + 1 < i) /\ k + 1 # i /\ k + 1 - 1 = k
          BY <1>2, <2>3
        <4> QED BY <1>1, <2>1, <4>1
      <3> QED BY <3>1 DEF Occurs
    <2> QED BY <1>2, <2>2, <2>3
  <1>6. Occurs(r, e)
    <2>1. i \in 1..Len(r) /\ r[i] = e
      BY <1>1, <1>2
    <2> QED BY <2>1 DEF Occurs
  <1> QED BY <1>1, <1>3, <1>4, <1>5, <1>6 DEF r

\* A new element between what is not heavier and what is not lighter.
LEMMA InsertedInOrder ==
  ASSUME NEW S, NEW s \in Seq(S), NEW i \in 1..(Len(s) + 1), NEW e \in S,
         NEW w \in [S -> Nat], InOrder(s, w),
         \A k \in 1..Len(s) : IF k < i THEN w[s[k]] <= w[e] ELSE w[e] <= w[s[k]]
  PROVE  InOrder(PutAt(s, i, e), w)
  <1> DEFINE r == PutAt(s, i, e)
  <1>1. /\ r \in Seq(S) /\ Len(r) = Len(s) + 1
        /\ \A k \in 1..(Len(s) + 1) :
             r[k] = IF k < i THEN s[k] ELSE IF k = i THEN e ELSE s[k - 1]
    BY Inserted
  <1>2. Len(s) \in Nat
    OBVIOUS
  <1> HIDE DEF r
  <1>3. ASSUME NEW j \in 1..Len(r), NEW k \in 1..Len(r), j < k
        PROVE  w[r[j]] <= w[r[k]]
    <2>1. /\ j < i => j \in 1..Len(s) /\ r[j] = s[j]
          /\ j > i => j - 1 \in 1..Len(s) /\ r[j] = s[j - 1]
          /\ k < i => k \in 1..Len(s) /\ r[k] = s[k]
          /\ k > i => k - 1 \in 1..Len(s) /\ r[k] = s[k - 1] /\ ~(k - 1 < i)
          /\ j = i => r[j] = e
          /\ k = i => r[k] = e
      BY <1>1, <1>2, SMTT(30)
    <2>2. CASE j < i /\ k < i
      BY <1>3, <2>1, <2>2 DEF InOrder
    <2>3. CASE j < i /\ k = i
      BY <2>1, <2>3
    <2>4. CASE j < i /\ k > i
      <3>1. j < k - 1
        BY <1>1, <1>2, <2>4
      <3> QED BY <2>1, <2>4, <3>1 DEF InOrder
    <2>5. CASE j = i
      BY <1>1, <1>2, <1>3, <2>1, <2>5
    <2>6. CASE j > i
      <3>1. k > i /\ j - 1 < k - 1
        BY <1>1, <1>2, <1>3, <2>6
      <3> QED BY <2>1, <2>6, <3>1 DEF InOrder
    <2>7. (j < i \/ j = i \/ j > i) /\ (k < i \/ k = i \/ k > i)
      BY <1>1, <1>2
    <2> QED BY <2>2, <2>3, <2>4, <2>5, <2>6, <2>7
  <1> QED BY <1>3 DEF InOrder, r

\* A list without one of its elements.
LEMMA RemovedMembers ==
  ASSUME NEW S, NEW s \in Seq(S), NEW i \in 1..Len(s), Distinct(s)
  PROVE  LET r == TakenAt(s, i)
         IN /\ r \in Seq(S) /\ Distinct(r)
            /\ \A x : Occurs(r, x) <=> Occurs(s, x) /\ x # s[i]
            /\ \A w : InOrder(s, w) => InOrder(r, w)
  <1> DEFINE r == TakenAt(s, i)
  <1>1. /\ r \in Seq(S) /\ Len(r) = Len(s) - 1
        /\ \A k \in 1..(Len(s) - 1) : r[k] = IF k < i THEN s[k] ELSE s[k + 1]
    BY Removed
  <1>2. Len(s) \in Nat
    OBVIOUS
  <1> HIDE DEF r
  <1>3. ASSUME NEW k \in 1..Len(r)
        PROVE  \E p \in 1..Len(s) : r[k] = s[p] /\ p # i /\ p = IF k < i THEN k ELSE k + 1
    <2>1. CASE k < i
      BY <1>1, <1>2, <2>1
    <2>2. CASE ~(k < i)
      <3>1. k + 1 \in 1..Len(s) /\ k + 1 # i /\ r[k] = s[k + 1]
        BY <1>1, <1>2, <2>2
      <3> QED BY <2>2, <3>1
    <2> QED BY <2>1, <2>2
  <1>4. ASSUME NEW j \in 1..Len(r), NEW k \in 1..Len(r), j < k
        PROVE  \E p, q \in 1..Len(s) : p < q /\ r[j] = s[p] /\ r[k] = s[q]
    <2>1. PICK p \in 1..Len(s) : r[j] = s[p] /\ p = IF j < i THEN j ELSE j + 1
      BY <1>3
    <2>2. PICK q \in 1..Len(s) : r[k] = s[q] /\ q = IF k < i THEN k ELSE k + 1
      BY <1>3
    <2>3. p < q
      BY <1>1, <1>2, <1>4, <2>1, <2>2
    <2> QED BY <2>1, <2>2, <2>3
  <1>5. Distinct(r)
    <2>1. SUFFICES ASSUME NEW j \in 1..Len(r), NEW k \in 1..Len(r), r[j] = r[k], j < k PROVE FALSE
      BY <1>1, <1>2 DEF Distinct
    <2>2. PICK p, q \in 1..Len(s) : p < q /\ r[j] = s[p] /\ r[k] = s[q]
      BY <1>4, <2>1
    <2>3. p # q
      BY <1>2, <2>2
    <2> QED BY <2>1, <2>2, <2>3 DEF Distinct
  <1>6. ASSUME NEW w, InOrder(s, w) PROVE InOrder(r, w)
    BY <1>4, <1>6, SMTT(30) DEF InOrder
  <1>7. ASSUME NEW x, Occurs(r, x) PROVE Occurs(s, x) /\ x # s[i]
    <2>1. PICK k \in 1..Len(r) : r[k] = x
      BY <1>7 DEF Occurs
    <2>2. PICK p \in 1..Len(s) : r[k] = s[p] /\ p # i
      BY <1>3
    <2> QED BY <2>1, <2>2 DEF Occurs, Distinct
  <1>8. ASSUME NEW x, Occurs(s, x), x # s[i] PROVE Occurs(r, x)
    <2>1. PICK p \in 1..Len(s) : s[p] = x /\ p # i
      BY <1>8 DEF Occurs
    <2>2. CASE p < i
      <3>1. p \in 1..Len(r) /\ r[p] = x
        BY <1>1, <1>2, <2>1, <2>2
      <3> QED BY <3>1 DEF Occurs
    <2>3. CASE p > i
      <3>1. p - 1 \in 1..Len(r) /\ ~(p - 1 < i) /\ p - 1 + 1 = p
        BY <1>1, <1>2, <2>1, <2>3
      <3>2. r[p - 1] = x
        BY <1>1, <2>1, <3>1
      <3> QED BY <3>1, <3>2 DEF Occurs
    <2> QED BY <1>2, <2>1, <2>2, <2>3
  <1> QED BY <1>1, <1>5, <1>6, <1>7, <1>8 DEF r

\* The first element of a list, and the others.
LEMMA TailFacts ==
  ASSUME NEW S, NEW s \in Seq(S), s # <<>>
  PROVE  /\ Head(s) \in S /\ Tail(s) \in Seq(S)
         /\ \A x : Occurs(s, x) <=> x = Head(s) \/ Occurs(Tail(s), x)
         /\ Distinct(s) => Distinct(Tail(s)) /\ ~Occurs(Tail(s), Head(s))
  <1> DEFINE r == Tail(s)
  <1>1. /\ Head(s) \in S /\ r \in Seq(S) /\ Len(r) = Len(s) - 1
        /\ \A i \in 1..Len(r) : r[i] = s[i + 1]
    BY HeadTailProperties
  <1>2. Len(s) \in Nat \ {0} /\ Len(r) \in Nat /\ Head(s) = s[1]
    OBVIOUS
  <1> HIDE DEF r
  <1>3. ASSUME NEW x, Occurs(s, x) PROVE x = Head(s) \/ Occurs(r, x)
    <2>1. PICK k \in 1..Len(s) : s[k] = x
      BY <1>3 DEF Occurs
    <2>2. CASE k = 1
      BY <1>2, <2>1, <2>2
    <2>3. CASE k # 1
      <3>1. k - 1 \in 1..Len(r) /\ k - 1 + 1 = k
        BY <1>1, <1>2, <2>3
      <3>2. r[k - 1] = x
        BY <1>1, <2>1, <3>1
      <3> QED BY <3>1, <3>2 DEF Occurs
    <2> QED BY <2>2, <2>3
  <1>4. \A k \in 1..Len(r) : k + 1 \in 1..Len(s) /\ k + 1 # 1
    BY <1>1, <1>2
  <1>5. ASSUME NEW x, Occurs(r, x) PROVE Occurs(s, x)
    BY <1>1, <1>4, <1>5 DEF Occurs
  <1>6. Occurs(s, Head(s))
    <2>1. 1 \in 1..Len(s)
      BY <1>2
    <2> QED BY <1>2, <2>1 DEF Occurs
  <1>7. ASSUME Distinct(s) PROVE Distinct(r) /\ ~Occurs(r, Head(s))
    <2>1. ASSUME NEW i \in 1..Len(r), NEW j \in 1..Len(r), r[i] = r[j] PROVE i = j
      <3>1. i + 1 = j + 1
        BY <1>1, <1>4, <1>7, <2>1 DEF Distinct
      <3> QED BY <1>2, <3>1
    <2>2. ASSUME Occurs(r, Head(s)) PROVE FALSE
      <3>1. PICK k \in 1..Len(r) : r[k] = s[1]
        BY <1>2, <2>2 DEF Occurs
      <3>2. k + 1 \in 1..Len(s) /\ 1 \in 1..Len(s) /\ s[k + 1] = s[1] /\ k + 1 # 1
        BY <1>1, <1>2, <1>4, <3>1
      <3> QED BY <1>7, <3>2 DEF Distinct
    <2> QED BY <2>1, <2>2 DEF Distinct
  <1> QED BY <1>1, <1>3, <1>5, <1>6, <1>7 DEF r

\* Two lists without repetitions and without a common element, one behind the other.
LEMMA ConcatDistinct ==
  ASSUME NEW S, NEW s \in Seq(S), NEW t \in Seq(S), Distinct(s), Distinct(t),
         \A x : ~(Occurs(s, x) /\ Occurs(t, x))
  PROVE  Distinct(s \o t)
  <1>1. /\ Len(s) \in Nat /\ Len(t) \in Nat /\ Len(s \o t) = Len(s) + Len(t)
        /\ \A k \in 1..(Len(s) + Len(t)) :
             (s \o t)[k] = IF k <= Len(s) THEN s[k] ELSE t[k - Len(s)]
    BY ConcatProperties
  <1> DEFINE r == s \o t
  <1> HIDE DEF r
  <1>2. ASSUME NEW k \in 1..Len(r)
        PROVE  /\ k <= Len(s) => k \in 1..Len(s) /\ r[k] = s[k] /\ Occurs(s, r[k])
               /\ ~(k <= Len(s)) => k - Len(s) \in 1..Len(t) /\ r[k] = t[k - Len(s)] /\ Occurs(t, r[k])
    <2>1. CASE k <= Len(s)
      <3>1. k \in 1..Len(s) /\ r[k] = s[k]
        BY <1>1, <2>1 DEF r
      <3> QED BY <2>1, <3>1 DEF Occurs
    <2>2. CASE ~(k <= Len(s))
      <3>1. k - Len(s) \in 1..Len(t) /\ r[k] = t[k - Len(s)]
        BY <1>1, <2>2 DEF r
      <3> QED BY <2>2, <3>1 DEF Occurs
    <2> QED BY <2>1, <2>2
  <1>3. ASSUME NEW i \in 1..Len(r), NEW j \in 1..Len(r), r[i] = r[j] PROVE i = j
    <2>1. CASE i <= Len(s) /\ j <= Len(s)
      BY <1>2, <1>3, <2>1 DEF Distinct
    <2>2. CASE ~(i <= Len(s)) /\ ~(j <= Len(s))
      <3>1. i - Len(s) = j - Len(s)
        BY <1>2, <1>3, <2>2 DEF Distinct
      <3> QED BY <1>1, <3>1
    <2>3. CASE (i <= Len(s)) # (j <= Len(s))
      BY <1>2, <1>3, <2>3
    <2> QED BY <2>1, <2>2, <2>3
  <1> QED BY <1>3 DEF Distinct, r

\* The elements of a finite set can be numbered, and a numbering leaves none out.
LEMMA SetNumbering ==
  ASSUME NEW S, IsFiniteSet(S)
  PROVE  /\ Cardinality(S) \in Nat
         /\ \E f \in [1..Cardinality(S) -> S] : \A a, b \in DOMAIN f : f[a] = f[b] => a = b
         /\ \A f \in [1..Cardinality(S) -> S] :
              (\A a, b \in DOMAIN f : f[a] = f[b] => a = b) =>
                \A x \in S : \E k \in 1..Cardinality(S) : f[k] = x
  <1> DEFINE n == Cardinality(S)
  <1>1. n \in Nat /\ ExistsBijection(1..n, S)
    BY FS_CardinalityType
  <1>2. IsFiniteSet(1..n) /\ Cardinality(1..n) = n
    BY <1>1, FS_Interval
  <1>3. \E f \in [1..n -> S] : \A a, b \in DOMAIN f : f[a] = f[b] => a = b
    BY <1>1 DEF ExistsBijection, Bijection, Injection, IsInjective
  <1>4. ASSUME NEW f \in [1..n -> S], \A a, b \in DOMAIN f : f[a] = f[b] => a = b
        PROVE  \A x \in S : \E k \in 1..n : f[k] = x
    <2>1. f \in Injection(1..n, S)
      BY <1>4 DEF Injection, IsInjective
    <2>2. f \in Surjection(1..n, S)
      BY <1>2, <2>1, FS_Injection
    <2> QED BY <2>2 DEF Surjection
  <1> QED BY <1>1, <1>3, <1>4

\* Sets one of which numbers the other have as many elements.
LEMMA SameNumber ==
  ASSUME NEW S, NEW T, IsFiniteSet(S), NEW h \in [S -> T],
         \A a, b \in S : h[a] = h[b] => a = b, \A x \in T : \E a \in S : h[a] = x
  PROVE  Cardinality(T) = Cardinality(S)
  <1>1. h \in Bijection(S, T)
    BY DEF Bijection, Injection, Surjection, IsInjective
  <1>2. ExistsBijection(S, T)
    BY <1>1 DEF ExistsBijection
  <1> QED BY <1>2, FS_Bijection

\* A list with another behind it, one element at a time.
Grows(P, c, es) ==
  /\ P[0] = c /\ P[Len(es)] = c \o es
  /\ \A d \in 1..Len(es) : P[d] = Append(P[d - 1], es[d])

\* There are lists that grow so.
LEMMA GrownLists ==
  ASSUME NEW S, NEW c \in Seq(S), NEW es \in Seq(S)
  PROVE  \E P \in [0..Len(es) -> Seq(S)] : Grows(P, c, es)
  <1> DEFINE N == Len(es)
             u(k) == SubSeq(es, 1, k)
             P == [k \in 0..N |-> c \o u(k)]
  <1>1. N \in Nat /\ Len(c) \in Nat
    OBVIOUS
  <1>2. \A k \in 0..N : u(k) \in Seq(S) /\ Len(u(k)) = k /\ \A i \in 1..k : u(k)[i] = es[i]
    <2> TAKE k \in 0..N
    <2>1. k \in Nat /\ (\A i \in 1..k : es[i] \in S)
      BY <1>1
    <2> QED BY <2>1, SubSeqProperties
  <1>3. u(0) = <<>> /\ u(N) = es
    <2>1. u(0) \in Seq(S) /\ Len(u(0)) = 0 /\ u(N) \in Seq(S) /\ Len(u(N)) = N /\ \A i \in 1..N : u(N)[i] = es[i]
      BY <1>1, <1>2
    <2> HIDE DEF u
    <2> QED BY <2>1
  <1> HIDE DEF u
  <1>4. \A k \in 0..N :
          /\ c \o u(k) \in Seq(S) /\ Len(c \o u(k)) = Len(c) + k
          /\ \A i \in 1..(Len(c) + k) : (c \o u(k))[i] = IF i <= Len(c) THEN c[i] ELSE u(k)[i - Len(c)]
    <2> TAKE k \in 0..N
    <2> DEFINE v == u(k)
    <2>1. v \in Seq(S) /\ Len(v) = k
      BY <1>2
    <2> HIDE DEF v
    <2>2. /\ c \o v \in Seq(S) /\ Len(c \o v) = Len(c) + Len(v)
          /\ \A i \in 1..(Len(c) + Len(v)) : (c \o v)[i] = IF i <= Len(c) THEN c[i] ELSE v[i - Len(c)]
      BY <2>1, ConcatProperties
    <2> QED BY <2>1, <2>2 DEF v
  <1>5. ASSUME NEW d \in 1..N
        PROVE  c \o u(d) = Append(c \o u(d - 1), es[d])
    <2> DEFINE p == c \o u(d - 1)
               q == c \o u(d)
               x == es[d]
    <2>1. d \in 0..N /\ d - 1 \in 0..N
      BY <1>1
    <2>2. p \in Seq(S) /\ q \in Seq(S) /\ x \in S /\ Len(p) = Len(c) + (d - 1) /\ Len(q) = Len(c) + d
      BY <1>4, <2>1, SMTT(30)
    <2>3. \A i \in 1..(Len(c) + (d - 1)) : p[i] = q[i]
      <3> TAKE i \in 1..(Len(c) + (d - 1))
      <3>1. i \in 1..(Len(c) + d) /\ (~(i <= Len(c)) => i - Len(c) \in 1..(d - 1) /\ i - Len(c) \in 1..d)
        BY <1>1, <2>1
      <3>2. ~(i <= Len(c)) => u(d)[i - Len(c)] = u(d - 1)[i - Len(c)]
        BY <1>2, <2>1, <3>1
      <3> QED BY <1>4, <2>1, <3>1, <3>2
    <2>4. q[Len(c) + d] = x
      <3>1. Len(c) + d \in 1..(Len(c) + d) /\ ~(Len(c) + d <= Len(c)) /\ Len(c) + d - Len(c) = d /\ d \in 1..d
        BY <1>1
      <3>2. u(d)[d] = es[d]
        BY <1>2, <2>1, <3>1
      <3>3. (c \o u(d))[Len(c) + d] = u(d)[Len(c) + d - Len(c)]
        BY <1>4, <2>1, <3>1
      <3> QED BY <3>1, <3>2, <3>3
    <2> HIDE DEF p, q, x
    <2>5. Len(p) + 1 = Len(c) + d
      BY <1>1, <2>2
    <2>6. q = Append(p, x)
      <3> DEFINE t == Append(p, x)
      <3>1. /\ t \in Seq(S) /\ Len(t) = Len(p) + 1 /\ t[Len(p) + 1] = x
            /\ \A i \in 1..Len(p) : t[i] = p[i]
        BY <2>2, AppendProperties
      <3> HIDE DEF t
      <3>2. \A i \in 1..Len(q) : q[i] = t[i]
        <4> TAKE i \in 1..Len(q)
        <4>1. (i \in 1..(Len(c) + (d - 1)) /\ i \in 1..Len(p)) \/ i = Len(c) + d
          BY <1>1, <2>2
        <4> QED BY <2>3, <2>4, <2>5, <3>1, <4>1
      <3>3. q = t
        BY <2>2, <2>5, <3>1, <3>2
      <3> QED BY <3>3 DEF t
    <2> QED BY <2>6 DEF p, q, x
  <1>6. P \in [0..N -> Seq(S)] /\ \A d \in 1..N : P[d] = Append(P[d - 1], es[d])
    <2>1. \A d \in 1..N : d \in 0..N /\ d - 1 \in 0..N
      BY <1>1
    <2> QED BY <1>4, <1>5, <2>1
  <1>7. P[0] = c /\ P[N] = c \o es
    <2>1. c \o <<>> = c /\ 0 \in 0..N /\ N \in 0..N
      BY <1>1
    <2> QED BY <1>3, <2>1
  <1> HIDE DEF P
  <1> QED BY <1>6, <1>7 DEF Grows

\* An element behind a list.
LEMMA AppendMembers ==
  ASSUME NEW S, NEW s \in Seq(S), NEW e \in S
  PROVE  /\ Append(s, e) \in Seq(S)
         /\ \A x : Occurs(Append(s, e), x) <=> Occurs(s, x) \/ x = e
  <1> DEFINE r == Append(s, e)
             n == Len(s)
  <1>1. n \in Nat /\ r \in Seq(S) /\ Len(r) = n + 1 /\ r[n + 1] = e /\ \A i \in 1..n : r[i] = s[i]
    OBVIOUS
  <1> HIDE DEF r
  <1>2. ASSUME NEW x, Occurs(r, x) PROVE Occurs(s, x) \/ x = e
    <2>1. PICK k \in 1..(n + 1) : r[k] = x
      BY <1>1, <1>2 DEF Occurs
    <2>2. k \in 1..n \/ k = n + 1
      BY <1>1
    <2> QED BY <1>1, <2>1, <2>2 DEF Occurs
  <1>3. ASSUME NEW x, Occurs(s, x) \/ x = e PROVE Occurs(r, x)
    <2>1. CASE Occurs(s, x)
      <3>1. PICK k \in 1..n : s[k] = x
        BY <2>1 DEF Occurs
      <3>2. k \in 1..(n + 1) /\ r[k] = x
        BY <1>1, <3>1
      <3> QED BY <1>1, <3>2 DEF Occurs
    <2>2. CASE x = e
      <3>1. n + 1 \in 1..(n + 1)
        BY <1>1
      <3> QED BY <1>1, <2>2, <3>1 DEF Occurs
    <2> QED BY <1>3, <2>1, <2>2
  <1> QED BY <1>1, <1>2, <1>3 DEF r

\* Lists joined one behind the other have each element once if each of them has, and no two
\* have an element in common.
LEMMA JoinDistinct ==
  ASSUME NEW S, NEW N \in Nat, NEW ss \in [1..(N + 1) -> Seq(S)], NEW f, Joins(f, N, ss),
         \A i \in 1..(N + 1) : Distinct(ss[i]),
         \A i, j \in 1..(N + 1) : \A x : Occurs(ss[i], x) /\ Occurs(ss[j], x) => i = j
  PROVE  Distinct(f[N + 1])
  <1> DEFINE Good(n) == n <= N =>
                 /\ f[n + 1] \in Seq(S) /\ Distinct(f[n + 1])
                 /\ \A e : Occurs(f[n + 1], e) => \E i \in 1..(n + 1) : Occurs(ss[i], e)
  <1>1. f[1] = ss[1] /\ \A i \in 1..N : f[i + 1] = f[i] \o ss[i + 1]
    BY JoinSteps
  <1>2. Good(0)
    <2>1. f[1] = ss[1] /\ 1 \in 1..(N + 1)
      BY <1>1
    <2>2. 0 + 1 = 1 /\ 1..1 = {1}
      OBVIOUS
    <2> QED BY <2>1, <2>2
  <1>3. ASSUME NEW n \in Nat, Good(n)
        PROVE  Good(n + 1)
    <2> SUFFICES ASSUME NEW m, m = n + 1, m <= N
                 PROVE  /\ f[m + 1] \in Seq(S) /\ Distinct(f[m + 1])
                        /\ \A e : Occurs(f[m + 1], e) => \E i \in 1..(m + 1) : Occurs(ss[i], e)
      OBVIOUS
    <2>1. n <= N /\ m \in 1..N /\ m + 1 \in 1..(N + 1) /\ m \in Nat
      OBVIOUS
    <2>2. /\ f[m] \in Seq(S) /\ Distinct(f[m]) /\ f[m + 1] = f[m] \o ss[m + 1]
          /\ \A e : Occurs(f[m], e) => \E i \in 1..m : Occurs(ss[i], e)
      BY <1>1, <1>3, <2>1
    <2>3. ss[m + 1] \in Seq(S) /\ Distinct(ss[m + 1])
      BY <2>1
    <2>4. \A x : ~(Occurs(f[m], x) /\ Occurs(ss[m + 1], x))
      <3> SUFFICES ASSUME NEW x, Occurs(f[m], x), Occurs(ss[m + 1], x) PROVE FALSE
        OBVIOUS
      <3>1. PICK i \in 1..m : Occurs(ss[i], x)
        BY <2>2
      <3>2. i \in 1..(N + 1) /\ i # m + 1
        BY <2>1
      <3> QED BY <2>1, <3>1, <3>2
    <2>5. f[m + 1] \in Seq(S) /\ Distinct(f[m + 1])
      <3>1. f[m] \o ss[m + 1] \in Seq(S)
        BY <2>2, <2>3, ConcatProperties
      <3>2. Distinct(f[m] \o ss[m + 1])
        BY <2>2, <2>3, <2>4, ConcatDistinct
      <3> QED BY <2>2, <3>1, <3>2
    <2>6. \A e : Occurs(f[m + 1], e) => \E i \in 1..(m + 1) : Occurs(ss[i], e)
      <3>1. \A e : Occurs(f[m + 1], e) <=> Occurs(f[m], e) \/ Occurs(ss[m + 1], e)
        BY <2>2, <2>3, OccursInConcat
      <3>2. m + 1 \in 1..(m + 1) /\ \A i \in 1..m : i \in 1..(m + 1)
        BY <2>1
      <3> QED BY <2>2, <3>1, <3>2
    <2> QED BY <2>5, <2>6
  <1> HIDE DEF Good
  <1>4. Good(N)
    <2> DEFINE T == {n \in Nat : Good(n)}
    <2>1. \A n \in Nat : n \in T
      <3>1. T \subseteq Nat /\ 0 \in T /\ \A n \in T : n + 1 \in T
        BY <1>2, <1>3
      <3> HIDE DEF T
      <3> QED BY <3>1, NatSetInduction
    <2> QED BY <2>1
  <1> QED BY <1>4 DEF Good

\* A set that is put into another one with something left over has fewer elements.
LEMMA FewerBy ==
  ASSUME NEW N, NEW S, IsFiniteSet(S),
         \E x \in S : \E f : /\ \A a \in N : f[a] \in S /\ f[a] # x
                            /\ \A a, b \in N : f[a] = f[b] => a = b
  PROVE  Cardinality(N) < Cardinality(S) /\ Cardinality(N) \in Nat /\ Cardinality(S) \in Nat
  <1> PICK x \in S : \E f : /\ \A a \in N : f[a] \in S /\ f[a] # x
                            /\ \A a, b \in N : f[a] = f[b] => a = b
    OBVIOUS
  <1> PICK f : /\ \A a \in N : f[a] \in S /\ f[a] # x
               /\ \A a, b \in N : f[a] = f[b] => a = b
    OBVIOUS
  <1>1. IsFiniteSet(S \ {x}) /\ Cardinality(S \ {x}) = Cardinality(S) - 1
    BY FS_RemoveElement
  <1> DEFINE T == S \ {x}
             g == [a \in N |-> f[a]]
  <1>2. g \in Injection(N, T)
    BY DEF Injection, IsInjective
  <1> HIDE DEF T, g
  <1>3. IsFiniteSet(N) /\ Cardinality(N) <= Cardinality(T)
    BY <1>1, <1>2, FS_Injection DEF T
  <1>4. Cardinality(N) \in Nat /\ Cardinality(S) \in Nat
    BY <1>3, FS_CardinalityType
  <1> QED BY <1>1, <1>3, <1>4 DEF T

\* A list without repetitions is no longer than what it is made of.
LEMMA DistinctShort ==
  ASSUME NEW S, IsFiniteSet(S), NEW s \in Seq(S), Distinct(s)
  PROVE  Len(s) <= Cardinality(S) /\ Cardinality(S) \in Nat
  <1>1. Len(s) \in Nat /\ s \in [1..Len(s) -> S]
    OBVIOUS
  <1> DEFINE N == 1..Len(s)
  <1>2. s \in Injection(N, S)
    BY <1>1 DEF Distinct, Injection, IsInjective
  <1>3. Cardinality(N) = Len(s)
    BY <1>1, FS_Interval
  <1> HIDE DEF N
  <1>4. Cardinality(N) <= Cardinality(S)
    BY <1>2, FS_Injection
  <1> QED BY <1>3, <1>4, FS_CardinalityType

\* Places in a list, each with an element of a finite set, are finitely many.
LEMMA FinitePlaces ==
  ASSUME NEW S, IsFiniteSet(S), NEW n \in Nat, NEW P \in SUBSET ((1..n) \X S)
  PROVE  IsFiniteSet(P)
  <1>1. IsFiniteSet(1..n)
    BY FS_Interval
  <1>2. IsFiniteSet((1..n) \X S)
    BY <1>1, FS_Product
  <1> QED BY <1>2, FS_Subset

\* The places of a list, each with the elements that B has for what is there.
Places(S, s, B) == {p \in (1..Len(s)) \X S : p[2] \in B[s[p[1]]]}

\* When the first element of a list goes and others come behind, whose parts are parts of its
\* own and have nothing in common, there is less in it.
LEMMA FewerPlaces ==
  ASSUME NEW S, IsFiniteSet(S), NEW s \in Seq(S), s # <<>>, NEW c \in Seq(S), Distinct(c),
         NEW A \in [S -> SUBSET S], NEW B \in [S -> SUBSET S], \A k \in S : B[k] \subseteq A[k],
         Head(s) \in A[Head(s)],
         \A k \in S : Occurs(c, k) => B[k] \subseteq A[Head(s)] \ {Head(s)},
         \A k, l \in S : Occurs(c, k) /\ Occurs(c, l) /\ k # l => B[k] \cap B[l] = {}
  PROVE  LET new == Cardinality(Places(S, Tail(s) \o c, B))
             old == Cardinality(Places(S, s, A))
         IN new < old /\ new \in Nat /\ old \in Nat
  <1>1. PICK o \in S : o = Head(s)
    OBVIOUS
  <1>2. PICK r \in Seq(S) : r = Tail(s)
    BY HeadTailProperties
  <1>3. /\ Len(r) = Len(s) - 1 /\ Len(s) \in Nat \ {0} /\ o = s[1] /\ Len(r) \in Nat /\ Len(c) \in Nat
        /\ \A i \in 1..Len(r) : r[i] = s[i + 1] /\ r[i] \in S
    BY <1>1, <1>2, HeadTailProperties
  <1>4. PICK q \in Seq(S) : q = r \o c
    BY ConcatProperties
  <1>5. /\ Len(q) = Len(r) + Len(c)
        /\ \A k \in 1..Len(r) : q[k] = r[k]
        /\ \A k \in 1..Len(q) : ~(k <= Len(r)) => k - Len(r) \in 1..Len(c) /\ q[k] = c[k - Len(r)]
    BY <1>3, <1>4, ConcatProperties
  <1> DEFINE N == Places(S, q, B)
             O == Places(S, s, A)
  <1>6. /\ \A p \in N : p[1] \in 1..Len(q) /\ p[2] \in S /\ p[2] \in B[q[p[1]]] /\ p = <<p[1], p[2]>>
        /\ \A i \in 1..Len(s) : \A x \in S : x \in A[s[i]] => <<i, x>> \in O
        /\ O \in SUBSET ((1..Len(s)) \X S)
    BY DEF Places
  <1>7. IsFiniteSet(O)
    BY <1>3, <1>6, FinitePlaces
  <1>8. \A x \in A[o] : x \in S /\ <<1, x>> \in O
    <2>1. 1 \in 1..Len(s) /\ s[1] = o
      BY <1>3
    <2> QED BY <1>6, <2>1
  <1> HIDE DEF N, O
  <1>9. ASSUME NEW p \in N, p[1] <= Len(r)
        PROVE  /\ p[1] \in 1..Len(r) /\ p[1] + 1 \in 1..Len(s) /\ p[1] + 1 # 1
               /\ <<p[1] + 1, p[2]>> \in O
    <2>1. p[1] \in 1..Len(r) /\ q[p[1]] = r[p[1]]
      BY <1>3, <1>5, <1>6, <1>9
    <2>2. p[1] + 1 \in 1..Len(s) /\ p[1] + 1 # 1 /\ r[p[1]] = s[p[1] + 1] /\ r[p[1]] \in S
      BY <1>3, <2>1
    <2>3. p[2] \in A[s[p[1] + 1]] /\ p[2] \in S
      BY <1>6, <2>1, <2>2
    <2> QED BY <1>6, <2>1, <2>2, <2>3
  <1>10. ASSUME NEW p \in N, ~(p[1] <= Len(r))
         PROVE  /\ p[1] - Len(r) \in 1..Len(c) /\ p[2] \in B[c[p[1] - Len(r)]]
                /\ c[p[1] - Len(r)] \in S /\ Occurs(c, c[p[1] - Len(r)])
                /\ p[2] # o /\ <<1, p[2]>> \in O
    <2>1. PICK i \in 1..Len(c) : i = p[1] - Len(r) /\ q[p[1]] = c[i]
      BY <1>5, <1>6, <1>10
    <2>2. c[i] \in S /\ Occurs(c, c[i]) /\ p[2] \in B[c[i]] /\ p[2] \in S
      BY <1>6, <2>1 DEF Occurs
    <2>3. p[2] \in A[o] \ {o}
      BY <1>1, <2>2
    <2> QED BY <1>8, <2>1, <2>2, <2>3
  <1> DEFINE f == [p \in N |-> IF p[1] <= Len(r) THEN <<p[1] + 1, p[2]>> ELSE <<1, p[2]>>]
  <1>11. /\ \A p \in N : p[1] <= Len(r) => f[p] = <<p[1] + 1, p[2]>>
         /\ \A p \in N : ~(p[1] <= Len(r)) => f[p] = <<1, p[2]>>
    OBVIOUS
  <1> HIDE DEF f
  <1>12. ASSUME NEW p \in N PROVE f[p] \in O /\ f[p] # <<1, o>>
    <2>1. CASE p[1] <= Len(r)
      <3>1. <<p[1] + 1, p[2]>> # <<1, o>> /\ <<p[1] + 1, p[2]>> \in O
        BY <1>9, <2>1
      <3> QED BY <1>11, <2>1, <3>1
    <2>2. CASE ~(p[1] <= Len(r))
      <3>1. p[2] # o /\ <<1, p[2]>> \in O
        BY <1>10, <2>2
      <3>2. <<1, p[2]>> # <<1, o>>
        BY <3>1
      <3> QED BY <1>11, <2>2, <3>1, <3>2
    <2> QED BY <2>1, <2>2
  <1>13. ASSUME NEW a \in N, NEW b \in N, f[a] = f[b] PROVE a = b
    <2>1. /\ a[1] \in 1..Len(q) /\ b[1] \in 1..Len(q) /\ a = <<a[1], a[2]>> /\ b = <<b[1], b[2]>>
      BY <1>6
    <2>2. CASE a[1] <= Len(r) /\ b[1] <= Len(r)
      <3>1. <<a[1] + 1, a[2]>> = <<b[1] + 1, b[2]>>
        BY <1>11, <1>13, <2>2
      <3>2. a[1] + 1 = b[1] + 1 /\ a[2] = b[2]
        BY <3>1
      <3>3. a[1] = b[1]
        BY <2>1, <3>2
      <3> QED BY <2>1, <3>2, <3>3
    <2>3. CASE ~(a[1] <= Len(r)) /\ ~(b[1] <= Len(r))
      <3>1. <<1, a[2]>> = <<1, b[2]>>
        BY <1>11, <1>13, <2>3
      <3>2. a[2] = b[2]
        BY <3>1
      <3>3. PICK i \in 1..Len(c) : i = a[1] - Len(r)
        BY <1>10, <2>3
      <3>4. PICK j \in 1..Len(c) : j = b[1] - Len(r)
        BY <1>10, <2>3
      <3>5. /\ c[i] \in S /\ Occurs(c, c[i]) /\ a[2] \in B[c[i]]
            /\ c[j] \in S /\ Occurs(c, c[j]) /\ b[2] \in B[c[j]]
        BY <1>10, <2>3, <3>3, <3>4
      <3>6. c[i] = c[j]
        BY <3>2, <3>5
      <3>7. i = j
        BY <3>6 DEF Distinct
      <3>8. a[1] = b[1]
        BY <1>3, <2>1, <3>3, <3>4, <3>7
      <3> QED BY <2>1, <3>2, <3>8
    <2>4. CASE a[1] <= Len(r) /\ ~(b[1] <= Len(r))
      <3>1. <<a[1] + 1, a[2]>> = <<1, b[2]>>
        BY <1>11, <1>13, <2>4
      <3>2. a[1] + 1 = 1
        BY <3>1
      <3> QED BY <1>9, <2>4, <3>2
    <2>5. CASE b[1] <= Len(r) /\ ~(a[1] <= Len(r))
      <3>1. <<b[1] + 1, b[2]>> = <<1, a[2]>>
        BY <1>11, <1>13, <2>5
      <3>2. b[1] + 1 = 1
        BY <3>1
      <3> QED BY <1>9, <2>5, <3>2
    <2> QED BY <2>2, <2>3, <2>4, <2>5
  <1>14. Cardinality(N) < Cardinality(O) /\ Cardinality(N) \in Nat /\ Cardinality(O) \in Nat
    <2>1. PICK x \in O : x = <<1, o>>
      BY <1>1, <1>8
    <2>2. \A a \in N : f[a] \in O /\ f[a] # x
      BY <1>12, <2>1
    <2>3. \A a, b \in N : f[a] = f[b] => a = b
      BY <1>13
    <2>4. \E y \in O : \E g : /\ \A a \in N : g[a] \in O /\ g[a] # y
                              /\ \A a, b \in N : g[a] = g[b] => a = b
      BY <2>2, <2>3
    <2> QED BY ONLY <1>7, <2>4, FewerBy
  <1> QED BY <1>2, <1>4, <1>14 DEF N, O
\* A set without one of its elements has fewer.
LEMMA OneLess ==
  ASSUME NEW S, IsFiniteSet(S), NEW x \in S
  PROVE  Cardinality(S \ {x}) < Cardinality(S) /\ Cardinality(S) \in Nat /\ Cardinality(S \ {x}) \in Nat
  <1>1. IsFiniteSet(S \ {x}) /\ Cardinality(S \ {x}) = Cardinality(S) - 1
    BY FS_RemoveElement
  <1>2. Cardinality(S) \in Nat /\ Cardinality(S \ {x}) \in Nat
    BY <1>1, FS_CardinalityType
  <1> QED BY <1>1, <1>2

\* Of two lists without repetitions the one that lacks an element of the other and adds none is
\* shorter.
LEMMA ShorterList ==
  ASSUME NEW S, NEW s \in Seq(S), NEW r \in Seq(S), Distinct(r), NEW x, Occurs(s, x),
         \A y \in S : Occurs(r, y) => Occurs(s, y) /\ y # x
  PROVE  Len(r) < Len(s)
  <1>1. /\ Len(s) \in Nat /\ Len(r) \in Nat
        /\ DOMAIN s = 1..Len(s) /\ DOMAIN r = 1..Len(r)
        /\ \A a \in 1..Len(r) : r[a] \in S
    OBVIOUS
  <1>2. PICK N : N = 1..Len(r)
    OBVIOUS
  <1>3. PICK D : D = 1..Len(s)
    OBVIOUS
  <1>4. /\ IsFiniteSet(D) /\ Cardinality(D) = Len(s) /\ Cardinality(N) = Len(r)
    <2>1. \A n \in Nat : IsFiniteSet(1..n) /\ Cardinality(1..n) = n
      BY FS_Interval
    <2> QED BY <1>1, <1>2, <1>3, <2>1
  <1>5. PICK i \in D : s[i] = x
    BY <1>1, <1>3 DEF Occurs
  <1>6. \A a \in N : \E j \in D : s[j] = r[a] /\ j # i
    <2> SUFFICES ASSUME NEW a \in N PROVE \E j \in D : s[j] = r[a] /\ j # i
      OBVIOUS
    <2>1. r[a] \in S /\ Occurs(r, r[a])
      BY <1>1, <1>2 DEF Occurs
    <2> QED BY <1>1, <1>3, <1>5, <2>1 DEF Occurs
  <1>7. PICK f : f = [a \in N |-> CHOOSE j \in D : s[j] = r[a] /\ j # i]
    OBVIOUS
  <1>8. \A a \in N : f[a] \in D /\ f[a] # i /\ s[f[a]] = r[a]
    BY <1>6, <1>7
  <1>9. \A a, b \in N : f[a] = f[b] => a = b
    BY <1>1, <1>2, <1>8 DEF Distinct
  <1>10. Cardinality(N) < Cardinality(D)
    BY <1>4, <1>5, <1>8, <1>9, FewerBy
  <1> QED BY <1>4, <1>10

\* The elements of two lists one behind the other.
LEMMA Concats ==
  ASSUME NEW C, NEW s \in Seq(C), NEW t \in Seq(C)
  PROVE  /\ s \o t \in Seq(C) /\ Len(s \o t) = Len(s) + Len(t)
         /\ \A i \in 1..Len(s) : (s \o t)[i] = s[i]
         /\ \A i \in 1..Len(s \o t) : i > Len(s) => i - Len(s) \in 1..Len(t) /\ (s \o t)[i] = t[i - Len(s)]
  <1>1. Len(s) \in Nat /\ Len(t) \in Nat
    OBVIOUS
  <1>2. s \o t \in Seq(C) /\ Len(s \o t) = Len(s) + Len(t)
    BY ConcatProperties
  <1>3. ASSUME NEW i \in 1..Len(s) PROVE (s \o t)[i] = s[i]
    BY <1>1, ConcatProperties
  <1>4. ASSUME NEW i \in 1..Len(s \o t), i > Len(s)
        PROVE  i - Len(s) \in 1..Len(t) /\ (s \o t)[i] = t[i - Len(s)]
    <2>1. i \in 1..(Len(s) + Len(t)) /\ ~(i <= Len(s)) /\ i - Len(s) \in 1..Len(t)
      BY <1>1, <1>2, <1>4
    <2> QED BY <2>1, ConcatProperties
  <1> QED BY <1>2, <1>3, <1>4
=============================================================================
