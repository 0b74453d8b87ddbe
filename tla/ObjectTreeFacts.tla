--------------------------- MODULE ObjectTreeFacts ---------------------------
(***************************************************************************)
(* What the operators of SearchModel and of ObjectTree compute: lists that *)
(* keep some of their positions, the lists of the search, the changes of a *)
(* tree, the loops over what is below an object, what the search has of it.*)
(***************************************************************************)
EXTENDS ObjectTree, ListFacts
LOCAL INSTANCE SequencesExt

-----------------------------------------------------------------------------
(* Lists that keep some of their positions.                                 *)

\* idx says where the elements of r stand in a list: at the positions P, in their order.
Selects(idx, r, list, P) ==
  /\ idx \in [1..Len(r) -> P]
  /\ \A k \in 1..Len(r) : r[k] = list[idx[k]]
  /\ \A j, k \in 1..Len(r) : j < k => idx[j] < idx[k]
  /\ \A i \in P : \E k \in 1..Len(r) : idx[k] = i

\* The elements kept are those at the positions, in their order.
LEMMA KeptFacts ==
  ASSUME NEW S, NEW list \in Seq(S), NEW P, P \subseteq 1..Len(list)
  PROVE  /\ Kept(list, P) \in Seq(S)
         /\ \E idx : Selects(idx, Kept(list, P), list, P)
  <1> DEFINE Count(i) == Cardinality({j \in P : j <= i})
             N == Cardinality(P)
             idx == [k \in 1..N |-> Nth(P, k)]
             r == Kept(list, P)
  <1>1. Len(list) \in Nat /\ \A i \in P : i \in 1..Len(list) /\ list[i] \in S
    OBVIOUS
  <1>2. /\ N \in Nat
        /\ \A i \in P : Count(i) \in 1..N
        /\ \A i, k \in P : i < k => Count(i) < Count(k)
        /\ \A k \in 1..N : \E i \in P : Count(i) = k
    BY <1>1, Numbering
  <1>3. \A k \in 1..N : Nth(P, k) \in P /\ Count(Nth(P, k)) = k
    BY <1>2 DEF Nth
  <1> HIDE DEF Count
  <1>4. \A j, k \in 1..N : j < k => Nth(P, j) < Nth(P, k)
    <2> SUFFICES ASSUME NEW j \in 1..N, NEW k \in 1..N, j < k, ~(Nth(P, j) < Nth(P, k))
                 PROVE  FALSE
      OBVIOUS
    <2>1. PICK p \in P : p = Nth(P, j) /\ Count(p) = j
      BY <1>3
    <2>2. PICK q \in P : q = Nth(P, k) /\ Count(q) = k
      BY <1>3
    <2>3. q < p \/ q = p
      <3>1. p \in 1..Len(list) /\ q \in 1..Len(list) /\ ~(p < q)
        BY ONLY <1>1, <2>1, <2>2, ~(Nth(P, j) < Nth(P, k))
      <3> QED BY <1>1, <3>1
    <2> QED BY <1>2, <2>1, <2>2, <2>3
  <1>5. \A i \in P : \E k \in 1..N : Nth(P, k) = i
    <2> SUFFICES ASSUME NEW i \in P PROVE \E k \in 1..N : Nth(P, k) = i
      OBVIOUS
    <2>1. Count(i) \in 1..N
      BY <1>2
    <2>2. Nth(P, Count(i)) \in P /\ Count(Nth(P, Count(i))) = Count(i)
      BY <1>3, <2>1
    <2>3. ~(Nth(P, Count(i)) < i) /\ ~(i < Nth(P, Count(i)))
      <3> DEFINE j == Nth(P, Count(i))
      <3>1. j \in P /\ Count(j) = Count(i) /\ Count(i) \in Nat
        BY <1>2, <2>1, <2>2
      <3> HIDE DEF j
      <3>2. ~(j < i) /\ ~(i < j)
        BY <1>2, <3>1
      <3> QED BY <3>2 DEF j
    <2>4. Nth(P, Count(i)) = i
      <3> DEFINE j == Nth(P, Count(i))
      <3>1. j \in P /\ ~(j < i) /\ ~(i < j)
        BY <2>2, <2>3
      <3> HIDE DEF j
      <3>2. j = i
        BY <1>1, <3>1
      <3> QED BY <3>2 DEF j
    <2> QED BY <2>1, <2>4
  <1>6. r = [k \in 1..N |-> list[Nth(P, k)]]
    BY DEF Kept
  <1>7. r \in Seq(S) /\ Len(r) = N /\ \A k \in 1..N : r[k] = list[Nth(P, k)]
    <2>1. \A k \in 1..N : list[Nth(P, k)] \in S
      BY <1>1, <1>3
    <2> QED BY <1>2, <1>6, <2>1
  <1>8. idx \in [1..N -> P] /\ \A k \in 1..N : idx[k] = Nth(P, k)
    BY <1>3
  <1> HIDE DEF N, idx, r
  <1>9. /\ \A k \in 1..Len(r) : r[k] = list[idx[k]]
        /\ \A j, k \in 1..Len(r) : j < k => idx[j] < idx[k]
        /\ \A i \in P : \E k \in 1..Len(r) : idx[k] = i
    BY ONLY <1>4, <1>5, <1>7, <1>8
  <1>10. idx \in [1..Len(r) -> P]
    BY <1>7, <1>8
  <1> QED BY <1>7, <1>9, <1>10 DEF r, Selects

\* The elements of a list after others were taken out.
LEMMA KeptMembers ==
  ASSUME NEW S, NEW list \in Seq(S), NEW P \in SUBSET (1..Len(list))
  PROVE  /\ Kept(list, P) \in Seq(S)
         /\ \A x : Occurs(Kept(list, P), x) <=> \E i \in P : list[i] = x
         /\ Distinct(list) => Distinct(Kept(list, P))
  <1> DEFINE r == Kept(list, P)
  <1>2. r \in Seq(S)
    BY KeptFacts
  <1>1. PICK idx : Selects(idx, r, list, P)
    BY KeptFacts
  <1> HIDE DEF r
  <1> USE DEF Selects
  <1>3. ASSUME NEW x, Occurs(r, x) PROVE \E i \in P : list[i] = x
    BY <1>1, <1>3 DEF Occurs
  <1>4. ASSUME NEW x, NEW i \in P, list[i] = x PROVE Occurs(r, x)
    BY <1>1, <1>4 DEF Occurs
  <1>5. ASSUME Distinct(list) PROVE Distinct(r)
    <2> SUFFICES ASSUME NEW j \in 1..Len(r), NEW k \in 1..Len(r), r[j] = r[k], j < k PROVE FALSE
      BY <1>2 DEF Distinct
    <2>1. idx[j] < idx[k] /\ idx[j] \in 1..Len(list) /\ idx[k] \in 1..Len(list) /\ list[idx[j]] = list[idx[k]]
      BY <1>1
    <2>2. idx[j] = idx[k]
      BY <1>5, <2>1 DEF Distinct
    <2>3. Len(list) \in Nat
      OBVIOUS
    <2> QED BY <2>1, <2>2, <2>3
  <1> QED BY <1>2, <1>3, <1>4, <1>5 DEF r
-----------------------------------------------------------------------------
(* The lists of the search.                                                 *)

\* A model of the search with entries from a set.
Models(E) == [data : Seq(E), batch : Seq(E), depth : Nat]

IsModel(m) == \E E : m \in Models(E)

IsList(s) == \E E : s \in Seq(E)

\* A placed entry.
LEMMA PlacedType ==
  ASSUME NEW E, NEW list \in Seq(E), NEW e \in E
  PROVE  Placed(list, e) \in Seq(E)
  <1> DEFINE P == {i \in DOMAIN list : ~WeightLessThan(e.weight, list[i].weight)}
             k == 1 + Cardinality(P)
  <1>1. Len(list) \in Nat /\ P \subseteq 1..Len(list)
    OBVIOUS
  <1>2. Cardinality(P) \in 0..Len(list)
    <2>1. IsFiniteSet(1..Len(list)) /\ Cardinality(1..Len(list)) = Len(list)
      BY <1>1, FS_Interval
    <2> HIDE DEF P
    <2>2. Cardinality(P) <= Len(list) /\ Cardinality(P) \in Nat
      BY <1>1, <2>1, FS_Subset, FS_CardinalityType
    <2> QED BY <1>1, <2>2
  <1>3. Placed(list, e) = PutAt(list, k, e)
    BY DEF Placed, InsertAt, PutAt
  <1> HIDE DEF P
  <1>4. k \in 1..(Len(list) + 1)
    BY <1>1, <1>2
  <1> HIDE DEF k
  <1>5. PutAt(list, k, e) \in Seq(E)
    BY <1>4, Inserted
  <1> QED BY <1>3, <1>5

\* The models that come about when entries are added one by one.
AddsAll(f, m, entries) ==
  /\ f[0] = m /\ \A d \in 1..Len(entries) : f[d] = AddEntry(f[d - 1], entries[d])
  /\ AddSearchData(m, entries) = f[Len(entries)]

\* There are such models, with the batch as open as it was.
LEMMA AddSearchDataSteps ==
  ASSUME NEW E, NEW m \in Models(E), NEW entries \in Seq(E)
  PROVE  \E f \in [0..Len(entries) -> {v \in Models(E) : v.depth = m.depth}] : AddsAll(f, m, entries)
  <1> DEFINE N == Len(entries)
             V == {v \in Models(E) : v.depth = m.depth}
             G == [d \in 1..N |-> [v \in V |-> AddEntry(v, entries[d])]]
             After(f) == [k \in 0..N |-> IF k = 0 THEN m ELSE AddEntry(f[k - 1], entries[k])]
  <1>1. N \in Nat /\ (\A k \in 0..N : k # 0 => k \in 1..N) /\ \A k \in 1..N : entries[k] \in E
    OBVIOUS
  <1>2. \A v \in V : \A e \in E : AddEntry(v, e) \in V
    <2> SUFFICES ASSUME NEW v \in V, NEW e \in E PROVE AddEntry(v, e) \in V
      OBVIOUS
    <2>1. /\ v = [data |-> v.data, batch |-> v.batch, depth |-> v.depth]
          /\ v.data \in Seq(E) /\ v.batch \in Seq(E) /\ v.depth \in Nat /\ v.depth = m.depth
      BY DEF Models
    <2>2. Placed(v.data, e) \in Seq(E) /\ Append(v.batch, e) \in Seq(E)
      BY <2>1, PlacedType, AppendProperties
    <2> QED BY <2>1, <2>2 DEF AddEntry, Models
  <1>3. G \in [1..N -> [V -> V]] /\ \A d \in 1..N : \A v \in V : G[d][v] = AddEntry(v, entries[d])
    BY <1>1, <1>2
  <1>4. m \in V
    OBVIOUS
  <1>5. AddSearchData(m, entries) = (CHOOSE f : f = After(f))[N]
    BY DEF AddSearchData
  <1> HIDE DEF N, V, G
  <1>6. PICK h \in [0..N -> V] : Follows(h, N, m, G)
    BY <1>1, <1>3, <1>4, RecursionExists
  <1>7. \E f : f = After(f)
    <2>1. h[0] = m /\ \A d \in 1..N : h[d] = AddEntry(h[d - 1], entries[d])
      <3>1. \A d \in 1..N : h[d - 1] \in V
        BY <1>1
      <3> QED BY <1>3, <1>6, <3>1 DEF Follows
    <2>2. \A d \in 0..N : h[d] = IF d = 0 THEN m ELSE AddEntry(h[d - 1], entries[d])
      BY ONLY <1>1, <2>1
    <2>3. h = After(h)
      BY <2>2
    <2> HIDE DEF After
    <2> QED BY <2>3
  <1>8. \A f : f = After(f) =>
               /\ f[0] = m /\ \A d \in 1..N : f[d] = AddEntry(f[d - 1], entries[d])
               /\ f = [k \in 0..N |-> f[k]]
    <2> TAKE f
    <2> DEFINE g == After(f)
    <2>1. g = [k \in 0..N |-> g[k]] /\ g[0] = m /\ \A d \in 1..N : g[d] = AddEntry(f[d - 1], entries[d])
      BY <1>1
    <2> HIDE DEF After
    <2> QED BY <2>1
  <1> HIDE DEF After
  <1> DEFINE f == CHOOSE f : f = After(f)
  <1>9. /\ f[0] = m /\ \A d \in 1..N : f[d] = AddEntry(f[d - 1], entries[d])
        /\ f = [k \in 0..N |-> f[k]]
    <2>1. f = After(f)
      BY <1>7
    <2> QED BY <1>8, <2>1
  <1> HIDE DEF f
  <1>10. \A d \in 0..N : f[d] \in V
    <2>1. f[0] \in V /\ \A d \in 1..N : f[d - 1] \in V => f[d] \in V
      BY <1>1, <1>2, <1>4, <1>9
    <2> QED BY <1>1, <2>1, RecursionType
  <1>11. f \in [0..N -> V]
    BY <1>9, <1>10
  <1>12. AddSearchData(m, entries) = f[N]
    BY <1>5 DEF f
  <1> QED BY <1>9, <1>11, <1>12 DEF V, N, AddsAll

\* addSearchData adds entries and keeps the batch as open as it was.
LEMMA AddSearchDataType ==
  ASSUME NEW E, NEW m \in Models(E), NEW entries \in Seq(E)
  PROVE  AddSearchData(m, entries) \in Models(E) /\ AddSearchData(m, entries).depth = m.depth
  <1>1. Len(entries) \in 0..Len(entries)
    OBVIOUS
  <1> QED BY <1>1, AddSearchDataSteps DEF AddsAll

\* The lists that come about when entries are put into a list one by one.
PutsAll(f, list, entries) ==
  /\ f[0] = list /\ \A d \in 1..Len(entries) : f[d] = Placed(f[d - 1], entries[d])
  /\ AllPlaced(list, entries) = f[Len(entries)]

\* There are such lists.
LEMMA AllPlacedSteps ==
  ASSUME NEW E, NEW list \in Seq(E), NEW entries \in Seq(E)
  PROVE  \E f \in [0..Len(entries) -> Seq(E)] : PutsAll(f, list, entries)
  <1> DEFINE N == Len(entries)
             V == Seq(E)
             G == [d \in 1..N |-> [v \in V |-> Placed(v, entries[d])]]
             After(f) == [k \in 0..N |-> IF k = 0 THEN list ELSE Placed(f[k - 1], entries[k])]
  <1>1. N \in Nat /\ (\A k \in 0..N : k # 0 => k \in 1..N) /\ \A k \in 1..N : entries[k] \in E
    OBVIOUS
  <1>2. \A v \in V : \A e \in E : Placed(v, e) \in V
    BY PlacedType
  <1>3. G \in [1..N -> [V -> V]] /\ \A d \in 1..N : \A v \in V : G[d][v] = Placed(v, entries[d])
    BY <1>1, <1>2
  <1>4. list \in V
    OBVIOUS
  <1>5. AllPlaced(list, entries) = (CHOOSE f : f = After(f))[N]
    BY DEF AllPlaced
  <1> HIDE DEF N, V, G
  <1>6. PICK h \in [0..N -> V] : Follows(h, N, list, G)
    BY <1>1, <1>3, <1>4, RecursionExists
  <1>7. \E f : f = After(f)
    <2>1. h[0] = list /\ \A d \in 1..N : h[d] = Placed(h[d - 1], entries[d])
      <3>1. \A d \in 1..N : h[d - 1] \in V
        BY <1>1
      <3> QED BY <1>3, <1>6, <3>1 DEF Follows
    <2>2. \A d \in 0..N : h[d] = IF d = 0 THEN list ELSE Placed(h[d - 1], entries[d])
      BY ONLY <1>1, <2>1
    <2>3. h = After(h)
      BY <2>2
    <2> HIDE DEF After
    <2> QED BY <2>3
  <1>8. \A f : f = After(f) =>
               /\ f[0] = list /\ \A d \in 1..N : f[d] = Placed(f[d - 1], entries[d])
               /\ f = [k \in 0..N |-> f[k]]
    <2> TAKE f
    <2> DEFINE g == After(f)
    <2>1. g = [k \in 0..N |-> g[k]] /\ g[0] = list /\ \A d \in 1..N : g[d] = Placed(f[d - 1], entries[d])
      BY <1>1
    <2> HIDE DEF After
    <2> QED BY <2>1
  <1> HIDE DEF After
  <1> DEFINE f == CHOOSE f : f = After(f)
  <1>9. /\ f[0] = list /\ \A d \in 1..N : f[d] = Placed(f[d - 1], entries[d])
        /\ f = [k \in 0..N |-> f[k]]
    <2>1. f = After(f)
      BY <1>7
    <2> QED BY <1>8, <2>1
  <1> HIDE DEF f
  <1>10. \A d \in 0..N : f[d] \in V
    <2>1. f[0] \in V /\ \A d \in 1..N : f[d - 1] \in V => f[d] \in V
      BY <1>1, <1>2, <1>4, <1>9
    <2> QED BY <1>1, <2>1, RecursionType
  <1>11. f \in [0..N -> V]
    BY <1>9, <1>10
  <1>12. AllPlaced(list, entries) = f[N]
    BY <1>5 DEF f
  <1> QED BY <1>9, <1>11, <1>12 DEF V, N, PutsAll

\* The list they are put into.
LEMMA AllPlacedType ==
  ASSUME NEW E, NEW list \in Seq(E), NEW entries \in Seq(E)
  PROVE  AllPlaced(list, entries) \in Seq(E)
  <1>1. Len(entries) \in 0..Len(entries)
    OBVIOUS
  <1> QED BY <1>1, AllPlacedSteps DEF PutsAll

\* A model of the search stays one, and what opens and closes a batch.
LEMMA ModelFacts ==
  ASSUME NEW m, IsModel(m)
  PROVE  /\ m.depth \in Nat
         /\ IsModel(BeginBatch(m)) /\ BeginBatch(m).depth = m.depth + 1
         /\ IsModel(EndBatch(m)) /\ (m.depth = 1 => EndBatch(m).depth = 0)
         /\ \A entries : IsList(entries) =>
              IsModel(AddSearchData(m, entries)) /\ AddSearchData(m, entries).depth = m.depth
         /\ \A objs : IsModel(RemoveSearchData(m, objs)) /\ RemoveSearchData(m, objs).depth = m.depth
  <1>1. PICK E : m \in Models(E)
    BY DEF IsModel
  <1>2. /\ m = [data |-> m.data, batch |-> m.batch, depth |-> m.depth]
        /\ m.data \in Seq(E) /\ m.batch \in Seq(E) /\ m.depth \in Nat
    BY <1>1 DEF Models
  <1>3. IsModel(BeginBatch(m)) /\ BeginBatch(m).depth = m.depth + 1
    <2>1. BeginBatch(m) \in Models(E) /\ BeginBatch(m).depth = m.depth + 1
      BY <1>2 DEF BeginBatch, Models
    <2> QED BY <2>1 DEF IsModel
  <1>4. IsModel(EndBatch(m)) /\ (m.depth = 1 => EndBatch(m).depth = 0)
    <2>1. CASE m.depth = 1
      <3> DEFINE new == StableSorted(m.batch)
                 all == Merged(m.data, new)
      <3>1. new \in Seq(E)
        <4>1. <<>> \in Seq(E)
          OBVIOUS
        <4> QED BY <1>2, <4>1, AllPlacedType DEF StableSorted
      <3>2. EndBatch(m) = [data |-> all, batch |-> <<>>, depth |-> 0]
        BY <2>1 DEF EndBatch
      <3> HIDE DEF new
      <3>3. \E n \in Nat : \E F : all \in [1..n -> F]
        <4> DEFINE n == Len(m.data) + Len(new)
                   F == {all[k] : k \in 1..n}
        <4>1. n \in Nat
          BY <1>2, <3>1
        <4>2. all \in [1..n -> F]
          BY DEF Merged
        <4> HIDE DEF n, F, all
        <4> QED BY <4>1, <4>2
      <3>a. PICK n \in Nat : \E F : all \in [1..n -> F]
        BY <3>3
      <3>b. PICK F : all \in [1..n -> F]
        BY <3>a
      <3>4. all \in Seq(F) /\ <<>> \in Seq(F)
        BY <3>b
      <3> HIDE DEF all
      <3>5. EndBatch(m) \in Models(F) /\ EndBatch(m).depth = 0
        BY <3>2, <3>4 DEF Models
      <3> QED BY <3>5 DEF IsModel
    <2>2. CASE m.depth # 1
      <3>1. EndBatch(m) \in Models(E)
        BY <1>2, <2>2 DEF EndBatch, Models
      <3> QED BY <2>2, <3>1 DEF IsModel
    <2> QED BY <2>1, <2>2
  <1>5. ASSUME NEW entries, IsList(entries)
        PROVE  IsModel(AddSearchData(m, entries)) /\ AddSearchData(m, entries).depth = m.depth
    <2>1. PICK F : entries \in Seq(F)
      BY <1>5 DEF IsList
    <2> DEFINE G == E \cup F
    <2>2. entries \in Seq(G) /\ m.data \in Seq(G) /\ m.batch \in Seq(G)
      BY <1>2, <2>1, SeqMonotonic
    <2> HIDE DEF G
    <2>3. m \in Models(G)
      BY <1>2, <2>2 DEF Models
    <2>4. AddSearchData(m, entries) \in Models(G) /\ AddSearchData(m, entries).depth = m.depth
      BY <2>2, <2>3, AddSearchDataType
    <2> QED BY <2>4 DEF IsModel
  <1>6. ASSUME NEW objs
        PROVE  IsModel(RemoveSearchData(m, objs)) /\ RemoveSearchData(m, objs).depth = m.depth
    <2>1. \A s \in Seq(E) : Without(s, objs) \in Seq(E)
      <3> SUFFICES ASSUME NEW s \in Seq(E) PROVE Without(s, objs) \in Seq(E)
        OBVIOUS
      <3> DEFINE P == {i \in DOMAIN s : s[i].obj \notin objs}
      <3>1. P \subseteq 1..Len(s)
        OBVIOUS
      <3>2. Without(s, objs) = Kept(s, P)
        BY DEF Without
      <3> HIDE DEF P
      <3> QED BY <3>1, <3>2, KeptFacts
    <2>2. RemoveSearchData(m, objs) \in Models(E) /\ RemoveSearchData(m, objs).depth = m.depth
      BY <1>2, <2>1 DEF RemoveSearchData, Models
    <2> QED BY <2>2 DEF IsModel
  <1> QED BY <1>2, <1>3, <1>4, <1>5, <1>6

-----------------------------------------------------------------------------
(* The order of the entries.                                                *)

\* The first weight that differs, and a list that begins another.
FirstLess(a, b, k) ==
  /\ k \in Nat /\ 1 <= k /\ k <= Len(a) /\ k <= Len(b) /\ a[k] < b[k]
  /\ \A j \in Nat : 1 <= j /\ j < k => a[j] = b[j]

Begins(a, b) == Len(a) < Len(b) /\ \A j \in Nat : 1 <= j /\ j <= Len(a) => a[j] = b[j]

\* The two ways of coming first.
LEMMA LessCases ==
  ASSUME NEW p \in Seq(Nat), NEW q \in Seq(Nat)
  PROVE  WeightLessThan(p, q) <=> (\E k \in Nat : FirstLess(p, q, k)) \/ Begins(p, q)
  <1>1. Len(p) \in Nat /\ Len(q) \in Nat /\ DOMAIN p = 1..Len(p) /\ DOMAIN q = 1..Len(q)
    OBVIOUS
  <1>2. \A k : k \in DOMAIN p \cap DOMAIN q <=> k \in Nat /\ 1 <= k /\ k <= Len(p) /\ k <= Len(q)
    BY <1>1
  <1>3. ASSUME NEW k \in Nat
        PROVE  (\A j \in 1..(k - 1) : p[j] = q[j]) <=> \A j \in Nat : 1 <= j /\ j < k => p[j] = q[j]
    <2>1. \A j : j \in 1..(k - 1) <=> j \in Nat /\ 1 <= j /\ j < k
      BY ONLY k \in Nat
    <2> QED BY ONLY <2>1
  <1>4. (\A k \in DOMAIN p : p[k] = q[k]) <=> \A j \in Nat : 1 <= j /\ j <= Len(p) => p[j] = q[j]
    <2>1. \A k : k \in DOMAIN p <=> k \in Nat /\ 1 <= k /\ k <= Len(p)
      BY <1>1
    <2> QED BY ONLY <2>1
  <1>5. ASSUME WeightLessThan(p, q)
        PROVE  (\E k \in Nat : FirstLess(p, q, k)) \/ Begins(p, q)
    <2>1. CASE \E k \in DOMAIN p \cap DOMAIN q : p[k] < q[k] /\ \A j \in 1..(k - 1) : p[j] = q[j]
      <3>1. PICK k \in DOMAIN p \cap DOMAIN q : p[k] < q[k] /\ \A j \in 1..(k - 1) : p[j] = q[j]
        BY <2>1
      <3>2. k \in Nat /\ 1 <= k /\ k <= Len(p) /\ k <= Len(q)
        BY <1>2, <3>1
      <3>3. FirstLess(p, q, k)
        BY <1>3, <3>1, <3>2 DEF FirstLess
      <3> QED BY <3>2, <3>3
    <2>2. CASE Len(p) < Len(q) /\ \A k \in DOMAIN p : p[k] = q[k]
      BY <1>4, <2>2 DEF Begins
    <2> QED BY <1>5, <2>1, <2>2 DEF WeightLessThan
  <1>6. ASSUME NEW k \in Nat, FirstLess(p, q, k)
        PROVE  WeightLessThan(p, q)
    <2>1. k \in DOMAIN p \cap DOMAIN q /\ p[k] < q[k] /\ \A j \in 1..(k - 1) : p[j] = q[j]
      BY <1>2, <1>3, <1>6 DEF FirstLess
    <2> QED BY <2>1 DEF WeightLessThan
  <1>7. ASSUME Begins(p, q) PROVE WeightLessThan(p, q)
    BY <1>4, <1>7 DEF Begins, WeightLessThan
  <1> QED BY <1>5, <1>6, <1>7

\* Of two lists of weights one comes first, unless they are the same.
LEMMA WeightTotal ==
  ASSUME NEW p \in Seq(Nat), NEW q \in Seq(Nat)
  PROVE  WeightLessThan(p, q) \/ WeightLessThan(q, p) \/ p = q
  <1> DEFINE D == {k \in 1..Len(p) : k <= Len(q) /\ p[k] # q[k]}
  <1>1. /\ Len(p) \in Nat /\ Len(q) \in Nat /\ DOMAIN p = 1..Len(p) /\ DOMAIN q = 1..Len(q)
        /\ (\A k \in 1..Len(p) : p[k] \in Nat) /\ \A k \in 1..Len(q) : q[k] \in Nat
    OBVIOUS
  <1>2. CASE D # {}
    <2>1. PICK k \in D : \A m \in D : k <= m
      <3>1. D \subseteq Nat
        BY <1>1
      <3> HIDE DEF D
      <3> QED BY <1>2, <3>1, NatLeast
    <2>2. /\ k \in Nat /\ 1 <= k /\ k <= Len(p) /\ k <= Len(q) /\ p[k] # q[k]
          /\ \A j \in Nat : 1 <= j /\ j < k => p[j] = q[j]
      BY <1>1, <2>1
    <2>3. p[k] < q[k] \/ q[k] < p[k]
      BY <1>1, <2>2
    <2>4. FirstLess(p, q, k) \/ FirstLess(q, p, k)
      BY <2>2, <2>3 DEF FirstLess
    <2> QED BY <2>2, <2>4, LessCases
  <1>3. CASE D = {}
    <2>1. \A k \in 1..Len(p) : k <= Len(q) => p[k] = q[k]
      BY <1>3
    <2>2. CASE Len(p) = Len(q)
      <3>1. p = q
        BY <1>1, <2>1, <2>2
      <3> QED BY <3>1
    <2>3. CASE Len(p) < Len(q)
      <3>1. Begins(p, q)
        BY <1>1, <2>1, <2>3 DEF Begins
      <3> QED BY <3>1, LessCases
    <2>4. CASE Len(q) < Len(p)
      <3>1. Begins(q, p)
        BY <1>1, <2>1, <2>4 DEF Begins
      <3> QED BY <3>1, LessCases
    <2>5. Len(p) = Len(q) \/ Len(p) < Len(q) \/ Len(q) < Len(p)
      <3>1. \A a, b \in Nat : a = b \/ a < b \/ b < a
        OBVIOUS
      <3> QED BY ONLY <1>1, <3>1
    <2> QED BY <2>2, <2>3, <2>4, <2>5
  <1> QED BY <1>2, <1>3

\* The order of lists of weights is a strict one.
LEMMA WeightStrict ==
  ASSUME NEW p \in Seq(Nat), NEW q \in Seq(Nat), NEW r \in Seq(Nat),
         WeightLessThan(p, q), WeightLessThan(q, r)
  PROVE  WeightLessThan(p, r) /\ p # r
  <1>1. /\ Len(p) \in Nat /\ Len(q) \in Nat /\ Len(r) \in Nat
        /\ (\A k \in Nat : 1 <= k /\ k <= Len(p) => p[k] \in Nat)
        /\ (\A k \in Nat : 1 <= k /\ k <= Len(q) => q[k] \in Nat)
        /\ \A k \in Nat : 1 <= k /\ k <= Len(r) => r[k] \in Nat
    OBVIOUS
  <1>2. /\ (\E k \in Nat : FirstLess(p, q, k)) \/ Begins(p, q)
        /\ (\E k \in Nat : FirstLess(q, r, k)) \/ Begins(q, r)
        /\ (\E k \in Nat : FirstLess(p, r, k)) \/ Begins(p, r) => WeightLessThan(p, r)
    BY LessCases
  <1>3. ASSUME NEW k \in Nat, FirstLess(p, r, k) PROVE p # r
    BY <1>1, <1>3 DEF FirstLess
  <1>4. Begins(p, r) => p # r
    BY <1>1 DEF Begins
  <1>5. ASSUME NEW k \in Nat, NEW m \in Nat, FirstLess(p, q, k), FirstLess(q, r, m)
        PROVE  \E n \in Nat : FirstLess(p, r, n)
    <2>1. CASE k < m
      <3>1. q[k] = r[k] /\ \A j \in Nat : 1 <= j /\ j < k => p[j] = r[j]
        BY <1>5, <2>1 DEF FirstLess
      <3>2. FirstLess(p, r, k)
        BY <1>1, <1>5, <2>1, <3>1 DEF FirstLess
      <3> QED BY <3>2
    <2>2. CASE m < k
      <3>1. q[m] = p[m] /\ \A j \in Nat : 1 <= j /\ j < m => p[j] = r[j]
        BY <1>5, <2>2 DEF FirstLess
      <3>2. FirstLess(p, r, m)
        BY <1>1, <1>5, <2>2, <3>1 DEF FirstLess
      <3> QED BY <3>2
    <2>3. CASE k = m
      <3>1. p[k] < r[k] /\ \A j \in Nat : 1 <= j /\ j < k => p[j] = r[j]
        BY <1>1, <1>5, <2>3, SMTT(30) DEF FirstLess
      <3>2. FirstLess(p, r, k)
        BY <1>1, <1>5, <2>3, <3>1 DEF FirstLess
      <3> QED BY <3>2
    <2> QED BY <2>1, <2>2, <2>3
  <1>6. ASSUME NEW k \in Nat, FirstLess(p, q, k), Begins(q, r)
        PROVE  FirstLess(p, r, k)
    BY <1>1, <1>6, SMTT(30) DEF FirstLess, Begins
  <1>7. ASSUME NEW m \in Nat, Begins(p, q), FirstLess(q, r, m)
        PROVE  FirstLess(p, r, m) \/ Begins(p, r)
    <2>1. CASE m <= Len(p)
      <3>1. p[m] = q[m] /\ \A j \in Nat : 1 <= j /\ j < m => p[j] = r[j]
        BY <1>1, <1>7, <2>1 DEF FirstLess, Begins
      <3> QED BY <1>1, <1>7, <2>1, <3>1 DEF FirstLess
    <2>2. CASE Len(p) < m
      <3>1. \A j \in Nat : 1 <= j /\ j <= Len(p) => p[j] = r[j]
        BY <1>1, <1>7, <2>2 DEF FirstLess, Begins
      <3>2. Len(p) < Len(r)
        BY <1>1, <1>7, <2>2 DEF FirstLess, Begins
      <3> QED BY <3>1, <3>2 DEF Begins
    <2> QED BY <1>1, <2>1, <2>2
  <1>8. ASSUME Begins(p, q), Begins(q, r)
        PROVE  Begins(p, r)
    BY <1>1, <1>8 DEF Begins
  <1> QED BY <1>2, <1>3, <1>4, <1>5, <1>6, <1>7, <1>8

\* Entries with weights, and when one comes first.
Weighted(E) == \A e \in E : e.weight \in Seq(Nat)

Lighter(e, f) == WeightLessThan(e.weight, f.weight)

\* The order of entries: not being later is transitive and total.
LEMMA EntryOrder ==
  ASSUME NEW E, Weighted(E), NEW a \in E, NEW b \in E, NEW c \in E
  PROVE  /\ ~(Lighter(a, b) /\ Lighter(b, a)) /\ ~Lighter(a, a)
         /\ ~Lighter(b, a) /\ ~Lighter(c, b) => ~Lighter(c, a)
         /\ Lighter(a, b) /\ ~Lighter(c, b) => Lighter(a, c)
         /\ ~Lighter(b, a) /\ Lighter(b, c) => Lighter(a, c)
  <1>1. a.weight \in Seq(Nat) /\ b.weight \in Seq(Nat) /\ c.weight \in Seq(Nat)
    BY DEF Weighted
  <1>2. ASSUME NEW p \in Seq(Nat), NEW q \in Seq(Nat)
        PROVE  ~(WeightLessThan(p, q) /\ WeightLessThan(q, p)) /\ ~WeightLessThan(p, p)
    BY WeightStrict
  <1>3. ASSUME NEW p \in Seq(Nat), NEW q \in Seq(Nat), NEW r \in Seq(Nat),
               WeightLessThan(p, q), ~WeightLessThan(r, q)
        PROVE  WeightLessThan(p, r)
    <2>1. WeightLessThan(q, r) \/ q = r
      BY <1>3, WeightTotal
    <2> QED BY <1>3, <2>1, WeightStrict
  <1>4. ASSUME NEW p \in Seq(Nat), NEW q \in Seq(Nat), NEW r \in Seq(Nat),
               ~WeightLessThan(q, p), WeightLessThan(q, r)
        PROVE  WeightLessThan(p, r)
    <2>1. WeightLessThan(p, q) \/ q = p
      BY <1>4, WeightTotal
    <2> QED BY <1>4, <2>1, WeightStrict
  <1>5. ASSUME NEW p \in Seq(Nat), NEW q \in Seq(Nat), NEW r \in Seq(Nat),
               ~WeightLessThan(q, p), ~WeightLessThan(r, q)
        PROVE  ~WeightLessThan(r, p)
    BY <1>3, <1>5
  <1> QED BY <1>1, <1>2, <1>3, <1>4, <1>5 DEF Lighter

-----------------------------------------------------------------------------
(* The place of an entry among others in a stable order.                    *)

\* The j-th entry stays or comes before the i-th.
Before(c, j, i) == IF j <= i THEN ~Lighter(c[i], c[j]) ELSE Lighter(c[j], c[i])

Place(c, i) == Cardinality({j \in 1..Len(c) : Before(c, j, i)})

\* r has the entries of c, each at its place.
InPlace(r, c) == Len(r) = Len(c) /\ \A i \in 1..Len(c) : r[Place(c, i)] = c[i]

\* Every place is taken by one entry, and the places are in the order.
LEMMA PlaceFacts ==
  ASSUME NEW E, Weighted(E), NEW c \in Seq(E)
  PROVE  /\ \A i \in 1..Len(c) : Place(c, i) \in 1..Len(c)
         /\ \A i, j \in 1..Len(c) : i # j /\ Before(c, i, j) => Place(c, i) < Place(c, j)
         /\ \A i, j \in 1..Len(c) : Place(c, i) = Place(c, j) => i = j
         /\ \A k \in 1..Len(c) : \E i \in 1..Len(c) : Place(c, i) = k
  <1> DEFINE n == Len(c)
             Low(i) == {j \in 1..n : Before(c, j, i)}
  <1>1. n \in Nat /\ \A i \in 1..n : c[i] \in E
    OBVIOUS
  <1>2. IsFiniteSet(1..n) /\ Cardinality(1..n) = n
    <2>1. n \in Int /\ 1 \in Int
      BY <1>1
    <2> HIDE DEF n
    <2> QED BY <1>1, <2>1, FS_Interval
  <1>3. ASSUME NEW i \in 1..n
        PROVE  IsFiniteSet(Low(i)) /\ Cardinality(Low(i)) \in 0..n /\ i \in Low(i)
    <2>1. Low(i) \in SUBSET (1..n)
      OBVIOUS
    <2>2. i \in Low(i)
      BY <1>1, EntryOrder DEF Before
    <2> HIDE DEF Low
    <2>3. IsFiniteSet(Low(i)) /\ Cardinality(Low(i)) <= n
      BY <1>2, <2>1, FS_Subset
    <2>4. Cardinality(Low(i)) \in Nat
      BY <2>3, FS_CardinalityType
    <2> QED BY <1>1, <2>2, <2>3, <2>4
  <1>4. ASSUME NEW i \in 1..n, NEW j \in 1..n, i # j, Before(c, i, j)
        PROVE  Cardinality(Low(i)) < Cardinality(Low(j))
    <2>1. ~Before(c, j, i)
      BY <1>1, <1>4 DEF Before
    <2>2. ASSUME NEW k \in 1..n, Before(c, k, i)
          PROVE  Before(c, k, j)
      <3>1. c[i] \in E /\ c[j] \in E /\ c[k] \in E
        BY <1>1
      <3>2. /\ Lighter(c[k], c[i]) /\ ~Lighter(c[j], c[i]) => Lighter(c[k], c[j])
            /\ ~Lighter(c[i], c[k]) /\ Lighter(c[i], c[j]) => Lighter(c[k], c[j])
            /\ ~Lighter(c[i], c[k]) /\ ~Lighter(c[j], c[i]) => ~Lighter(c[j], c[k])
            /\ ~(Lighter(c[k], c[j]) /\ Lighter(c[j], c[k])) /\ ~(Lighter(c[i], c[j]) /\ Lighter(c[j], c[i]))
            /\ ~(Lighter(c[k], c[i]) /\ Lighter(c[i], c[k]))
        BY <3>1, EntryOrder
      <3>3. i \in Nat /\ j \in Nat /\ k \in Nat
        BY <1>1
      <3> QED BY <1>4, <2>2, <3>2, <3>3 DEF Before
    <2>3. Low(i) \in SUBSET Low(j) /\ j \in Low(j) /\ j \notin Low(i)
      BY <1>3, <2>1, <2>2
    <2> HIDE DEF Low
    <2>4. IsFiniteSet(Low(j)) /\ Cardinality(Low(i)) \in Nat /\ Cardinality(Low(j)) \in Nat
      BY <1>1, <1>3
    <2>5. Cardinality(Low(i)) <= Cardinality(Low(j)) /\ Cardinality(Low(i)) # Cardinality(Low(j))
      BY <2>3, <2>4, FS_Subset
    <2> QED BY <2>4, <2>5
  <1>5. \A i, j \in 1..n : Before(c, i, j) \/ Before(c, j, i)
    <2> TAKE i, j \in 1..n
    <2>1. ~(Lighter(c[i], c[j]) /\ Lighter(c[j], c[i])) /\ i \in Nat /\ j \in Nat
      BY <1>1, EntryOrder
    <2> QED BY <2>1 DEF Before
  <1>6. \A i \in 1..n : Place(c, i) = Cardinality(Low(i))
    BY DEF Place
  <1>7. \A i \in 1..n : Place(c, i) \in 1..n
    <2> TAKE i \in 1..n
    <2> HIDE DEF Low
    <2>1. IsFiniteSet(Low(i)) /\ Cardinality(Low(i)) \in 0..n /\ i \in Low(i)
      BY <1>3
    <2>2. Cardinality(Low(i)) # 0
      BY <2>1, FS_EmptySet
    <2> QED BY <1>1, <1>6, <2>1, <2>2
  <1> HIDE DEF Low
  <1>8. \A i, j \in 1..n : i # j /\ Before(c, i, j) => Place(c, i) < Place(c, j)
    BY <1>4, <1>6
  <1>9. \A i, j \in 1..n : Place(c, i) = Place(c, j) => i = j
    <2> TAKE i, j \in 1..n
    <2>1. Place(c, i) \in Nat /\ Place(c, j) \in Nat
      BY <1>1, <1>7
    <2> QED BY <1>5, <1>8, <2>1
  <1>10. \A k \in 1..n : \E i \in 1..n : Place(c, i) = k
    <2> DEFINE f == [i \in 1..n |-> Place(c, i)]
    <2>1. f \in [1..n -> 1..n] /\ \A a, b \in DOMAIN f : f[a] = f[b] => a = b
      BY <1>7, <1>9
    <2>2. \A i \in 1..n : f[i] = Place(c, i)
      OBVIOUS
    <2> HIDE DEF f, n
    <2>3. \A x \in 1..n : \E k \in 1..n : f[k] = x
      <3> DEFINE S == 1..n
      <3>1. IsFiniteSet(S) /\ Cardinality(S) = n /\ f \in [1..Cardinality(S) -> S]
        BY <1>2, <2>1
      <3> HIDE DEF S
      <3>2. \A g \in [1..Cardinality(S) -> S] :
              (\A a, b \in DOMAIN g : g[a] = g[b] => a = b) => \A x \in S : \E k \in 1..Cardinality(S) : g[k] = x
        BY <3>1, SetNumbering
      <3>3. \A x \in S : \E k \in 1..Cardinality(S) : f[k] = x
        BY ONLY <2>1, <3>1, <3>2
      <3> QED BY <1>2, <3>1, <3>3 DEF S
    <2> QED BY <2>2, <2>3
  <1> QED BY <1>7, <1>8, <1>9, <1>10

\* Numbers that keep the order of the places are the places.
LEMMA PlaceIs ==
  ASSUME NEW E, Weighted(E), NEW c \in Seq(E), NEW f \in [1..Len(c) -> 1..Len(c)],
         \A i, j \in 1..Len(c) : i # j /\ Before(c, i, j) => f[i] < f[j]
  PROVE  \A i \in 1..Len(c) : Place(c, i) = f[i]
  <1> DEFINE n == Len(c)
             Low(i) == {j \in 1..n : Before(c, j, i)}
  <1>1. n \in Nat /\ \A i \in 1..n : c[i] \in E
    OBVIOUS
  <1>2. \A i, j \in 1..n : Before(c, i, j) \/ Before(c, j, i)
    <2> TAKE i, j \in 1..n
    <2>1. ~(Lighter(c[i], c[j]) /\ Lighter(c[j], c[i])) /\ i \in Nat /\ j \in Nat
      BY <1>1, EntryOrder
    <2> QED BY <2>1 DEF Before
  <1>3. \A i \in 1..n : Before(c, i, i)
    <2> TAKE i \in 1..n
    <2>1. ~Lighter(c[i], c[i])
      BY <1>1, EntryOrder
    <2> QED BY <2>1 DEF Before
  <1> HIDE DEF n
  <1>4. /\ \A i \in 1..n : f[i] \in Nat /\ f[i] \in 1..n
        /\ \A i, j \in 1..n : f[i] = f[j] => i = j
        /\ \A i, j \in 1..n : f[j] <= f[i] <=> Before(c, j, i)
    <2>1. \A i \in 1..n : f[i] \in Nat /\ f[i] \in 1..n
      BY <1>1 DEF n
    <2>2. \A i, j \in 1..n : i # j /\ Before(c, i, j) => f[i] < f[j]
      BY DEF n
    <2> QED BY ONLY <1>2, <1>3, <2>1, <2>2
  <1>5. \A k \in 1..n : \E i \in 1..n : f[i] = k
    <2> DEFINE S == 1..n
    <2>1. n \in Int /\ 1 \in Int
      BY <1>1
    <2>2. IsFiniteSet(S) /\ Cardinality(S) = n
      BY <1>1, <2>1, FS_Interval
    <2>3. f \in [S -> S]
      BY DEF n
    <2> HIDE DEF S
    <2>4. \A g \in [1..Cardinality(S) -> S] :
            (\A a, b \in DOMAIN g : g[a] = g[b] => a = b) => \A x \in S : \E k \in 1..Cardinality(S) : g[k] = x
      BY <2>2, SetNumbering
    <2>5. 1..Cardinality(S) = S /\ \A a, b \in DOMAIN f : f[a] = f[b] => a = b
      BY <1>4, <2>2, <2>3 DEF S
    <2>6. \A x \in S : \E k \in S : f[k] = x
      BY ONLY <2>3, <2>4, <2>5
    <2> QED BY <2>6 DEF S
  <1>6. ASSUME NEW i \in 1..n
        PROVE  Cardinality(Low(i)) = f[i]
    <2> DEFINE L == Low(i)
               m == f[i]
               h == [j \in L |-> f[j]]
    <2>1. m \in Nat /\ m \in 1..n /\ m <= n
      BY <1>1, <1>4
    <2>2. L \in SUBSET (1..n) /\ \A j \in 1..n : j \in L <=> f[j] <= m
      BY <1>4
    <2> HIDE DEF L, m
    <2>3. \A j \in L : f[j] \in 1..m
      BY <1>4, <2>1, <2>2
    <2>4. h \in [L -> 1..m] /\ \A a, b \in L : h[a] = h[b] => a = b
      BY <1>4, <2>2, <2>3
    <2>5. \A k \in 1..m : \E j \in L : h[j] = k
      <3> TAKE k \in 1..m
      <3>1. k \in 1..n /\ k <= m
        BY <1>1, <2>1
      <3>2. PICK j \in 1..n : f[j] = k
        BY <1>5, <3>1
      <3>3. j \in L
        BY <2>2, <3>1, <3>2
      <3> QED BY <3>2, <3>3
    <2> HIDE DEF h
    <2>7. IsFiniteSet(1..n)
      <3>1. n \in Int /\ 1 \in Int
        BY <1>1
      <3> QED BY <3>1, FS_Interval
    <2>8. IsFiniteSet(L)
      BY <2>2, <2>7, FS_Subset
    <2>9. Cardinality(1..m) = Cardinality(L)
      <3> DEFINE M == 1..m
      <3>1. h \in [L -> M] /\ (\A a, b \in L : h[a] = h[b] => a = b) /\ \A k \in M : \E j \in L : h[j] = k
        BY <2>4, <2>5
      <3> HIDE DEF M
      <3>2. Cardinality(M) = Cardinality(L)
        BY <2>8, <3>1, SameNumber
      <3> QED BY <3>2 DEF M
    <2>10. Cardinality(1..m) = m
      <3>1. m \in Int /\ 1 \in Int
        BY <2>1
      <3> QED BY <2>1, <3>1, FS_Interval
    <2> QED BY <2>9, <2>10 DEF L, m
  <1>7. \A i \in 1..n : Place(c, i) = Cardinality(Low(i))
    BY DEF Place, n
  <1> QED BY <1>6, <1>7 DEF n

\* A list with the entries of another at numbers that keep the order of the places.
LEMMA InPlaceBy ==
  ASSUME NEW E, Weighted(E), NEW c \in Seq(E), NEW r \in Seq(E), Len(r) = Len(c),
         NEW f \in [1..Len(c) -> 1..Len(c)],
         \A i, j \in 1..Len(c) : i # j /\ Before(c, i, j) => f[i] < f[j],
         \A i \in 1..Len(c) : r[f[i]] = c[i]
  PROVE  InPlace(r, c)
  <1>1. \A i \in 1..Len(c) : Place(c, i) = f[i]
    BY PlaceIs
  <1> QED BY <1>1 DEF InPlace

\* There is one list with all entries at their places.
LEMMA InPlaceOnce ==
  ASSUME NEW E, Weighted(E), NEW c \in Seq(E), NEW r \in Seq(E), NEW s \in Seq(E),
         InPlace(r, c), InPlace(s, c)
  PROVE  r = s
  <1>1. \A k \in 1..Len(c) : \E i \in 1..Len(c) : Place(c, i) = k
    BY PlaceFacts
  <1>2. Len(r) = Len(c) /\ Len(s) = Len(c) /\ \A i \in 1..Len(c) : r[Place(c, i)] = s[Place(c, i)]
    BY DEF InPlace
  <1>3. \A k \in 1..Len(c) : r[k] = s[k]
    BY ONLY <1>1, <1>2
  <1> QED BY <1>2, <1>3

\* It is sorted.
LEMMA InPlaceSorted ==
  ASSUME NEW E, Weighted(E), NEW c \in Seq(E), NEW r \in Seq(E), InPlace(r, c)
  PROVE  Sorted(r)
  <1> DEFINE n == Len(c)
  <1>1. n \in Nat /\ Len(r) = n /\ DOMAIN r = 1..n /\ \A i \in 1..n : c[i] \in E
    BY DEF InPlace
  <1>2. /\ \A i \in 1..n : Place(c, i) \in 1..n
        /\ \A i, j \in 1..n : i # j /\ Before(c, i, j) => Place(c, i) < Place(c, j)
        /\ \A k \in 1..n : \E i \in 1..n : Place(c, i) = k
    BY PlaceFacts
  <1>3. \A i \in 1..n : r[Place(c, i)] = c[i]
    BY DEF InPlace
  <1> HIDE DEF n
  <1>4. ASSUME NEW k \in 1..n, NEW m \in 1..n, k < m
        PROVE  ~Lighter(r[m], r[k])
    <2>1. PICK i \in 1..n : Place(c, i) = k
      BY <1>2
    <2>2. PICK j \in 1..n : Place(c, j) = m
      BY <1>2
    <2>3. r[k] = c[i] /\ r[m] = c[j]
      BY <1>3, <2>1, <2>2
    <2>4. ~(Lighter(c[i], c[j]) /\ Lighter(c[j], c[i])) /\ i \in Nat /\ j \in Nat /\ k \in Nat /\ m \in Nat
      BY <1>1, EntryOrder
    <2>5. ~(Place(c, j) < Place(c, i)) /\ i # j
      BY <1>4, <2>1, <2>2, <2>4
    <2>6. ~Before(c, j, i)
      BY <1>2, <2>5
    <2> QED BY <2>3, <2>4, <2>6 DEF Before
  <1> QED BY <1>1, <1>4 DEF Sorted, Lighter

\* A sorted list has its own entries at their places.
LEMMA SortedInPlace ==
  ASSUME NEW E, Weighted(E), NEW d \in Seq(E), Sorted(d)
  PROVE  InPlace(d, d)
  <1> DEFINE n == Len(d)
             f == [i \in 1..n |-> i]
  <1>1. n \in Nat /\ DOMAIN d = 1..n
    OBVIOUS
  <1>2. ASSUME NEW i \in 1..n, NEW j \in 1..n, i # j, Before(d, i, j)
        PROVE  i < j
    <2>1. i \in Nat /\ j \in Nat
      BY <1>1
    <2>2. j < i => ~Lighter(d[i], d[j])
      BY <1>1 DEF Sorted, Lighter
    <2> QED BY <1>2, <2>1, <2>2 DEF Before
  <1>3. f \in [1..n -> 1..n] /\ \A i \in 1..n : f[i] = i
    OBVIOUS
  <1> HIDE DEF f
  <1>4. /\ \A i, j \in 1..n : i # j /\ Before(d, i, j) => f[i] < f[j]
        /\ \A i \in 1..n : d[f[i]] = d[i]
    BY <1>2, <1>3
  <1> QED BY <1>3, <1>4, InPlaceBy

\* Where an entry is put in a sorted list.
LEMMA PlacedAt ==
  ASSUME NEW E, Weighted(E), NEW d \in Seq(E), Sorted(d), NEW e \in E
  PROVE  \E p \in 1..(Len(d) + 1) :
           /\ Placed(d, e) = PutAt(d, p, e)
           /\ \A k \in 1..Len(d) : k < p <=> ~Lighter(e, d[k])
  <1> DEFINE n == Len(d)
             P == {i \in DOMAIN d : ~WeightLessThan(e.weight, d[i].weight)}
             p == 1 + Cardinality(P)
  <1>1. n \in Nat /\ DOMAIN d = 1..n /\ (\A i \in 1..n : d[i] \in E) /\ P \subseteq 1..n
    OBVIOUS
  <1>2. \A i \in 1..n : i \in P <=> ~Lighter(e, d[i])
    BY <1>1 DEF Lighter
  <1>3. \A i \in P : \A j \in 1..i : j \in P
    <2> TAKE i \in P
    <2> TAKE j \in 1..i
    <2>1. i \in 1..n /\ j \in 1..n /\ (j < i \/ j = i) /\ ~Lighter(e, d[i])
      BY <1>1, <1>2
    <2>2. j < i => ~Lighter(d[i], d[j])
      BY <1>1, <2>1 DEF Sorted, Lighter
    <2>3. ~Lighter(d[i], d[j]) /\ ~Lighter(e, d[i]) => ~Lighter(e, d[j])
      BY <1>1, <2>1, EntryOrder
    <2> QED BY <1>2, <2>1, <2>2, <2>3
  <1> HIDE DEF n, P
  <1>4. Cardinality(P) \in 0..n /\ P = 1..Cardinality(P)
    BY <1>1, <1>3, Initial
  <1>5. p \in 1..(n + 1) /\ \A k \in 1..n : k < p <=> k \in P
    BY <1>1, <1>4
  <1>6. Placed(d, e) = PutAt(d, p, e)
    BY DEF Placed, InsertAt, PutAt, P
  <1> HIDE DEF p
  <1> QED BY <1>2, <1>5, <1>6 DEF n

\* Putting an entry into a list with all entries at their places.
LEMMA PlacedInPlace ==
  ASSUME NEW E, Weighted(E), NEW c \in Seq(E), NEW r \in Seq(E), InPlace(r, c), NEW e \in E
  PROVE  InPlace(Placed(r, e), Append(c, e))
  <1> DEFINE n == Len(c)
             a == Append(c, e)
             s == Placed(r, e)
  <1>1. n \in Nat /\ Len(r) = n
    BY DEF InPlace
  <1>2. /\ a \in Seq(E) /\ Len(a) = n + 1 /\ a[n + 1] = e
        /\ \A i \in 1..n : a[i] = c[i]
    OBVIOUS
  <1>3. PICK p \in 1..(n + 1) :
          /\ s = PutAt(r, p, e)
          /\ \A k \in 1..n : k < p <=> ~Lighter(e, r[k])
    BY <1>1, InPlaceSorted, PlacedAt
  <1> HIDE DEF s
  <1>4. /\ s \in Seq(E) /\ Len(s) = n + 1
        /\ \A k \in 1..(n + 1) : s[k] = IF k < p THEN r[k] ELSE IF k = p THEN e ELSE r[k - 1]
    <2>1. p \in 1..(Len(r) + 1)
      BY <1>1, <1>3
    <2> DEFINE t == PutAt(r, p, e)
    <2>2. /\ t \in Seq(E) /\ Len(t) = Len(r) + 1
          /\ \A k \in 1..(Len(r) + 1) : t[k] = IF k < p THEN r[k] ELSE IF k = p THEN e ELSE r[k - 1]
      BY <2>1, Inserted
    <2>3. s = t
      BY <1>3
    <2> HIDE DEF t
    <2> QED BY ONLY <1>1, <2>2, <2>3
  <1>5. /\ \A i \in 1..n : Place(c, i) \in 1..n
        /\ \A i, j \in 1..n : i # j /\ Before(c, i, j) => Place(c, i) < Place(c, j)
        /\ \A i \in 1..n : r[Place(c, i)] = c[i]
    BY PlaceFacts DEF InPlace
  <1> DEFINE R(i) == Place(c, i)
             f == [i \in 1..(n + 1) |-> IF i = n + 1 THEN p ELSE IF R(i) < p THEN R(i) ELSE R(i) + 1]
  <1> HIDE DEF n, a
  <1>6. /\ p \in Nat /\ \A i \in 1..n : R(i) \in Nat /\ i \in Nat /\ i <= n /\ i \in 1..(n + 1) /\ i # n + 1
        /\ \A i \in 1..(n + 1) : i \in 1..n \/ i = n + 1
        /\ n + 1 \in 1..(n + 1)
    BY <1>1, <1>5, SMTT(30)
  <1>7. /\ f \in [1..(n + 1) -> 1..(n + 1)] /\ f[n + 1] = p
        /\ \A i \in 1..n : f[i] = IF R(i) < p THEN R(i) ELSE R(i) + 1
    BY <1>1, <1>3, <1>5, <1>6, SMTT(30)
  <1> HIDE DEF f
  <1>8. ASSUME NEW i \in 1..n
        PROVE  s[f[i]] = c[i]
    <2>1. R(i) \in 1..n /\ R(i) \in Nat /\ r[R(i)] = c[i]
      BY <1>5, <1>6
    <2> HIDE DEF R
    <2>2. CASE R(i) < p
      <3>1. f[i] = R(i) /\ R(i) \in 1..(n + 1)
        BY <1>1, <1>7, <2>1, <2>2
      <3> QED BY <1>4, <2>1, <2>2, <3>1
    <2>3. CASE ~(R(i) < p)
      <3>1. f[i] = R(i) + 1
        BY <1>7, <2>3
      <3>2. R(i) + 1 \in 1..(n + 1) /\ ~(R(i) + 1 < p) /\ R(i) + 1 # p /\ R(i) + 1 - 1 = R(i)
        BY <1>1, <1>6, <2>1, <2>3
      <3> QED BY <1>4, <2>1, <3>1, <3>2
    <2> QED BY <2>2, <2>3
  <1>9. s[f[n + 1]] = e
    BY <1>3, <1>4, <1>6, <1>7
  <1>10. ASSUME NEW i \in 1..(n + 1), NEW j \in 1..(n + 1), i # j, Before(a, i, j)
         PROVE  f[i] < f[j]
    <2>1. CASE i \in 1..n /\ j \in 1..n
      <3>1. Before(c, i, j)
        BY <1>2, <1>10, <2>1 DEF Before
      <3>2. R(i) < R(j)
        BY <1>5, <1>10, <2>1, <3>1
      <3> QED BY <1>6, <1>7, <2>1, <3>2
    <2>2. CASE i \in 1..n /\ j = n + 1
      <3>1. ~Lighter(e, c[i])
        BY <1>2, <1>6, <1>10, <2>2 DEF Before
      <3>2. R(i) < p
        BY <1>3, <1>5, <2>2, <3>1
      <3> QED BY <1>7, <2>2, <3>2
    <2>3. CASE j \in 1..n /\ i = n + 1
      <3>1. Lighter(e, c[j])
        BY <1>1, <1>2, <1>6, <1>10, <2>3 DEF Before
      <3>2. ~(R(j) < p)
        BY <1>3, <1>5, <2>3, <3>1
      <3> QED BY <1>6, <1>7, <2>3, <3>2
    <2> QED BY <1>6, <1>10, <2>1, <2>2, <2>3
  <1>11. \A i \in 1..(n + 1) : s[f[i]] = a[i]
    BY <1>2, <1>6, <1>8, <1>9
  <1>12. InPlace(s, a)
    <2>1. /\ f \in [1..Len(a) -> 1..Len(a)] /\ Len(s) = Len(a)
          /\ \A i, j \in 1..Len(a) : i # j /\ Before(a, i, j) => f[i] < f[j]
          /\ \A i \in 1..Len(a) : s[f[i]] = a[i]
      BY <1>2, <1>4, <1>7, <1>10, <1>11
    <2>2. a \in Seq(E) /\ s \in Seq(E)
      BY <1>2, <1>4
    <2> QED BY ONLY Weighted(E), <2>1, <2>2, InPlaceBy
  <1> QED BY <1>12 DEF s, a

\* Putting entries into a list with all entries at their places.
LEMMA AllPlacedInPlace ==
  ASSUME NEW E, Weighted(E), NEW c \in Seq(E), NEW r \in Seq(E), InPlace(r, c), NEW es \in Seq(E)
  PROVE  InPlace(AllPlaced(r, es), c \o es)
  <1> DEFINE N == Len(es)
  <1>1. N \in Nat /\ \A d \in 1..N : es[d] \in E /\ d \in 0..N /\ d - 1 \in 0..N
    OBVIOUS
  <1>2. PICK f \in [0..N -> Seq(E)] : PutsAll(f, r, es)
    BY AllPlacedSteps
  <1>3. PICK P \in [0..N -> Seq(E)] : Grows(P, c, es)
    BY GrownLists
  <1>4. /\ f[0] = r /\ AllPlaced(r, es) = f[N]
        /\ \A d \in 1..N : f[d] = Placed(f[d - 1], es[d])
    BY <1>2 DEF PutsAll
  <1>5. /\ P[0] = c /\ P[N] = c \o es
        /\ \A d \in 1..N : P[d] = Append(P[d - 1], es[d])
    BY <1>3 DEF Grows
  <1> DEFINE T == {k \in 0..N : InPlace(f[k], P[k])}
  <1> HIDE DEF N
  <1>6. 0 \in T
    BY <1>1, <1>4, <1>5
  <1>7. ASSUME NEW d \in 1..N, d - 1 \in T
        PROVE  d \in T
    <2>1. f[d - 1] \in Seq(E) /\ P[d - 1] \in Seq(E) /\ es[d] \in E
      BY <1>1
    <2>2. InPlace(Placed(f[d - 1], es[d]), Append(P[d - 1], es[d]))
      BY <1>7, <2>1, PlacedInPlace
    <2> QED BY <1>1, <1>4, <1>5, <2>2
  <1>8. \A k \in 0..N : InPlace(f[k], P[k])
    <2> HIDE DEF T
    <2>1. \A k \in 0..N : k \in T
      BY <1>1, <1>6, <1>7, StepInduction
    <2> QED BY <2>1 DEF T
  <1>9. N \in 0..N
    BY <1>1
  <1> QED BY <1>4, <1>5, <1>8, <1>9

\* Two sorted lists as one: all entries of both at their places.
LEMMA MergedInPlace ==
  ASSUME NEW E, Weighted(E), NEW d \in Seq(E), Sorted(d),
         NEW b \in Seq(E), NEW s \in Seq(E), InPlace(s, b)
  PROVE  Merged(d, s) \in Seq(E) /\ InPlace(Merged(d, s), d \o b)
  <1> DEFINE n == Len(d)
             N == Len(b)
             r == Merged(d, s)
             c == d \o b
             After(i) == {m \in DOMAIN s : WeightLessThan(s[m].weight, d[i].weight)}
             Upto(m) == {i \in DOMAIN d : ~WeightLessThan(s[m].weight, d[i].weight)}
             A(i) == Cardinality(After(i))
             U(m) == Cardinality(Upto(m))
             OldAt(i) == i + A(i)
             NewAt(m) == m + U(m)
             K(m) == Place(b, m)
             f == [i \in 1..(n + N) |-> IF i <= n THEN OldAt(i) ELSE NewAt(K(i - n))]
  <1>1. /\ n \in Nat /\ N \in Nat /\ Len(s) = N /\ DOMAIN d = 1..n /\ DOMAIN s = 1..N
        /\ \A i \in 1..n : d[i] \in E
        /\ \A m \in 1..N : b[m] \in E /\ s[m] \in E
    BY DEF InPlace
  <1>2. /\ c \in Seq(E) /\ Len(c) = n + N
        /\ \A i \in 1..(n + N) : c[i] = IF i <= n THEN d[i] ELSE b[i - n]
    BY ConcatProperties
  <1>3. /\ \A m \in 1..N : K(m) \in 1..N
        /\ \A i, j \in 1..N : i # j /\ Before(b, i, j) => K(i) < K(j)
        /\ \A m \in 1..N : s[K(m)] = b[m]
    BY PlaceFacts DEF InPlace
  <1>4. Sorted(s)
    BY InPlaceSorted
  <1>5. r = [k \in 1..(n + N) |->
              IF \E i \in 1..n : OldAt(i) = k
              THEN d[CHOOSE i \in 1..n : OldAt(i) = k]
              ELSE s[CHOOSE m \in 1..N : NewAt(m) = k]]
    BY <1>1 DEF Merged
  <1> HIDE DEF r, c
  <1>6. \A i \in 1..n : \A m : m \in After(i) <=> m \in 1..N /\ Lighter(s[m], d[i])
    BY <1>1 DEF Lighter
  <1>7. \A m \in 1..N : \A i : i \in Upto(m) <=> i \in 1..n /\ ~Lighter(s[m], d[i])
    BY <1>1 DEF Lighter
  <1> HIDE DEF n, N
  <1>8. ASSUME NEW i \in 1..n
        PROVE  A(i) \in 0..N /\ \A m \in 1..N : m <= A(i) <=> Lighter(s[m], d[i])
    <2> DEFINE P == After(i)
    <2>1. \A m : m \in P <=> m \in 1..N /\ Lighter(s[m], d[i])
      BY <1>6
    <2> HIDE DEF P
    <2>2. \A m \in P : \A j \in 1..m : j \in P
      <3> TAKE m \in P
      <3> TAKE j \in 1..m
      <3>1. m \in 1..N /\ j \in 1..N /\ (j < m \/ j = m) /\ Lighter(s[m], d[i])
        BY <1>1, <2>1
      <3>2. j < m => ~Lighter(s[m], s[j])
        BY <1>1, <1>4, <3>1 DEF Sorted, Lighter
      <3>3. ~Lighter(s[m], s[j]) /\ Lighter(s[m], d[i]) => Lighter(s[j], d[i])
        BY <1>1, <3>1, EntryOrder
      <3> QED BY <2>1, <3>1, <3>2, <3>3
    <2>3. P \subseteq 1..N
      BY <2>1
    <2>4. Cardinality(P) \in 0..N /\ P = 1..Cardinality(P)
      BY <1>1, <2>2, <2>3, Initial
    <2>5. \A m \in 1..N : m <= Cardinality(P) <=> m \in P
      BY <1>1, <2>4
    <2> QED BY <2>1, <2>4, <2>5 DEF P
  <1>9. ASSUME NEW m \in 1..N
        PROVE  U(m) \in 0..n /\ \A i \in 1..n : i <= U(m) <=> ~Lighter(s[m], d[i])
    <2> DEFINE P == Upto(m)
    <2>1. \A i : i \in P <=> i \in 1..n /\ ~Lighter(s[m], d[i])
      BY <1>7
    <2> HIDE DEF P
    <2>2. \A i \in P : \A j \in 1..i : j \in P
      <3> TAKE i \in P
      <3> TAKE j \in 1..i
      <3>1. i \in 1..n /\ j \in 1..n /\ (j < i \/ j = i) /\ ~Lighter(s[m], d[i])
        BY <1>1, <2>1
      <3>2. j < i => ~Lighter(d[i], d[j])
        BY <1>1, <3>1 DEF Sorted, Lighter
      <3>3. ~Lighter(d[i], d[j]) /\ ~Lighter(s[m], d[i]) => ~Lighter(s[m], d[j])
        BY <1>1, <3>1, EntryOrder
      <3> QED BY <2>1, <3>1, <3>2, <3>3
    <2>3. P \subseteq 1..n
      BY <2>1
    <2>4. Cardinality(P) \in 0..n /\ P = 1..Cardinality(P)
      BY <1>1, <2>2, <2>3, Initial
    <2>5. \A i \in 1..n : i <= Cardinality(P) <=> i \in P
      BY <1>1, <2>4
    <2> QED BY <2>1, <2>4, <2>5 DEF P
  <1> HIDE DEF A, U, After, Upto, K
  <1>10. \A i \in 1..n : i \in Nat /\ A(i) \in Nat /\ OldAt(i) \in 1..(n + N)
    BY <1>1, <1>8
  <1>11. \A m \in 1..N : m \in Nat /\ U(m) \in Nat /\ NewAt(m) \in 1..(n + N)
    BY <1>1, <1>9
  <1>12. ASSUME NEW i \in 1..n, NEW j \in 1..n, i < j
         PROVE  OldAt(i) < OldAt(j)
    <2>1. CASE A(i) = 0
      BY <1>10, <1>12, <2>1
    <2>2. CASE A(i) # 0
      <3>1. A(i) \in 1..N
        BY <1>1, <1>8, <2>2
      <3>2. Lighter(s[A(i)], d[i])
        BY <1>8, <1>10, <3>1
      <3>3. ~Lighter(d[j], d[i])
        BY <1>1, <1>12 DEF Sorted, Lighter
      <3>4. Lighter(s[A(i)], d[j])
        BY <1>1, <3>1, <3>2, <3>3, EntryOrder
      <3>5. A(i) <= A(j)
        BY <1>8, <3>1, <3>4
      <3> QED BY <1>10, <1>12, <3>5
    <2> QED BY <2>1, <2>2
  <1>13. ASSUME NEW k \in 1..N, NEW m \in 1..N, k < m
         PROVE  NewAt(k) < NewAt(m)
    <2>1. CASE U(k) = 0
      BY <1>11, <1>13, <2>1
    <2>2. CASE U(k) # 0
      <3>1. U(k) \in 1..n
        BY <1>1, <1>9, <2>2
      <3>2. ~Lighter(s[k], d[U(k)])
        BY <1>9, <1>11, <3>1
      <3>3. ~Lighter(s[m], s[k])
        BY <1>1, <1>4, <1>13 DEF Sorted, Lighter
      <3>4. ~Lighter(s[m], d[U(k)])
        BY <1>1, <3>1, <3>2, <3>3, EntryOrder
      <3>5. U(k) <= U(m)
        BY <1>9, <3>1, <3>4
      <3> QED BY <1>11, <1>13, <3>5
    <2> QED BY <2>1, <2>2
  <1>14. \A i \in 1..n : \A m \in 1..N :
           IF Lighter(s[m], d[i]) THEN NewAt(m) < OldAt(i) ELSE OldAt(i) < NewAt(m)
    <2> TAKE i \in 1..n
    <2> TAKE m \in 1..N
    <2>1. (m <= A(i) <=> Lighter(s[m], d[i])) /\ (i <= U(m) <=> ~Lighter(s[m], d[i]))
      BY <1>8, <1>9
    <2> QED BY <1>10, <1>11, <2>1
  <1> HIDE DEF OldAt, NewAt
  <1>15. /\ \A i, j \in 1..n : OldAt(i) = OldAt(j) => i = j
         /\ \A k, m \in 1..N : NewAt(k) = NewAt(m) => k = m
         /\ \A i \in 1..n : \A m \in 1..N : OldAt(i) # NewAt(m)
    <2>1. \A i \in 1..n : OldAt(i) \in Nat /\ i \in Nat
      BY <1>10
    <2>2. \A m \in 1..N : NewAt(m) \in Nat /\ m \in Nat
      BY <1>11
    <2>3. \A i, j \in 1..n : OldAt(i) = OldAt(j) => i = j
      <3>1. \A i, j \in 1..n : i < j \/ i = j \/ j < i
        BY ONLY <2>1
      <3>2. \A i, j \in 1..n : i < j => OldAt(i) < OldAt(j)
        BY ONLY <1>12
      <3>3. \A i, j \in 1..n : ~(OldAt(i) = OldAt(j) /\ OldAt(i) < OldAt(j))
        BY ONLY <2>1
      <3> QED BY ONLY <3>1, <3>2, <3>3
    <2>4. \A k, m \in 1..N : NewAt(k) = NewAt(m) => k = m
      <3>1. \A k, m \in 1..N : k < m \/ k = m \/ m < k
        BY ONLY <2>2
      <3>2. \A k, m \in 1..N : k < m => NewAt(k) < NewAt(m)
        BY ONLY <1>13
      <3>3. \A k, m \in 1..N : ~(NewAt(k) = NewAt(m) /\ NewAt(k) < NewAt(m))
        BY ONLY <2>2
      <3> QED BY ONLY <3>1, <3>2, <3>3
    <2>5. \A i \in 1..n : \A m \in 1..N : OldAt(i) # NewAt(m)
      BY ONLY <1>14, <2>1, <2>2
    <2> QED BY <2>3, <2>4, <2>5
  <1>16. \A i \in 1..n : r[OldAt(i)] = d[i]
    <2> TAKE i \in 1..n
    <2>1. (CHOOSE j \in 1..n : OldAt(j) = OldAt(i)) = i
      BY <1>15
    <2> QED BY <1>5, <1>10, <2>1
  <1>17. \A m \in 1..N : r[NewAt(m)] = s[m]
    <2> TAKE m \in 1..N
    <2>1. (CHOOSE k \in 1..N : NewAt(k) = NewAt(m)) = m
      BY <1>15
    <2>2. ~\E i \in 1..n : OldAt(i) = NewAt(m)
      BY <1>15
    <2> QED BY <1>5, <1>11, <2>1, <2>2
  <1>18. \A x \in 1..(n + N) : (x <= n /\ x \in 1..n) \/ (~(x <= n) /\ x - n \in 1..N)
    BY <1>1
  <1>19. /\ f \in [1..(n + N) -> 1..(n + N)]
         /\ \A x \in 1..(n + N) : f[x] = IF x <= n THEN OldAt(x) ELSE NewAt(K(x - n))
    BY <1>3, <1>10, <1>11, <1>18
  <1> HIDE DEF f
  <1>20. \A x \in 1..(n + N) : r[f[x]] = c[x]
    <2> TAKE x \in 1..(n + N)
    <2>1. CASE x <= n
      BY <1>2, <1>16, <1>18, <1>19, <2>1
    <2>2. CASE ~(x <= n)
      <3>1. x - n \in 1..N /\ K(x - n) \in 1..N /\ s[K(x - n)] = b[x - n]
        BY <1>3, <1>18, <2>2
      <3> QED BY <1>2, <1>17, <1>19, <2>2, <3>1
    <2> QED BY <2>1, <2>2
  <1>21. ASSUME NEW x \in 1..(n + N), NEW y \in 1..(n + N), x # y, Before(c, x, y)
         PROVE  f[x] < f[y]
    <2>0. x \in Int /\ y \in Int /\ n \in Int
      BY <1>1
    <2>1. CASE x <= n /\ y <= n
      <3>1. x \in 1..n /\ y \in 1..n /\ c[x] = d[x] /\ c[y] = d[y]
        BY <1>2, <1>18, <2>1
      <3>2. y < x => ~Lighter(d[x], d[y])
        BY <1>1, <3>1 DEF Sorted, Lighter
      <3>3. x < y
        BY <1>21, <2>0, <3>1, <3>2 DEF Before
      <3> QED BY <1>12, <1>19, <2>1, <3>1, <3>3
    <2>2. CASE x <= n /\ ~(y <= n)
      <3>1. x \in 1..n /\ y - n \in 1..N /\ c[x] = d[x] /\ c[y] = b[y - n]
        BY <1>2, <1>18, <2>2
      <3>2. ~Lighter(b[y - n], d[x])
        BY <1>21, <2>0, <2>2, <3>1 DEF Before
      <3>3. K(y - n) \in 1..N /\ s[K(y - n)] = b[y - n]
        BY <1>3, <3>1
      <3>4. OldAt(x) < NewAt(K(y - n))
        BY <1>14, <3>1, <3>2, <3>3
      <3> QED BY <1>19, <2>2, <3>4
    <2>3. CASE ~(x <= n) /\ y <= n
      <3>1. y \in 1..n /\ x - n \in 1..N /\ c[y] = d[y] /\ c[x] = b[x - n]
        BY <1>2, <1>18, <2>3
      <3>2. Lighter(b[x - n], d[y])
        BY <1>21, <2>0, <2>3, <3>1 DEF Before
      <3>3. K(x - n) \in 1..N /\ s[K(x - n)] = b[x - n]
        BY <1>3, <3>1
      <3>4. NewAt(K(x - n)) < OldAt(y)
        BY <1>14, <3>1, <3>2, <3>3
      <3> QED BY <1>19, <2>3, <3>4
    <2>4. CASE ~(x <= n) /\ ~(y <= n)
      <3>1. x - n \in 1..N /\ y - n \in 1..N /\ c[x] = b[x - n] /\ c[y] = b[y - n]
        BY <1>2, <1>18, <2>4
      <3>2. Before(b, x - n, y - n) /\ x - n # y - n
        BY <1>21, <2>0, <3>1 DEF Before
      <3>3. K(x - n) \in 1..N /\ K(y - n) \in 1..N /\ K(x - n) < K(y - n)
        BY <1>3, <3>1, <3>2
      <3>4. NewAt(K(x - n)) < NewAt(K(y - n))
        BY <1>13, <3>3
      <3> QED BY <1>19, <2>4, <3>4
    <2> QED BY <2>1, <2>2, <2>3, <2>4
  <1>22. /\ f \in [1..Len(c) -> 1..Len(c)]
         /\ \A i, j \in 1..Len(c) : i # j /\ Before(c, i, j) => f[i] < f[j]
         /\ \A i \in 1..Len(c) : r[f[i]] = c[i]
    BY <1>2, <1>19, <1>20, <1>21
  <1>23. c \in Seq(E)
    BY <1>2
  <1>24. \A k \in 1..(n + N) : r[k] \in E
    <2> TAKE k \in 1..(n + N)
    <2>1. \A i \in 1..Len(c) : Place(c, i) = f[i]
      BY ONLY Weighted(E), <1>22, <1>23, PlaceIs
    <2>2. \A m \in 1..Len(c) : \E i \in 1..Len(c) : Place(c, i) = m
      BY ONLY Weighted(E), <1>23, PlaceFacts
    <2>3. PICK i \in 1..Len(c) : f[i] = k
      BY ONLY <1>2, <2>1, <2>2
    <2>4. r[k] = c[i] /\ c[i] \in E
      BY <1>22, <1>23, <2>3
    <2> QED BY <2>4
  <1>25. r \in Seq(E) /\ Len(r) = Len(c)
    <2> DEFINE M == n + N
    <2>1. M \in Nat /\ Len(c) = M
      BY <1>1, <1>2
    <2>2. r = [k \in 1..M |-> r[k]]
      BY <1>5
    <2>3. \A k \in 1..M : r[k] \in E
      BY <1>24
    <2> HIDE DEF M
    <2>4. r \in [1..M -> E]
      BY ONLY <2>2, <2>3
    <2> QED BY ONLY <2>1, <2>4
  <1>26. InPlace(r, c)
    BY ONLY Weighted(E), <1>22, <1>23, <1>25, InPlaceBy
  <1> QED BY <1>25, <1>26 DEF r, c

-----------------------------------------------------------------------------
(* The model of the search and the list it stands for.                      *)

\* The model m, with the batch merged, is the list p in the order of the weights.
Fits(E, m, p) ==
  /\ m \in Models(E) /\ p \in Seq(E)
  /\ Sorted(m.data) /\ (m.depth = 0 => m.batch = <<>>)
  /\ InPlace(p, m.data \o m.batch)

\* Without a batch the list is the data.
LEMMA FitsUnseen ==
  ASSUME NEW E, Weighted(E), NEW m, NEW p, Fits(E, m, p), m.depth = 0
  PROVE  m.data = p /\ m.batch = <<>> /\ m.data \in Seq(E)
  <1>1. m.data \in Seq(E) /\ m.batch = <<>> /\ Sorted(m.data) /\ p \in Seq(E)
    BY DEF Fits, Models
  <1>2. m.data \o m.batch = m.data
    BY <1>1, ConcatEmptySeq
  <1>3. InPlace(p, m.data) /\ InPlace(m.data, m.data)
    BY <1>1, <1>2, SortedInPlace DEF Fits
  <1>4. p = m.data
    BY <1>1, <1>3, InPlaceOnce
  <1> QED BY <1>1, <1>4

\* A sorted list without a batch.
LEMMA FitsSorted ==
  ASSUME NEW E, Weighted(E), NEW m \in Models(E), Sorted(m.data), m.batch = <<>>
  PROVE  Fits(E, m, m.data)
  <1>1. m.data \in Seq(E) /\ m.batch = <<>>
    BY DEF Models
  <1>2. m.data \o m.batch = m.data
    BY <1>1, ConcatEmptySeq
  <1>3. InPlace(m.data, m.data)
    BY <1>1, SortedInPlace
  <1> QED BY <1>1, <1>2, <1>3 DEF Fits

\* A batch is opened.
LEMMA FitsBegin ==
  ASSUME NEW E, NEW m, NEW p, Fits(E, m, p)
  PROVE  Fits(E, BeginBatch(m), p)
  <1>1. /\ BeginBatch(m) \in Models(E) /\ BeginBatch(m).depth # 0
        /\ BeginBatch(m).data = m.data /\ BeginBatch(m).batch = m.batch
    BY DEF Fits, Models, BeginBatch
  <1> QED BY <1>1 DEF Fits

\* A batch is closed.
LEMMA FitsEnd ==
  ASSUME NEW E, Weighted(E), NEW m, NEW p, Fits(E, m, p), m.depth = 1
  PROVE  Fits(E, EndBatch(m), p)
  <1> DEFINE s == StableSorted(m.batch)
             r == Merged(m.data, s)
  <1>1. m.data \in Seq(E) /\ m.batch \in Seq(E) /\ Sorted(m.data) /\ p \in Seq(E)
    BY DEF Fits, Models
  <1>2. <<>> \in Seq(E) /\ Sorted(<<>>)
    BY DEF Sorted
  <1>3. s \in Seq(E) /\ InPlace(s, m.batch)
    <2>1. InPlace(<<>>, <<>>)
      BY <1>2, SortedInPlace
    <2>2. InPlace(AllPlaced(<<>>, m.batch), <<>> \o m.batch)
      BY <1>1, <1>2, <2>1, AllPlacedInPlace
    <2>3. <<>> \o m.batch = m.batch
      BY <1>1, ConcatEmptySeq
    <2> QED BY <1>1, <1>2, <2>2, <2>3, AllPlacedType DEF StableSorted
  <1> HIDE DEF s
  <1>4. r \in Seq(E) /\ InPlace(r, m.data \o m.batch)
    BY <1>1, <1>3, MergedInPlace
  <1> HIDE DEF r
  <1>5. m.data \o m.batch \in Seq(E)
    BY <1>1, ConcatProperties
  <1>6. Sorted(r)
    BY <1>4, <1>5, InPlaceSorted
  <1>7. p = r
    BY <1>1, <1>4, <1>5, InPlaceOnce DEF Fits
  <1> DEFINE e == EndBatch(m)
  <1>8. e = [data |-> r, batch |-> <<>>, depth |-> 0]
    BY DEF EndBatch, s, r
  <1>9. e \in Models(E) /\ e.data = r /\ e.batch = <<>>
    BY <1>2, <1>4, <1>8 DEF Models
  <1> HIDE DEF e
  <1>10. Fits(E, e, e.data)
    BY <1>6, <1>9, FitsSorted
  <1> QED BY <1>7, <1>9, <1>10 DEF e

\* Entries added while no batch is open, and while one is.
LEMMA AddSearchDataResult ==
  ASSUME NEW E, NEW m \in Models(E), NEW es \in Seq(E)
  PROVE  AddSearchData(m, es) =
           IF m.depth = 0 THEN [m EXCEPT !.data = AllPlaced(m.data, es)]
           ELSE [m EXCEPT !.batch = m.batch \o es]
  <1> DEFINE N == Len(es)
             V == {v \in Models(E) : v.depth = m.depth}
  <1>1. N \in Nat /\ \A d \in 1..N : es[d] \in E /\ d \in 0..N /\ d - 1 \in 0..N
    OBVIOUS
  <1>2. m.data \in Seq(E) /\ m.batch \in Seq(E) /\ m.depth \in Nat
    BY DEF Models
  <1>3. PICK h \in [0..N -> V] : AddsAll(h, m, es)
    BY AddSearchDataSteps
  <1>4. PICK f \in [0..N -> Seq(E)] : PutsAll(f, m.data, es)
    BY <1>2, AllPlacedSteps
  <1>5. PICK P \in [0..N -> Seq(E)] : Grows(P, m.batch, es)
    BY <1>2, GrownLists
  <1>6. /\ h[0] = m /\ AddSearchData(m, es) = h[N]
        /\ \A d \in 1..N : h[d] = AddEntry(h[d - 1], es[d])
    BY <1>3 DEF AddsAll
  <1>7. /\ f[0] = m.data /\ AllPlaced(m.data, es) = f[N]
        /\ \A d \in 1..N : f[d] = Placed(f[d - 1], es[d])
    BY <1>4 DEF PutsAll
  <1>8. /\ P[0] = m.batch /\ P[N] = m.batch \o es
        /\ \A d \in 1..N : P[d] = Append(P[d - 1], es[d])
    BY <1>5 DEF Grows
  <1>9. \A d \in 0..N : h[d] \in Models(E) /\ h[d].depth = m.depth
    BY <1>1
  <1> DEFINE Good(d) == IF m.depth = 0 THEN h[d].data = f[d] /\ h[d].batch = m.batch
                        ELSE h[d].data = m.data /\ h[d].batch = P[d]
             T == {d \in 0..N : Good(d)}
  <1> HIDE DEF N
  <1>10. 0 \in T
    BY <1>1, <1>6, <1>7, <1>8
  <1>11. ASSUME NEW d \in 1..N, d - 1 \in T
         PROVE  d \in T
    <2> DEFINE v == h[d - 1]
    <2>1. v \in Models(E) /\ v.depth = m.depth /\ Good(d - 1) /\ d \in 0..N /\ h[d] = AddEntry(v, es[d])
      BY <1>1, <1>6, <1>9, <1>11
    <2>2. f[d] = Placed(f[d - 1], es[d]) /\ P[d] = Append(P[d - 1], es[d])
      BY <1>7, <1>8
    <2> HIDE DEF v
    <2>3. IF m.depth = 0 THEN h[d].data = Placed(v.data, es[d]) /\ h[d].batch = v.batch
          ELSE h[d].data = v.data /\ h[d].batch = Append(v.batch, es[d])
      BY <1>2, <2>1, SMTT(30) DEF AddEntry, Models
    <2>4. Good(d)
      BY <2>1, <2>2, <2>3 DEF v
    <2> QED BY <2>1, <2>4
  <1>12. Good(N)
    <2> HIDE DEF T
    <2>1. \A d \in 0..N : d \in T
      BY <1>1, <1>10, <1>11, StepInduction
    <2>2. N \in T
      BY <1>1, <2>1
    <2> QED BY <2>2 DEF T
  <1> DEFINE w == h[N]
  <1>13. w \in Models(E) /\ w.depth = m.depth
    BY <1>1, <1>9
  <1>14. IF m.depth = 0 THEN w.data = AllPlaced(m.data, es) /\ w.batch = m.batch
         ELSE w.data = m.data /\ w.batch = m.batch \o es
    BY <1>7, <1>8, <1>12
  <1> HIDE DEF w
  <1>15. AddSearchData(m, es) = w
    BY <1>6 DEF w
  <1> QED BY <1>13, <1>14, <1>15 DEF Models

\* Entries are added.
LEMMA FitsAdd ==
  ASSUME NEW E, Weighted(E), NEW m, NEW p, Fits(E, m, p), NEW es \in Seq(E)
  PROVE  Fits(E, AddSearchData(m, es), AllPlaced(p, es))
  <1> DEFINE d == m.data
             b == m.batch
             e == AddSearchData(m, es)
             q == AllPlaced(p, es)
  <1>1. m \in Models(E) /\ d \in Seq(E) /\ b \in Seq(E) /\ Sorted(d) /\ p \in Seq(E) /\ InPlace(p, d \o b)
    BY DEF Fits, Models
  <1>2. e = IF m.depth = 0 THEN [m EXCEPT !.data = AllPlaced(d, es)] ELSE [m EXCEPT !.batch = b \o es]
    BY <1>1, AddSearchDataResult
  <1>3. q \in Seq(E)
    BY <1>1, AllPlacedType
  <1>4. CASE m.depth = 0
    <2>1. d = p /\ b = <<>>
      BY <1>4, FitsUnseen
    <2>2. e \in Models(E) /\ e.data = q /\ e.batch = <<>>
      BY <1>1, <1>2, <1>3, <1>4, <2>1 DEF Models
    <2>3. InPlace(d, d)
      BY <1>1, SortedInPlace
    <2>4. InPlace(q, d \o es) /\ d \o es \in Seq(E)
      BY <1>1, <2>1, <2>3, AllPlacedInPlace, ConcatProperties
    <2>5. Sorted(q)
      BY <1>3, <2>4, InPlaceSorted
    <2> HIDE DEF e, q
    <2> QED BY <2>2, <2>5, FitsSorted DEF e, q
  <1>5. CASE m.depth # 0
    <2>1. b \o es \in Seq(E)
      BY <1>1, ConcatProperties
    <2>2. e \in Models(E) /\ e.data = d /\ e.batch = b \o es /\ e.depth # 0
      BY <1>1, <1>2, <1>5, <2>1 DEF Models
    <2>3. d \o b \in Seq(E)
      BY <1>1, ConcatProperties
    <2>4. InPlace(q, (d \o b) \o es)
      BY <1>1, <2>3, AllPlacedInPlace
    <2>5. (d \o b) \o es = d \o (b \o es)
      <3>1. \A u, v, w \in Seq(E) : (u \o v) \o w = u \o (v \o w)
        BY ConcatAssociative
      <3> HIDE DEF d, b
      <3> QED BY <1>1, <3>1
    <2> QED BY <1>1, <1>3, <2>2, <2>4, <2>5 DEF Fits
  <1> QED BY <1>4, <1>5

\* A sorted list stays sorted when entries are taken out.
LEMMA WithoutSorted ==
  ASSUME NEW E, NEW d \in Seq(E), Sorted(d), NEW objs
  PROVE  Without(d, objs) \in Seq(E) /\ Sorted(Without(d, objs))
  <1> DEFINE P == {i \in DOMAIN d : d[i].obj \notin objs}
             r == Kept(d, P)
  <1>1. P \subseteq 1..Len(d) /\ Len(d) \in Nat /\ DOMAIN d = 1..Len(d)
    OBVIOUS
  <1>2. Without(d, objs) = r
    BY DEF Without
  <1> HIDE DEF P
  <1>3. r \in Seq(E) /\ \E idx : Selects(idx, r, d, P)
    BY <1>1, KeptFacts
  <1>4. PICK idx : Selects(idx, r, d, P)
    BY <1>3
  <1> HIDE DEF r
  <1>5. ASSUME NEW j \in 1..Len(r), NEW k \in 1..Len(r), j < k
        PROVE  ~WeightLessThan(r[k].weight, r[j].weight)
    <2>1. /\ idx[j] \in 1..Len(d) /\ idx[k] \in 1..Len(d) /\ idx[j] < idx[k]
          /\ r[j] = d[idx[j]] /\ r[k] = d[idx[k]]
      BY <1>1, <1>4, <1>5 DEF Selects
    <2> QED BY <1>1, <2>1 DEF Sorted
  <1>6. DOMAIN r = 1..Len(r)
    BY <1>3
  <1> QED BY <1>2, <1>3, <1>5, <1>6 DEF Sorted

\* Entries are taken out while no batch is open.
LEMMA FitsDrop ==
  ASSUME NEW E, Weighted(E), NEW m, NEW p, Fits(E, m, p), m.depth = 0, NEW objs
  PROVE  Fits(E, RemoveSearchData(m, objs), Without(p, objs)) /\ RemoveSearchData(m, objs).depth = 0
  <1> DEFINE e == RemoveSearchData(m, objs)
             q == Without(p, objs)
  <1>1. m.data = p /\ m.batch = <<>> /\ p \in Seq(E) /\ Sorted(p) /\ m \in Models(E)
    BY FitsUnseen DEF Fits
  <1>2. q \in Seq(E) /\ Sorted(q)
    BY <1>1, WithoutSorted
  <1>3. Without(<<>>, objs) = <<>>
    <2> DEFINE P == {i \in DOMAIN <<>> : <<>>[i].obj \notin objs}
    <2>1. P = {} /\ <<>> \in Seq(E) /\ P \subseteq 1..Len(<<>>)
      OBVIOUS
    <2>2. Without(<<>>, objs) = Kept(<<>>, P)
      BY DEF Without
    <2> HIDE DEF P
    <2>3. Cardinality(P) = 0
      BY <2>1, FS_EmptySet
    <2>4. Kept(<<>>, P) = <<>>
      BY <2>3 DEF Kept
    <2> QED BY <2>2, <2>4
  <1>4. e \in Models(E) /\ e.data = q /\ e.batch = <<>> /\ e.depth = 0
    BY <1>1, <1>2, <1>3 DEF RemoveSearchData, Models
  <1> HIDE DEF e, q
  <1> QED BY <1>2, <1>4, FitsSorted DEF e, q

-----------------------------------------------------------------------------
(* Which objects a list of entries has.                                     *)

\* A list of entries has one of an object; it has at most one of it.
Has(s, o) == \E i \in 1..Len(s) : s[i].obj = o
Once(s, o) == \A i, j \in 1..Len(s) : s[i].obj = o /\ s[j].obj = o => i = j

\* Putting a list in order changes neither.
LEMMA InPlaceHas ==
  ASSUME NEW E, Weighted(E), NEW c \in Seq(E), NEW r \in Seq(E), InPlace(r, c), NEW o
  PROVE  (Has(r, o) <=> Has(c, o)) /\ (Once(r, o) <=> Once(c, o))
  <1>1. /\ Len(r) = Len(c) /\ \A i \in 1..Len(c) : r[Place(c, i)] = c[i]
    BY DEF InPlace
  <1>2. /\ \A i \in 1..Len(c) : Place(c, i) \in 1..Len(c)
        /\ \A i, j \in 1..Len(c) : Place(c, i) = Place(c, j) => i = j
        /\ \A k \in 1..Len(c) : \E i \in 1..Len(c) : Place(c, i) = k
    BY PlaceFacts
  <1>3. PICK f : f = [i \in 1..Len(c) |-> Place(c, i)]
    OBVIOUS
  <1>4. /\ \A i \in 1..Len(c) : f[i] \in 1..Len(c) /\ r[f[i]] = c[i]
        /\ \A i, j \in 1..Len(c) : f[i] = f[j] => i = j
        /\ \A k \in 1..Len(c) : \E i \in 1..Len(c) : f[i] = k
    BY <1>1, <1>2, <1>3
  <1> DEFINE n == Len(c)
             R(k) == r[k].obj = o
             C(i) == c[i].obj = o
  <1>a. /\ \A i \in 1..n : f[i] \in 1..n /\ (R(f[i]) <=> C(i))
        /\ \A i, j \in 1..n : f[i] = f[j] => i = j
        /\ \A k \in 1..n : \E i \in 1..n : f[i] = k
    BY <1>4
  <1>b. /\ Has(r, o) <=> \E k \in 1..n : R(k)
        /\ Has(c, o) <=> \E i \in 1..n : C(i)
        /\ Once(r, o) <=> \A k, l \in 1..n : R(k) /\ R(l) => k = l
        /\ Once(c, o) <=> \A i, j \in 1..n : C(i) /\ C(j) => i = j
    BY <1>1 DEF Has, Once
  <1> HIDE DEF n, R, C
  <1>5. Has(r, o) <=> Has(c, o)
    <2>1. ASSUME NEW k \in 1..n, R(k)
          PROVE  \E i \in 1..n : C(i)
      <3>1. PICK i \in 1..n : f[i] = k
        BY <1>a
      <3> QED BY <1>a, <2>1, <3>1
    <2>2. ASSUME NEW i \in 1..n, C(i)
          PROVE  \E k \in 1..n : R(k)
      <3>1. f[i] \in 1..n /\ R(f[i])
        BY <1>a, <2>2
      <3> QED BY <3>1
    <2> QED BY <1>b, <2>1, <2>2
  <1>6. Once(r, o) => Once(c, o)
    <2>1. ASSUME \A k, l \in 1..n : R(k) /\ R(l) => k = l, NEW i \in 1..n, NEW j \in 1..n, C(i), C(j)
          PROVE  i = j
      <3>1. f[i] \in 1..n /\ f[j] \in 1..n /\ R(f[i]) /\ R(f[j])
        BY <1>a, <2>1
      <3> QED BY <1>a, <2>1, <3>1
    <2> QED BY <1>b, <2>1
  <1>7. ASSUME \A i, j \in 1..n : C(i) /\ C(j) => i = j, NEW k \in 1..n, NEW l \in 1..n, R(k), R(l)
        PROVE  k = l
    <2>1. PICK i \in 1..n : f[i] = k
      BY <1>a
    <2>2. PICK j \in 1..n : f[j] = l
      BY <1>a
    <2>3. C(i) /\ C(j)
      BY <1>a, <1>7, <2>1, <2>2
    <2> QED BY <1>7, <2>1, <2>2, <2>3
  <1>8. Once(c, o) => Once(r, o)
    BY <1>b, <1>7
  <1> QED BY <1>5, <1>6, <1>8

\* One list behind another.
LEMMA ConcatHas ==
  ASSUME NEW E, NEW s \in Seq(E), NEW t \in Seq(E), NEW o
  PROVE  /\ Has(s \o t, o) <=> Has(s, o) \/ Has(t, o)
         /\ Once(s, o) /\ ~Has(t, o) => Once(s \o t, o)
         /\ Once(t, o) /\ ~Has(s, o) => Once(s \o t, o)
  <1> DEFINE c == s \o t
             m == Len(s)
             n == Len(t)
  <1>1. /\ m \in Nat /\ n \in Nat /\ Len(c) = m + n
        /\ \A i \in 1..m : c[i] = s[i]
        /\ \A i \in 1..n : c[m + i] = t[i]
    OBVIOUS
  <1> HIDE DEF c, m, n
  <1>2. /\ \A i \in 1..(m + n) : i \in 1..m \/ (i - m \in 1..n /\ c[i] = t[i - m])
        /\ \A i \in 1..m : i \in 1..(m + n)
        /\ \A i \in 1..n : m + i \in 1..(m + n)
    <2>1. ASSUME NEW i \in 1..(m + n), i \notin 1..m
          PROVE  i - m \in 1..n /\ c[i] = t[i - m]
      <3>1. i - m \in 1..n /\ m + (i - m) = i
        BY <1>1, <2>1
      <3> QED BY <1>1, <3>1
    <2> QED BY <1>1, <2>1
  <1>3. Has(c, o) <=> Has(s, o) \/ Has(t, o)
    <2>1. ASSUME NEW i \in 1..(m + n), c[i].obj = o
          PROVE  (\E k \in 1..m : s[k].obj = o) \/ \E k \in 1..n : t[k].obj = o
      <3>1. CASE i \in 1..m
        BY <1>1, <2>1, <3>1
      <3>2. CASE i \notin 1..m
        <4>1. i - m \in 1..n /\ t[i - m].obj = o
          BY <1>2, <2>1, <3>2
        <4> QED BY <4>1
      <3> QED BY <3>1, <3>2
    <2>2. ASSUME NEW i \in 1..m, s[i].obj = o
          PROVE  \E k \in 1..(m + n) : c[k].obj = o
      <3>1. i \in 1..(m + n) /\ c[i].obj = o
        BY <1>1, <1>2, <2>2
      <3> QED BY <3>1
    <2>3. ASSUME NEW i \in 1..n, t[i].obj = o
          PROVE  \E k \in 1..(m + n) : c[k].obj = o
      <3>1. m + i \in 1..(m + n) /\ c[m + i].obj = o
        BY <1>1, <1>2, <2>3
      <3> QED BY <3>1
    <2>4. Has(c, o) <=> \E i \in 1..(m + n) : c[i].obj = o
      BY <1>1 DEF Has
    <2>5. (Has(s, o) <=> \E i \in 1..m : s[i].obj = o) /\ (Has(t, o) <=> \E i \in 1..n : t[i].obj = o)
      BY DEF Has, m, n
    <2> QED BY <2>1, <2>2, <2>3, <2>4, <2>5
  <1>4. ASSUME Once(s, o), ~Has(t, o)
        PROVE  Once(c, o)
    <2>1. \A i \in 1..(m + n) : c[i].obj = o => i \in 1..m /\ s[i].obj = o
      BY <1>1, <1>2, <1>4 DEF Has, n
    <2> QED BY <1>1, <1>4, <2>1 DEF Once, m
  <1>5. ASSUME Once(t, o), ~Has(s, o)
        PROVE  Once(c, o)
    <2>1. \A i \in 1..(m + n) : c[i].obj = o => i - m \in 1..n /\ t[i - m].obj = o
      BY <1>1, <1>2, <1>5 DEF Has, m
    <2>2. \A i, j \in 1..(m + n) : i - m = j - m => i = j
      BY <1>1
    <2> QED BY <1>1, <1>5, <2>1, <2>2 DEF Once, n
  <1> QED BY <1>3, <1>4, <1>5 DEF c

\* Entries put into the list that a search stands for.
LEMMA AllPlacedHas ==
  ASSUME NEW E, Weighted(E), NEW m, NEW p, Fits(E, m, p), NEW es \in Seq(E), NEW o
  PROVE  /\ Has(AllPlaced(p, es), o) <=> Has(p, o) \/ Has(es, o)
         /\ Once(p, o) /\ ~Has(es, o) => Once(AllPlaced(p, es), o)
         /\ Once(es, o) /\ ~Has(p, o) => Once(AllPlaced(p, es), o)
  <1>1. PICK c \in Seq(E) : p \in Seq(E) /\ InPlace(p, c)
    <2>1. m.data \in Seq(E) /\ m.batch \in Seq(E)
      BY DEF Fits, Models
    <2>2. m.data \o m.batch \in Seq(E)
      BY <2>1, ConcatProperties
    <2> QED BY <2>2 DEF Fits
  <1>2. /\ AllPlaced(p, es) \in Seq(E) /\ c \o es \in Seq(E) /\ InPlace(AllPlaced(p, es), c \o es)
    BY <1>1, AllPlacedType, AllPlacedInPlace, ConcatProperties
  <1>3. /\ Has(AllPlaced(p, es), o) <=> Has(c \o es, o)
        /\ Once(AllPlaced(p, es), o) <=> Once(c \o es, o)
        /\ (Has(p, o) <=> Has(c, o)) /\ (Once(p, o) <=> Once(c, o))
    BY <1>1, <1>2, InPlaceHas
  <1>4. /\ Has(c \o es, o) <=> Has(c, o) \/ Has(es, o)
        /\ Once(c, o) /\ ~Has(es, o) => Once(c \o es, o)
        /\ Once(es, o) /\ ~Has(c, o) => Once(c \o es, o)
    BY <1>1, ConcatHas
  <1> QED BY <1>3, <1>4

\* Entries taken out.
LEMMA WithoutHas ==
  ASSUME NEW E, NEW p \in Seq(E), NEW objs, NEW o
  PROVE  /\ Without(p, objs) \in Seq(E)
         /\ Has(Without(p, objs), o) <=> Has(p, o) /\ o \notin objs
         /\ Once(p, o) => Once(Without(p, objs), o)
  <1> DEFINE P == {i \in DOMAIN p : p[i].obj \notin objs}
             r == Without(p, objs)
  <1>1. r = Kept(p, P) /\ P \subseteq 1..Len(p)
    BY DEF Without
  <1>2. r \in Seq(E) /\ \E idx : Selects(idx, r, p, P)
    <2> HIDE DEF P
    <2> QED BY <1>1, KeptFacts
  <1>3. PICK idx : Selects(idx, r, p, P)
    BY <1>2
  <1>4. \A i : i \in P <=> i \in 1..Len(p) /\ p[i].obj \notin objs
    OBVIOUS
  <1>5. Len(r) \in Nat
    BY <1>2
  <1> HIDE DEF P, r
  <1>6. /\ \A k \in 1..Len(r) : idx[k] \in 1..Len(p) /\ r[k] = p[idx[k]] /\ r[k].obj \notin objs
        /\ \A i \in 1..Len(p) : p[i].obj \notin objs => \E k \in 1..Len(r) : idx[k] = i
        /\ \A j, k \in 1..Len(r) : idx[j] = idx[k] => j = k
    <2>1. \A k \in 1..Len(r) : idx[k] \in P /\ r[k] = p[idx[k]]
      BY <1>3 DEF Selects
    <2>2. \A j, k \in 1..Len(r) : j < k => idx[j] < idx[k]
      BY <1>3 DEF Selects
    <2>3. \A i \in P : \E k \in 1..Len(r) : idx[k] = i
      BY <1>3 DEF Selects
    <2>4. \A j, k \in 1..Len(r) : idx[j] = idx[k] => j = k
      <3>1. \A j, k \in 1..Len(r) : j < k \/ k < j \/ j = k
        BY <1>5
      <3>2. \A k \in 1..Len(r) : idx[k] \in Nat
        BY <1>4, <2>1
      <3> QED BY <2>2, <3>1, <3>2
    <2> QED BY <1>4, <2>1, <2>3, <2>4
  <1>7. Has(r, o) <=> Has(p, o) /\ o \notin objs
    <2>1. ASSUME Has(r, o) PROVE Has(p, o) /\ o \notin objs
      <3>1. PICK k \in 1..Len(r) : r[k].obj = o
        BY <2>1 DEF Has
      <3> QED BY <1>6, <3>1 DEF Has
    <2>2. ASSUME Has(p, o), o \notin objs PROVE Has(r, o)
      <3>1. PICK i \in 1..Len(p) : p[i].obj = o
        BY <2>2 DEF Has
      <3>2. PICK k \in 1..Len(r) : idx[k] = i
        BY <1>6, <2>2, <3>1
      <3> QED BY <1>6, <3>1, <3>2 DEF Has
    <2> QED BY <2>1, <2>2
  <1>8. Once(p, o) => Once(r, o)
    BY <1>6 DEF Once
  <1> QED BY <1>2, <1>7, <1>8 DEF r

-----------------------------------------------------------------------------
(* Trees.                                                                   *)

Trees == [kids : [Nodes -> Seq(Objects)], up : [Objects -> Nodes \cup {None}],
          rec : [Objects -> Nodes \cup {None}]]

\* Lists and parents of a tree agree.
Agree(t) ==
  \A n \in Nodes : Distinct(t.kids[n]) /\ \A o \in Objects : Occurs(t.kids[n], o) <=> t.up[o] = n

\* The lists of a tree are in the order of the weights w.
InWeight(t, w) == \A n \in Nodes : InOrder(t.kids[n], w)

-----------------------------------------------------------------------------
(* Changes of a tree.                                                       *)

\* The nodes, apart from each other.
LEMMA NodeFacts ==
  /\ Objects \subseteq Nodes /\ Root \in Nodes /\ Hide \in Nodes /\ NoAdd \in Nodes /\ NoParent \in Nodes
  /\ Root \notin Objects /\ Hide \notin Objects /\ NoAdd \notin Objects /\ NoParent \notin Objects
  /\ None \notin Nodes
  /\ Root # Hide /\ Root # NoAdd /\ Root # NoParent /\ Hide # NoAdd /\ Hide # NoParent /\ NoAdd # NoParent
  <1>1. Own = {Root, Hide} \cup {NoAdd, NoParent} /\ Cardinality(Own) = 4
    BY DistinctNodes DEF Own
  <1>2. \A x, y : IsFiniteSet({x, y}) /\ Cardinality({x, y}) \in 0..2 /\ (x = y => Cardinality({x, y}) = 1)
    <2> TAKE x, y
    <2>1. IsFiniteSet({x}) /\ Cardinality({x}) = 1
      BY FS_Singleton
    <2>2. {x, y} = {x} \cup {y}
      OBVIOUS
    <2>3. /\ IsFiniteSet({x} \cup {y})
          /\ Cardinality({x} \cup {y}) = IF y \in {x} THEN Cardinality({x}) ELSE Cardinality({x}) + 1
      BY <2>1, FS_AddElement
    <2> QED BY <2>1, <2>2, <2>3
  <1>3. ASSUME NEW x, NEW y, NEW z, Own = {x, y, z}
        PROVE  FALSE
    <2> DEFINE A == {x, y}
    <2>1. IsFiniteSet(A) /\ Cardinality(A) \in 0..2 /\ Own = A \cup {z}
      BY <1>2, <1>3
    <2> HIDE DEF A
    <2>2. Cardinality(A \cup {z}) = IF z \in A THEN Cardinality(A) ELSE Cardinality(A) + 1
      BY <2>1, FS_AddElement
    <2> QED BY <1>1, <2>1, <2>2
  <1>4. \A x, y, z : Own # {x, y, z}
    BY <1>3
  <1>5. /\ Root # Hide /\ Root # NoAdd /\ Root # NoParent
        /\ Hide # NoAdd /\ Hide # NoParent /\ NoAdd # NoParent
    BY <1>4 DEF Own
  <1> QED BY <1>5, DistinctNodes DEF Own, Nodes

\* A list of one object.
LEMMA Single ==
  ASSUME NEW o \in Objects
  PROVE  <<o>> \in Seq(Objects) /\ Distinct(<<o>>) /\ \A x : Occurs(<<o>>, x) <=> x = o
  <1>1. Len(<<o>>) = 1 /\ <<o>>[1] = o /\ <<o>> \in Seq(Objects)
    OBVIOUS
  <1> QED BY <1>1 DEF Distinct, Occurs

\* addChild of an object that is in no list.
LEMMA AddChildNew ==
  ASSUME NEW t \in Trees, NEW n \in Nodes, NEW o \in Objects, NEW b \in BOOLEAN,
         weight \in [Objects -> Nat], Agree(t), InWeight(t, weight), t.up[o] = None
  PROVE  LET u == AddChild(t, n, o, b)
         IN /\ u \in Trees /\ Agree(u) /\ InWeight(u, weight)
            /\ u.up = [t.up EXCEPT ![o] = n]
            /\ u.rec = IF b THEN [t.rec EXCEPT ![o] = n] ELSE t.rec
            /\ \A m \in Nodes \ {n} : u.kids[m] = t.kids[m]
  <1> DEFINE s == t.kids[n]
             P == {i \in DOMAIN s : weight[s[i]] <= weight[o]}
             r == PutAt(s, 1 + Cardinality(P), o)
             u == AddChild(t, n, o, b)
  <1>1. /\ s \in Seq(Objects) /\ Distinct(s) /\ InOrder(s, weight) /\ ~Occurs(s, o)
        /\ Len(s) \in Nat /\ DOMAIN s = 1..Len(s)
        /\ \A i \in 1..Len(s) : s[i] \in Objects /\ weight[s[i]] \in Nat
    <2>1. s \in Seq(Objects) /\ t.up[o] # n
      BY NodeFacts DEF Trees
    <2>2. Distinct(s) /\ InOrder(s, weight) /\ ~Occurs(s, o)
      BY <2>1 DEF Agree, InWeight
    <2> HIDE DEF s
    <2> QED BY <2>1, <2>2
  <1>2. u = [kids |-> [t.kids EXCEPT ![n] = r],
             up   |-> [t.up EXCEPT ![o] = n],
             rec  |-> IF b THEN [t.rec EXCEPT ![o] = n] ELSE t.rec]
    <2>1. ~\E i \in DOMAIN s : s[i] = o
      BY <1>1 DEF Occurs
    <2> QED BY <2>1 DEF AddChild, InsertAt, PutAt
  <1>3. Cardinality(P) \in 0..Len(s) /\ P = 1..Cardinality(P)
    <2> HIDE DEF s
    <2>1. P \subseteq 1..Len(s) /\ \A i \in P : \A j \in 1..i : j \in P
      BY <1>1 DEF InOrder
    <2> HIDE DEF P
    <2> QED BY <1>1, <2>1, Initial
  <1>4. /\ r \in Seq(Objects) /\ Distinct(r)
        /\ \A x : Occurs(r, x) <=> Occurs(s, x) \/ x = o
        /\ InOrder(r, weight)
    <2> DEFINE i == 1 + Cardinality(P)
    <2>1. i \in 1..(Len(s) + 1)
      BY <1>1, <1>3
    <2>2. \A k \in 1..Len(s) : IF k < i THEN weight[s[k]] <= weight[o] ELSE weight[o] <= weight[s[k]]
      <3> HIDE DEF s
      <3>1. ASSUME NEW k \in 1..Len(s)
            PROVE  k < i <=> k \in P
        <4> HIDE DEF P
        <4> QED BY <1>1, <1>3
      <3> QED BY <1>1, <3>1
    <2> HIDE DEF s, i
    <2>3. /\ PutAt(s, i, o) \in Seq(Objects) /\ Distinct(PutAt(s, i, o))
          /\ \A x : Occurs(PutAt(s, i, o), x) <=> Occurs(s, x) \/ x = o
      BY <1>1, <2>1, InsertedMembers
    <2>4. InOrder(PutAt(s, i, o), weight)
      BY <1>1, <2>1, <2>2, InsertedInOrder
    <2> QED BY <2>3, <2>4 DEF i
  <1> HIDE DEF P, r, u
  <1>5. u.kids = [t.kids EXCEPT ![n] = r] /\ u.up = [t.up EXCEPT ![o] = n]
    BY <1>2
  <1>6. u \in Trees
    BY <1>2, <1>4, NodeFacts DEF Trees
  <1>7. \A m \in Nodes : u.kids[m] = IF m = n THEN r ELSE t.kids[m]
    BY <1>5 DEF Trees
  <1>8. \A x \in Objects : u.up[x] = IF x = o THEN n ELSE t.up[x]
    BY <1>5 DEF Trees
  <1>9. InWeight(u, weight)
    BY <1>4, <1>7 DEF InWeight
  <1>10. Agree(u)
    <2> SUFFICES ASSUME NEW m \in Nodes
                 PROVE  /\ Distinct(u.kids[m])
                        /\ \A x \in Objects : Occurs(u.kids[m], x) <=> u.up[x] = m
      BY DEF Agree
    <2>1. CASE m = n
      BY <1>4, <1>7, <1>8, <2>1 DEF Agree
    <2>2. CASE m # n
      BY <1>1, <1>7, <1>8, <2>2, NodeFacts DEF Agree
    <2> QED BY <2>1, <2>2
  <1>11. u.rec = IF b THEN [t.rec EXCEPT ![o] = n] ELSE t.rec
    BY <1>2
  <1> QED BY <1>5, <1>6, <1>7, <1>9, <1>10, <1>11 DEF u

\* addChild of an object that is in the list.
LEMMA AddChildThere ==
  ASSUME NEW t \in Trees, NEW n \in Nodes, NEW o \in Objects, NEW b \in BOOLEAN,
         Agree(t), t.up[o] = n
  PROVE  AddChild(t, n, o, b) = t
  <1>1. \E i \in DOMAIN t.kids[n] : t.kids[n][i] = o
    <2>1. Occurs(t.kids[n], o) /\ t.kids[n] \in Seq(Objects)
      BY DEF Agree, Trees
    <2> QED BY <2>1 DEF Occurs
  <1> QED BY <1>1 DEF AddChild

\* removeChild of an object that is not in the list.
LEMMA RemoveChildNotThere ==
  ASSUME NEW t \in Trees, NEW n \in Nodes, NEW o \in Objects, Agree(t), t.up[o] # n
  PROVE  RemoveChild(t, n, o) = t
  <1>1. ~\E i \in DOMAIN t.kids[n] : t.kids[n][i] = o
    <2>1. ~Occurs(t.kids[n], o) /\ t.kids[n] \in Seq(Objects)
      BY DEF Agree, Trees
    <2> QED BY <2>1 DEF Occurs
  <1> QED BY <1>1 DEF RemoveChild

\* removeChild of an object that is in the list.
LEMMA RemoveChildThere ==
  ASSUME NEW t \in Trees, NEW n \in Nodes, NEW o \in Objects, Agree(t), t.up[o] = n
  PROVE  LET u == RemoveChild(t, n, o)
         IN /\ u \in Trees /\ Agree(u) /\ \A w : InWeight(t, w) => InWeight(u, w)
            /\ u.up = [t.up EXCEPT ![o] = None]
            /\ u.rec = t.rec
            /\ \A m \in Nodes \ {n} : u.kids[m] = t.kids[m]
            /\ \A x : Occurs(u.kids[n], x) <=> Occurs(t.kids[n], x) /\ x # o
  <1> DEFINE s == t.kids[n]
             i == CHOOSE k \in DOMAIN s : s[k] = o
             r == TakenAt(s, i)
             u == RemoveChild(t, n, o)
  <1>1. s \in Seq(Objects) /\ Distinct(s) /\ \E k \in DOMAIN s : s[k] = o
    <2>1. s \in Seq(Objects) /\ Distinct(s) /\ Occurs(s, o)
      BY DEF Agree, Trees
    <2> HIDE DEF s
    <2> QED BY <2>1 DEF Occurs
  <1>2. i \in 1..Len(s) /\ s[i] = o
    <2> HIDE DEF s
    <2> QED BY <1>1
  <1>3. u = [t EXCEPT !.kids[n] = r, !.up[o] = None]
    BY <1>1 DEF RemoveChild, RemoveAt, TakenAt
  <1>4. /\ r \in Seq(Objects) /\ Distinct(r)
        /\ \A x : Occurs(r, x) <=> Occurs(s, x) /\ x # o
        /\ \A w : InOrder(s, w) => InOrder(r, w)
    <2> HIDE DEF s, i
    <2> QED BY <1>1, <1>2, RemovedMembers
  <1> HIDE DEF r, u
  <1>5. /\ u = [kids |-> u.kids, up |-> u.up, rec |-> u.rec]
        /\ u.kids = [t.kids EXCEPT ![n] = r] /\ u.up = [t.up EXCEPT ![o] = None] /\ u.rec = t.rec
    BY <1>3 DEF Trees
  <1>6. u \in Trees
    BY <1>4, <1>5 DEF Trees
  <1>7. \A m \in Nodes : u.kids[m] = IF m = n THEN r ELSE t.kids[m]
    BY <1>5 DEF Trees
  <1>8. \A x \in Objects : u.up[x] = IF x = o THEN None ELSE t.up[x]
    BY <1>5 DEF Trees
  <1>9. \A w : InWeight(t, w) => InWeight(u, w)
    BY <1>4, <1>7 DEF InWeight
  <1>10. Agree(u)
    <2> SUFFICES ASSUME NEW m \in Nodes
                 PROVE  /\ Distinct(u.kids[m])
                        /\ \A x \in Objects : Occurs(u.kids[m], x) <=> u.up[x] = m
      BY DEF Agree
    <2>1. CASE m = n
      BY <1>4, <1>7, <1>8, <2>1, NodeFacts DEF Agree
    <2>2. CASE m # n
      BY <1>7, <1>8, <2>2, NodeFacts DEF Agree
    <2> QED BY <2>1, <2>2
  <1> QED BY <1>4, <1>5, <1>6, <1>7, <1>9, <1>10 DEF u

\* removeObjectFromParent
LEMMA DetachFacts ==
  ASSUME NEW t \in Trees, NEW o \in Objects, Agree(t)
  PROVE  LET u == Detach(t, o)
         IN /\ u \in Trees /\ Agree(u) /\ \A w : InWeight(t, w) => InWeight(u, w)
            /\ u.up = [t.up EXCEPT ![o] = None]
            /\ u.rec = t.rec
            /\ \A m \in Nodes : t.up[o] # m => u.kids[m] = t.kids[m]
  <1>1. CASE t.up[o] = None
    <2>1. Detach(t, o) = t
      BY <1>1 DEF Detach
    <2>2. t.up = [t.up EXCEPT ![o] = None]
      BY <1>1 DEF Trees
    <2> QED BY <2>1, <2>2
  <1>2. CASE t.up[o] # None
    <2> DEFINE n == t.up[o]
               u == RemoveChild(t, n, o)
    <2>1. n \in Nodes
      BY <1>2 DEF Trees
    <2>2. /\ u \in Trees /\ Agree(u) /\ \A w : InWeight(t, w) => InWeight(u, w)
          /\ u.up = [t.up EXCEPT ![o] = None]
          /\ u.rec = t.rec
          /\ \A m \in Nodes \ {n} : u.kids[m] = t.kids[m]
      BY <2>1, RemoveChildThere
    <2>3. Detach(t, o) = u
      BY <1>2 DEF Detach
    <2> HIDE DEF u
    <2> QED BY <2>2, <2>3
  <1> QED BY <1>1, <1>2

\* ~Private
LEMMA EraseFacts ==
  ASSUME NEW t \in Trees, NEW o \in Objects, Agree(t)
  PROVE  LET u == Erase(t, o)
         IN /\ u \in Trees /\ Agree(u) /\ \A w : InWeight(t, w) => InWeight(u, w)
            /\ \A c \in Objects : u.up[c] = IF c = o \/ t.up[c] = o THEN None ELSE t.up[c]
            /\ \A c \in Objects : u.rec[c] = IF t.rec[c] = o THEN None ELSE t.rec[c]
            /\ u.kids[o] = <<>>
            /\ \A m \in Nodes \ {o} : t.up[o] # m => u.kids[m] = t.kids[m]
  <1> DEFINE d == Detach(t, o)
             u == Erase(t, o)
  <1>1. /\ d \in Trees /\ Agree(d) /\ \A w : InWeight(t, w) => InWeight(d, w)
        /\ d.up = [t.up EXCEPT ![o] = None] /\ d.rec = t.rec
        /\ \A m \in Nodes : t.up[o] # m => d.kids[m] = t.kids[m]
    BY DetachFacts
  <1>2. u = [kids |-> [d.kids EXCEPT ![o] = <<>>],
             up   |-> [c \in Objects |-> IF d.up[c] = o THEN None ELSE d.up[c]],
             rec  |-> [c \in Objects |-> IF d.rec[c] = o THEN None ELSE d.rec[c]]]
    BY DEF Erase
  <1> HIDE DEF d, u
  <1>3. /\ u \in Trees
        /\ \A c \in Objects : u.up[c] = IF d.up[c] = o THEN None ELSE d.up[c]
        /\ \A c \in Objects : u.rec[c] = IF d.rec[c] = o THEN None ELSE d.rec[c]
        /\ \A m \in Nodes : u.kids[m] = IF m = o THEN <<>> ELSE d.kids[m]
    BY <1>1, <1>2, NodeFacts DEF Trees
  <1>4. \A c \in Objects : d.up[c] = IF c = o THEN None ELSE t.up[c]
    BY <1>1 DEF Trees
  <1>5. Len(<<>>) = 0 /\ Distinct(<<>>) /\ \A w : InOrder(<<>>, w)
    BY DEF Distinct, InOrder
  <1>6. \A x : ~Occurs(<<>>, x)
    BY DEF Occurs
  <1>7. \A w : InWeight(t, w) => InWeight(u, w)
    BY <1>1, <1>3, <1>5 DEF InWeight
  <1>8. Agree(u)
    <2> SUFFICES ASSUME NEW m \in Nodes
                 PROVE  /\ Distinct(u.kids[m])
                        /\ \A x \in Objects : Occurs(u.kids[m], x) <=> u.up[x] = m
      BY DEF Agree
    <2>1. CASE m = o
      BY <1>3, <1>5, <1>6, <2>1, NodeFacts
    <2>2. CASE m # o
      BY <1>1, <1>3, <2>2, NodeFacts DEF Agree
    <2> QED BY <2>1, <2>2
  <1>9. \A c \in Objects : u.up[c] = IF c = o \/ t.up[c] = o THEN None ELSE t.up[c]
    BY <1>3, <1>4, NodeFacts
  <1>10. u.kids[o] = <<>> /\ \A m \in Nodes \ {o} : t.up[o] # m => u.kids[m] = t.kids[m]
    BY <1>1, <1>3, NodeFacts
  <1> QED BY <1>1, <1>3, <1>7, <1>8, <1>9, <1>10 DEF u

-----------------------------------------------------------------------------
(* The parent of an object.                                                 *)

\* The first element of a list that is in a set is in both.
LEMMA FirstInFacts ==
  ASSUME NEW S, NEW list \in Seq(S), NEW T
  PROVE  FirstIn(list, T) = None \/ (FirstIn(list, T) \in T /\ FirstIn(list, T) \in S)
  <1> DEFINE found == {i \in DOMAIN list : list[i] \in T}
  <1>1. CASE found = {}
    BY <1>1 DEF FirstIn
  <1>2. CASE found # {}
    <2>1. found \subseteq Nat /\ \A i \in found : list[i] \in T /\ list[i] \in S
      OBVIOUS
    <2>2. FirstIn(list, T) = list[CHOOSE i \in found : \A j \in found : i <= j]
      BY <1>2 DEF FirstIn
    <2> HIDE DEF found
    <2>3. \E i \in found : \A j \in found : i <= j
      BY <1>2, <2>1, NatLeast
    <2>4. (CHOOSE i \in found : \A j \in found : i <= j) \in found
      BY <2>3
    <2> QED BY <2>1, <2>2, <2>4
  <1> QED BY <1>1, <1>2

\* The ancestors of an object are in every set that holds the object and, with an object
\* that was not let go, its owner.
LEMMA AncestorsIn ==
  ASSUME NEW A, A \subseteq Objects, NEW o \in A,
         \A x \in A : Owner[x] = None \/ status[x] = "leaving" \/ Owner[x] \in A
  PROVE  Ancestors(o) \in Seq(A)
  <1> DEFINE N == Cardinality(Objects)
             X == Seq(A) \ {<<>>}
             Up(line) == LET last == line[Len(line)]
                         IN IF Owner[last] = None \/ status[last] = "leaving" THEN line
                            ELSE Append(line, Owner[last])
             G == [d \in 1..N |-> [line \in X |-> Up(line)]]
  <1>1. N \in Nat
    BY FinitelyMany, FS_CardinalityType
  <1>2. ASSUME NEW line \in X PROVE Up(line) \in X
    <2>1. line \in Seq(A) /\ Len(line) \in 1..Len(line)
      OBVIOUS
    <2>2. line[Len(line)] \in A
      BY <2>1
    <2> QED BY <2>1, <2>2, AppendProperties
  <1>3. G \in [1..N -> [X -> X]] /\ <<o>> \in X
    BY <1>2
  <1>4. \A d \in 1..N : \A line \in X : G[d][line] = Up(line)
    OBVIOUS
  <1> HIDE DEF N, X, Up, G
  <1>5. PICK h \in [0..N -> X] : Follows(h, N, <<o>>, G)
    BY <1>1, <1>3, RecursionExists
  <1> DEFINE Line(f) == [d \in 0..N |-> IF d = 0 THEN <<o>> ELSE Up(f[d - 1])]
  <1>6. \A f : f = Line(f) =>
                 f[0] = <<o>> /\ \A d \in 1..N : f[d] = Up(f[d - 1])
    <2> TAKE f
    <2> DEFINE g == Line(f)
    <2>1. g[0] = <<o>> /\ \A d \in 1..N : g[d] = Up(f[d - 1])
      BY <1>1
    <2> HIDE DEF Line
    <2> QED BY <2>1
  <1>7. \E f : f = Line(f)
    <2>1. h[0] = <<o>> /\ \A d \in 1..N : h[d] = Up(h[d - 1])
      <3>1. \A d \in 1..N : h[d - 1] \in X
        BY <1>1
      <3> QED BY <1>4, <1>5, <3>1 DEF Follows
    <2>2. \A d \in 0..N : h[d] = IF d = 0 THEN <<o>> ELSE Up(h[d - 1])
      <3>1. \A d \in 0..N : d # 0 => d \in 1..N
        BY <1>1
      <3> HIDE DEF Up
      <3> QED BY ONLY <2>1, <3>1
    <2>3. h = Line(h)
      BY <2>2
    <2> HIDE DEF Line
    <2> QED BY <2>3
  <1>8. Ancestors(o) = Tail((CHOOSE f : f = Line(f))[N])
    BY DEF Ancestors, N, Up
  <1> HIDE DEF Line
  <1> DEFINE f == CHOOSE f : f = Line(f)
  <1>9. f[0] = <<o>> /\ \A d \in 1..N : f[d] = Up(f[d - 1])
    <2>1. f = Line(f)
      BY <1>7
    <2> QED BY <1>6, <2>1
  <1> HIDE DEF f
  <1>10. f[N] \in X
    <2>1. f[0] \in X /\ \A d \in 1..N : f[d - 1] \in X => f[d] \in X
      BY <1>2, <1>3, <1>9
    <2>2. \A d \in 0..N : f[d] \in X
      BY <1>1, <2>1, RecursionType
    <2> QED BY <1>1, <2>2
  <1>11. Tail(f[N]) \in Seq(A)
    BY <1>10 DEF X
  <1> QED BY <1>8, <1>11 DEF f
\* findParent gives an object or the root of the name wanted, or nothing; the recommended
\* parent if its name fits.  It stays in every set of objects that holds the object, with
\* an object its owner, and what has arrived.
LEMMA FindParentFacts ==
  ASSUME NEW A, A \subseteq Objects, NEW o \in A,
         \A x \in A : Owner[x] = None \/ status[x] = "leaving" \/ Owner[x] \in A,
         NEW t \in Trees, NEW map \in Seq(A), t.rec[o] \in Objects => t.rec[o] \in A
  PROVE  LET p == FindParent(t, map, o)
         IN /\ p = None \/ (p \in Named(o) /\ p \in A \cup {Root})
            /\ t.rec[o] \in Named(o) => p = t.rec[o]
  <1> DEFINE above == FirstIn(Ancestors(o), Named(o))
             first == FirstIn(map, Named(o))
             p == FindParent(t, map, o)
  <1>1. above = None \/ (above \in Named(o) /\ above \in A)
    <2>1. Ancestors(o) \in Seq(A)
      BY AncestorsIn
    <2> QED BY <2>1, FirstInFacts
  <1>2. first = None \/ (first \in Named(o) /\ first \in A)
    BY FirstInFacts
  <1>3. t.rec[o] \in Named(o) => t.rec[o] \in A \cup {Root}
    BY DEF Named
  <1>4. p = CASE t.rec[o] \in Named(o) -> t.rec[o]
              [] t.rec[o] \notin Named(o) /\ above # None -> above
              [] OTHER -> IF Root \in Named(o) THEN Root ELSE first
    BY DEF FindParent
  <1> HIDE DEF above, first, p
  <1>5. CASE t.rec[o] \in Named(o)
    BY <1>3, <1>4, <1>5 DEF p
  <1>6. CASE t.rec[o] \notin Named(o) /\ above # None
    BY <1>1, <1>4, <1>6 DEF p
  <1>7. CASE t.rec[o] \notin Named(o) /\ above = None
    BY <1>2, <1>4, <1>7 DEF p
  <1> QED BY <1>5, <1>6, <1>7

\* Nothing that has arrived has the name an object wants its parent to have.
Homeless(map, o) == Root \notin Named(o) /\ \A i \in 1..Len(map) : map[i] \notin Named(o)

\* findParent fails only if the recommended parent, the root and what has arrived do not fit.
LEMMA FoundNone ==
  ASSUME NEW t \in Trees, NEW o \in Objects, NEW map \in Seq(Objects), FindParent(t, map, o) = None
  PROVE  t.rec[o] \notin Named(o) /\ Homeless(map, o)
  <1> DEFINE above == FirstIn(Ancestors(o), Named(o))
             first == FirstIn(map, Named(o))
             found == {i \in DOMAIN map : map[i] \in Named(o)}
  <1>1. Named(o) \subseteq Nodes /\ None \notin Nodes /\ Objects \subseteq Nodes /\ Root \in Nodes
    BY NodeFacts DEF Named
  <1>2. t.rec[o] \notin Named(o)
    <2>1. CASE t.rec[o] \in Named(o)
      <3>1. FindParent(t, map, o) = t.rec[o]
        BY <2>1 DEF FindParent
      <3> QED BY <1>1, <2>1, <3>1
    <2> QED BY <2>1
  <1>3. above = None
    <2>1. CASE above # None
      <3>1. FindParent(t, map, o) = above
        BY <1>2, <2>1 DEF FindParent
      <3> QED BY <2>1, <3>1
    <2> QED BY <2>1
  <1>4. FindParent(t, map, o) = IF Root \in Named(o) THEN Root ELSE first
    BY <1>2, <1>3 DEF FindParent
  <1>5. Root \notin Named(o) /\ first = None
    BY <1>1, <1>4
  <1>6. found = {}
    <2> SUFFICES ASSUME found # {} PROVE FALSE
      OBVIOUS
    <2>1. first = map[CHOOSE i \in found : \A j \in found : i <= j]
      BY DEF FirstIn
    <2>2. \E i \in found : \A j \in found : i <= j
      <3>1. found \subseteq Nat
        OBVIOUS
      <3> HIDE DEF found
      <3> QED BY <3>1, NatLeast
    <2>3. PICK k \in found : first = map[k]
      BY <2>1, <2>2
    <2>4. map[k] \in Named(o)
      BY <2>3
    <2> QED BY <1>1, <1>5, <2>3, <2>4
  <1>7. \A i \in 1..Len(map) : map[i] \notin Named(o)
    BY <1>6
  <1> QED BY <1>2, <1>5, <1>7 DEF Homeless

\* The same of a parent that is named, which is never the object itself.
LEMMA NamedFacts ==
  ASSUME NEW o \in Objects
  PROVE  /\ Named(o) \subseteq Objects \cup {Root} /\ o \notin Named(o)
         /\ ParentName[o] = None => Named(o) = {}
  BY NamesAssumption DEF Named

-----------------------------------------------------------------------------
(* What is below an object.                                                 *)

\* A list of lists as one list.
LEMMA FlattenFacts ==
  ASSUME NEW S, NEW n \in Nat, NEW ss \in [1..n -> Seq(S)]
  PROVE  /\ FlattenSeq(ss) \in Seq(S)
         /\ \A e : Occurs(FlattenSeq(ss), e) <=> \E i \in 1..n : Occurs(ss[i], e)
  <1>1. ss \in Seq(Seq(S)) /\ Len(ss) = n
    OBVIOUS
  <1>2. CASE n = 0
    <2>1. FlattenSeq(ss) = ss
      BY <1>1, <1>2 DEF FlattenSeq
    <2>2. ss = <<>>
      BY <1>1, <1>2
    <2>3. ss \in Seq(S) /\ Len(ss) = 0
      BY <2>2
    <2> QED BY <1>2, <2>1, <2>3 DEF Occurs
  <1>3. CASE n # 0
    <2>1. PICK N \in Nat : n = N + 1
      <3>1. n - 1 \in Nat /\ n = n - 1 + 1
        BY <1>3
      <3> QED BY <3>1
    <2> DEFINE f == CHOOSE f : Joins(f, N, ss)
    <2>2. ss \in [1..(N + 1) -> Seq(S)]
      BY <2>1
    <2>3. Joins(f, N, ss)
      BY <2>2, JoinExists
    <2>4. FlattenSeq(ss) = f[N + 1]
      BY <1>1, <1>3, <2>1 DEF FlattenSeq, Joins
    <2> HIDE DEF f
    <2>5. /\ f[N + 1] \in Seq(S)
          /\ \A e : Occurs(f[N + 1], e) <=> \E i \in 1..(N + 1) : Occurs(ss[i], e)
      BY <2>2, <2>3, JoinElements
    <2> QED BY <2>1, <2>4, <2>5
  <1> QED BY <1>2, <1>3
\* One level of the walk below an object.
Levels == [all : Seq(Objects), last : Seq(Objects)]

\* Lists made one have each element once if no two of them share one.
LEMMA FlattenDistinct ==
  ASSUME NEW S, NEW n \in Nat, NEW ss \in [1..n -> Seq(S)],
         \A i \in 1..n : Distinct(ss[i]),
         \A i, j \in 1..n : \A x : Occurs(ss[i], x) /\ Occurs(ss[j], x) => i = j
  PROVE  Distinct(FlattenSeq(ss))
  <1>1. ss \in Seq(Seq(S)) /\ Len(ss) = n
    OBVIOUS
  <1>2. CASE n = 0
    <2>1. FlattenSeq(ss) = ss /\ Len(ss) = 0
      BY <1>1, <1>2 DEF FlattenSeq
    <2> QED BY <2>1 DEF Distinct
  <1>3. CASE n # 0
    <2>1. PICK N \in Nat : n = N + 1
      <3>1. n - 1 \in Nat /\ n = n - 1 + 1
        BY <1>3
      <3> QED BY <3>1
    <2> DEFINE f == CHOOSE f : Joins(f, N, ss)
    <2>2. ss \in [1..(N + 1) -> Seq(S)]
      BY <2>1
    <2>3. Joins(f, N, ss)
      BY <2>2, JoinExists
    <2>4. FlattenSeq(ss) = f[N + 1]
      BY <1>1, <1>3, <2>1 DEF FlattenSeq, Joins
    <2> HIDE DEF f
    <2>5. Distinct(f[N + 1])
      BY <2>1, <2>2, <2>3, JoinDistinct
    <2> QED BY <2>4, <2>5
  <1> QED BY <1>2, <1>3

Wider(t, w) ==
  LET next == FlattenSeq([i \in 1..Len(w.last) |-> t.kids[w.last[i]]])
  IN [all |-> w.all \o next, last |-> next]

\* The next level is what hangs in the last one.
LEMMA WiderFacts ==
  ASSUME NEW t \in Trees, NEW w \in Levels
  PROVE  /\ Wider(t, w) \in Levels
         /\ \A x : Occurs(Wider(t, w).last, x) <=>
                   \E y \in Objects : Occurs(w.last, y) /\ Occurs(t.kids[y], x)
         /\ \A x : Occurs(Wider(t, w).all, x) <=> Occurs(w.all, x) \/ Occurs(Wider(t, w).last, x)
  <1> DEFINE n == Len(w.last)
             ss == [i \in 1..n |-> t.kids[w.last[i]]]
             next == FlattenSeq(ss)
  <1>1. w.last \in Seq(Objects) /\ w.all \in Seq(Objects) /\ n \in Nat
    BY DEF Levels
  <1>2. \A i \in 1..n : w.last[i] \in Objects /\ t.kids[w.last[i]] \in Seq(Objects)
    BY <1>1 DEF Trees, Nodes
  <1>3. ss \in [1..n -> Seq(Objects)] /\ \A i \in 1..n : ss[i] = t.kids[w.last[i]]
    BY <1>2
  <1>4. Wider(t, w) = [all |-> w.all \o next, last |-> next]
    BY DEF Wider
  <1>a. \A y : Occurs(w.last, y) <=> \E i \in 1..n : w.last[i] = y
    BY DEF Occurs
  <1> HIDE DEF n, ss
  <1>5. /\ next \in Seq(Objects)
        /\ \A e : Occurs(next, e) <=> \E i \in 1..n : Occurs(ss[i], e)
    BY <1>1, <1>3, FlattenFacts
  <1> HIDE DEF next
  <1>6. \A x : Occurs(w.all \o next, x) <=> Occurs(w.all, x) \/ Occurs(next, x)
    BY <1>1, <1>5, OccursInConcat
  <1>7. w.all \o next \in Seq(Objects)
    BY <1>1, <1>5, ConcatProperties
  <1>8. \A x : Occurs(next, x) <=> \E y \in Objects : Occurs(w.last, y) /\ Occurs(t.kids[y], x)
    BY <1>2, <1>3, <1>5, <1>a
  <1>9. Wider(t, w) \in Levels /\ Wider(t, w).all = w.all \o next /\ Wider(t, w).last = next
    BY <1>4, <1>5, <1>7 DEF Levels
  <1> QED BY <1>6, <1>8, <1>9

\* The walk that Subtree is the end of.
Walks(f, t, o) ==
  /\ \A d \in 0..Cardinality(Objects) : f[d] \in Levels
  /\ f[0] = [all |-> <<o>>, last |-> <<o>>]
  /\ \A d \in 1..Cardinality(Objects) : f[d] = Wider(t, f[d - 1])

\* Subtree is the end of a walk.
LEMMA WalkExists ==
  ASSUME NEW t \in Trees, NEW o \in Objects
  PROVE  \E f : Walks(f, t, o) /\ Subtree(t, o) = f[Cardinality(Objects)].all
  <1> DEFINE N == Cardinality(Objects)
             A == [all |-> <<o>>, last |-> <<o>>]
             G == [d \in 1..N |-> [w \in Levels |-> Wider(t, w)]]
             Line(f) == [d \in 0..N |-> IF d = 0 THEN A ELSE Wider(t, f[d - 1])]
  <1>1. N \in Nat /\ \A d \in 0..N : d # 0 => d \in 1..N
    BY FinitelyMany, FS_CardinalityType
  <1>2. G \in [1..N -> [Levels -> Levels]] /\ A \in Levels
    BY WiderFacts DEF Levels
  <1>3. \A d \in 1..N : \A w \in Levels : G[d][w] = Wider(t, w)
    OBVIOUS
  <1> HIDE DEF N, G
  <1>5. PICK h \in [0..N -> Levels] : Follows(h, N, A, G)
    <2> HIDE DEF A
    <2> QED BY <1>1, <1>2, RecursionExists
  <1> HIDE DEF A
  <1>6. \A f : f = Line(f) => f[0] = A /\ \A d \in 1..N : f[d] = Wider(t, f[d - 1])
    <2> TAKE f
    <2> DEFINE g == Line(f)
    <2>1. g[0] = A /\ \A d \in 1..N : g[d] = Wider(t, f[d - 1])
      BY <1>1
    <2> HIDE DEF Line
    <2> QED BY <2>1
  <1>7. \E f : f = Line(f)
    <2>1. h[0] = A /\ \A d \in 1..N : h[d] = Wider(t, h[d - 1])
      <3>1. \A d \in 1..N : h[d - 1] \in Levels
        BY <1>1
      <3> QED BY <1>3, <1>5, <3>1 DEF Follows
    <2>2. \A d \in 0..N : h[d] = IF d = 0 THEN A ELSE Wider(t, h[d - 1])
      BY ONLY <1>1, <2>1
    <2>3. h = Line(h)
      BY <2>2
    <2> HIDE DEF Line
    <2> QED BY <2>3
  <1>8. Subtree(t, o) = (CHOOSE f : f = Line(f))[N].all
    BY DEF Subtree, N, A, Wider
  <1> HIDE DEF Line
  <1> DEFINE f == CHOOSE f : f = Line(f)
  <1>9. f[0] = A /\ \A d \in 1..N : f[d] = Wider(t, f[d - 1])
    <2>1. f = Line(f)
      BY <1>7
    <2> QED BY <1>6, <2>1
  <1> HIDE DEF f
  <1>10. \A d \in 0..N : f[d] \in Levels
    <2>1. f[0] \in Levels /\ \A d \in 1..N : f[d - 1] \in Levels => f[d] \in Levels
      BY <1>2, <1>9, WiderFacts
    <2> QED BY <1>1, <2>1, RecursionType
  <1>11. Walks(f, t, o) /\ Subtree(t, o) = f[N].all
    <2>1. Subtree(t, o) = f[N].all
      BY <1>8 DEF f
    <2> QED BY <1>9, <1>10, <2>1 DEF Walks, A, N
  <1> QED BY <1>11 DEF N
\* With every object of a set, its children are in it.
KidsIn(t, A) == \A x \in A : \A c \in Objects : Occurs(t.kids[x], c) => c \in A

Below(t, o) == {x \in Objects : Occurs(Subtree(t, o), x)}

\* What is below an object, the object included: closed under children, nothing but the
\* object and children of its own, and in every set that is closed under children.  The
\* walk goes over as many levels as there are objects: a level that brings no new object
\* is followed by none that does, so it has seen everything by then.
LEMMA SubtreeFacts ==
  ASSUME NEW t \in Trees, NEW o \in Objects
  PROVE  /\ Subtree(t, o) \in Seq(Objects)
         /\ o \in Below(t, o)
         /\ KidsIn(t, Below(t, o))
         /\ \A x \in Below(t, o) : x = o \/ \E y \in Below(t, o) : Occurs(t.kids[y], x)
         /\ \A A \in SUBSET Objects : o \in A /\ KidsIn(t, A) => Below(t, o) \subseteq A
  <1> DEFINE N == Cardinality(Objects)
  <1>1. N \in Nat
    BY FinitelyMany, FS_CardinalityType
  <1>2. PICK f : Walks(f, t, o) /\ Subtree(t, o) = f[N].all
    BY WalkExists
  <1> DEFINE B(d) == {x \in Objects : Occurs(f[d].all, x)}
             L(d) == {x \in Objects : Occurs(f[d].last, x)}
             Kid(y, x) == Occurs(t.kids[y], x)
  <1>3. \A d \in 0..N : f[d] \in Levels
    BY <1>2 DEF Walks
  <1>4. B(0) = {o} /\ L(0) = {o}
    <2>1. f[0].all = <<o>> /\ f[0].last = <<o>>
      BY <1>2 DEF Walks
    <2>2. \A x : Occurs(<<o>>, x) <=> x = o
      BY DEF Occurs
    <2> QED BY <2>1, <2>2
  <1>5. ASSUME NEW d \in Nat, NEW e, e = d + 1, e <= N
        PROVE  /\ L(e) = {x \in Objects : \E y \in L(d) : Kid(y, x)}
               /\ B(e) = B(d) \cup L(e)
    <2>1. d \in 0..N /\ e \in 1..N /\ e - 1 = d
      BY <1>1, <1>5
    <2>2. f[e] = Wider(t, f[d]) /\ f[d] \in Levels
      BY <1>2, <1>3, <2>1 DEF Walks
    <2>3. /\ \A x : Occurs(f[e].last, x) <=> \E y \in Objects : Occurs(f[d].last, y) /\ Occurs(t.kids[y], x)
          /\ \A x : Occurs(f[e].all, x) <=> Occurs(f[d].all, x) \/ Occurs(f[e].last, x)
      BY <2>2, WiderFacts
    <2> QED BY <2>3
  <1>6. Below(t, o) = B(N) /\ \A d : B(d) \subseteq Objects /\ L(d) \subseteq Objects
    BY <1>2 DEF Below
  <1>7. \A y, x : Kid(y, x) <=> Occurs(t.kids[y], x)
    OBVIOUS
  <1> HIDE DEF B, L, Kid
  <1> DEFINE Closed(S) == \A y \in S : \A x \in Objects : Kid(y, x) => x \in S
             Seen(d) == d <= N =>
               /\ o \in B(d) /\ L(d) \subseteq B(d)
               /\ \A y \in B(d) : \A x \in Objects : Kid(y, x) => x \in B(d) \/ \E z \in L(d) : Kid(z, x)
               /\ \A x \in B(d) : x = o \/ \E y \in B(d) : Kid(y, x)
               /\ \A A \in SUBSET Objects : o \in A /\ Closed(A) => B(d) \subseteq A
               /\ Closed(B(d)) \/ Cardinality(B(d)) >= d + 1
  <1>8. \A d : IsFiniteSet(B(d)) /\ Cardinality(B(d)) \in 0..N
    BY <1>6, FinitelyMany, FS_Subset, FS_CardinalityType
  <1>9. Seen(0)
    <2>1. Cardinality({o}) = 1
      BY FS_Singleton
    <2> QED BY <1>4, <2>1
  <1>10. ASSUME NEW d \in Nat, Seen(d)
         PROVE  Seen(d + 1)
    <2> SUFFICES ASSUME NEW e, e = d + 1, e <= N
                 PROVE  Seen(e)
      OBVIOUS
    <2>1. /\ L(e) = {x \in Objects : \E y \in L(d) : Kid(y, x)}
          /\ B(e) = B(d) \cup L(e)
      BY <1>5
    <2>2. d <= N /\ e \in Nat
      BY <1>1
    <2>3. /\ o \in B(d) /\ L(d) \subseteq B(d)
          /\ \A y \in B(d) : \A x \in Objects : Kid(y, x) => x \in B(d) \/ \E z \in L(d) : Kid(z, x)
          /\ \A x \in B(d) : x = o \/ \E y \in B(d) : Kid(y, x)
          /\ \A A \in SUBSET Objects : o \in A /\ Closed(A) => B(d) \subseteq A
          /\ Closed(B(d)) \/ Cardinality(B(d)) >= d + 1
      BY <1>10, <2>2
    <2>4. o \in B(e) /\ L(e) \subseteq B(e)
      BY <2>1, <2>3
    <2>5. \A y \in B(e) : \A x \in Objects : Kid(y, x) => x \in B(e) \/ \E z \in L(e) : Kid(z, x)
      BY <2>1, <2>3
    <2>6. \A x \in B(e) : x = o \/ \E y \in B(e) : Kid(y, x)
      BY <2>1, <2>3
    <2>7. \A A \in SUBSET Objects : o \in A /\ Closed(A) => B(e) \subseteq A
      BY <2>1, <2>3
    <2>8. Closed(B(e)) \/ Cardinality(B(e)) >= e + 1
      <3>1. CASE L(e) \subseteq B(d)
        <4>1. B(e) = B(d)
          BY <2>1, <3>1
        <4>2. Closed(B(d))
          BY <2>1, <2>3, <3>1
        <4> QED BY <4>1, <4>2
      <3>2. CASE Closed(B(d))
        <4>1. L(e) \subseteq B(d)
          BY <2>1, <2>3, <3>2
        <4> QED BY <3>1, <4>1
      <3>3. CASE ~(L(e) \subseteq B(d)) /\ Cardinality(B(d)) >= d + 1
        <4>1. B(d) \in SUBSET B(e) /\ B(d) # B(e)
          BY <2>1, <3>3
        <4>2. Cardinality(B(d)) <= Cardinality(B(e)) /\ Cardinality(B(d)) # Cardinality(B(e))
          BY <1>8, <4>1, FS_Subset
        <4>3. Cardinality(B(d)) \in 0..N /\ Cardinality(B(e)) \in 0..N
          BY <1>8
        <4> HIDE DEF N
        <4>4. Cardinality(B(e)) >= e + 1
          BY <1>1, <3>3, <4>2, <4>3
        <4> QED BY <4>4
      <3> QED BY <2>3, <3>1, <3>2, <3>3
    <2> QED BY <2>4, <2>5, <2>6, <2>7, <2>8
  <1>11. \A n \in Nat : Seen(n)
    <2> DEFINE T == {n \in Nat : Seen(n)}
    <2> HIDE DEF Seen
    <2>1. T \subseteq Nat /\ 0 \in T /\ \A n \in T : n + 1 \in T
      BY ONLY <1>9, <1>10
    <2> HIDE DEF T
    <2>2. \A n \in Nat : n \in T
      BY <2>1, NatSetInduction
    <2> USE DEF T
    <2> QED BY <2>2
  <1>12. /\ o \in B(N)
         /\ \A x \in B(N) : x = o \/ \E y \in B(N) : Kid(y, x)
         /\ \A A \in SUBSET Objects : o \in A /\ Closed(A) => B(N) \subseteq A
         /\ Closed(B(N))
    <2>1. N <= N /\ ~(Cardinality(B(N)) >= N + 1)
      <3>1. Cardinality(B(N)) \in 0..N
        BY <1>8
      <3> HIDE DEF N
      <3> QED BY <1>1, <3>1
    <2> QED BY <1>1, <1>11, <2>1
  <1>13. Subtree(t, o) \in Seq(Objects)
    <2>1. N \in 0..N
      BY <1>1
    <2> QED BY <1>2, <1>3, <2>1 DEF Levels
  <1>14. \A S : KidsIn(t, S) <=> Closed(S)
    BY <1>7 DEF KidsIn
  <1> HIDE DEF Closed
  <1> QED BY <1>6, <1>7, <1>12, <1>13, <1>14
-----------------------------------------------------------------------------
(* What the search is given.                                                *)

\* The objects below one are listed once if what it hangs in is not among them.
LEMMA SubtreeDistinct ==
  ASSUME NEW t \in Trees, NEW o \in Objects, Agree(t), t.up[o] \notin Below(t, o)
  PROVE  Distinct(Subtree(t, o))
  <1> DEFINE N == Cardinality(Objects)
  <1>1. N \in Nat
    BY FinitelyMany, FS_CardinalityType
  <1>2. PICK f : Walks(f, t, o) /\ Subtree(t, o) = f[N].all
    BY WalkExists
  <1>3. \A d \in 0..N : f[d] \in Levels
    BY <1>2 DEF Walks
  <1>4. o \in Below(t, o) /\ KidsIn(t, Below(t, o)) /\ Below(t, o) \subseteq Objects
    BY SubtreeFacts DEF Below
  <1>5. \A x, y \in Objects : Occurs(t.kids[y], x) <=> t.up[x] = y
    BY NodeFacts DEF Agree
  <1> DEFINE Good(d) ==
        /\ Distinct(f[d].all) /\ Distinct(f[d].last)
        /\ \A x : Occurs(f[d].last, x) => Occurs(f[d].all, x)
        /\ \A x : Occurs(f[d].all, x) => x \in Below(t, o)
        /\ \A x : Occurs(f[d].all, x) /\ x # o => Occurs(f[d].all, t.up[x]) /\ ~Occurs(f[d].last, t.up[x])
  <1>6. Good(0)
    <2>1. f[0].all = <<o>> /\ f[0].last = <<o>>
      BY <1>2 DEF Walks
    <2> QED BY <1>4, <2>1, Single
  <1>7. ASSUME NEW d \in 1..N, Good(d - 1)
        PROVE  Good(d)
    <2> DEFINE w == f[d - 1]
               n == Len(w.last)
               ss == [i \in 1..n |-> t.kids[w.last[i]]]
               next == FlattenSeq(ss)
    <2>1. w \in Levels /\ f[d] = Wider(t, w)
      BY <1>1, <1>2, <1>3 DEF Walks
    <2>2. /\ Distinct(w.all) /\ Distinct(w.last)
          /\ \A x : Occurs(w.last, x) => Occurs(w.all, x)
          /\ \A x : Occurs(w.all, x) => x \in Below(t, o)
          /\ \A x : Occurs(w.all, x) /\ x # o => Occurs(w.all, t.up[x]) /\ ~Occurs(w.last, t.up[x])
      BY <1>7
    <2> HIDE DEF w
    <2>3. w.last \in Seq(Objects) /\ w.all \in Seq(Objects) /\ n \in Nat
      BY <2>1 DEF Levels
    <2>4. \A i \in 1..n : w.last[i] \in Objects /\ t.kids[w.last[i]] \in Seq(Objects)
                          /\ Distinct(t.kids[w.last[i]])
      BY <2>3, NodeFacts DEF Trees, Agree
    <2>5. f[d] = [all |-> w.all \o next, last |-> next]
      BY <2>1 DEF Wider
    <2>6. \A y : Occurs(w.last, y) <=> \E i \in 1..n : w.last[i] = y
      BY DEF Occurs
    <2>7. \A i, j \in 1..n : w.last[i] = w.last[j] => i = j
      BY <2>2 DEF Distinct
    <2> HIDE DEF n
    <2>8. ss \in [1..n -> Seq(Objects)] /\ \A i \in 1..n : ss[i] = t.kids[w.last[i]]
      BY <2>4
    <2> HIDE DEF ss
    <2>9. \A i, j \in 1..n : \A x : Occurs(ss[i], x) /\ Occurs(ss[j], x) => i = j
      <3> SUFFICES ASSUME NEW i \in 1..n, NEW j \in 1..n, NEW x, Occurs(ss[i], x), Occurs(ss[j], x)
                   PROVE  i = j
        OBVIOUS
      <3>1. ss[i] \in Seq(Objects)
        BY <2>8
      <3>2. x \in Objects
        BY <3>1 DEF Occurs
      <3>3. t.up[x] = w.last[i] /\ t.up[x] = w.last[j]
        BY <1>5, <2>4, <2>8, <3>2
      <3> QED BY <2>7, <3>3
    <2>10. /\ next \in Seq(Objects) /\ Distinct(next)
           /\ \A x : Occurs(next, x) <=> \E i \in 1..n : Occurs(ss[i], x)
      <3>1. \A i \in 1..n : Distinct(ss[i])
        BY <2>4, <2>8
      <3> QED BY <2>3, <2>8, <2>9, <3>1, FlattenFacts, FlattenDistinct
    <2> HIDE DEF next
    <2>11. \A x : Occurs(next, x) => x \in Objects /\ Occurs(w.last, t.up[x])
      <3> SUFFICES ASSUME NEW x, Occurs(next, x) PROVE x \in Objects /\ Occurs(w.last, t.up[x])
        OBVIOUS
      <3>1. PICK i \in 1..n : Occurs(ss[i], x)
        BY <2>10
      <3>2. ss[i] \in Seq(Objects) /\ ss[i] = t.kids[w.last[i]] /\ w.last[i] \in Objects
        BY <2>4, <2>8
      <3>3. x \in Objects
        BY <3>1, <3>2 DEF Occurs
      <3> QED BY <1>5, <2>6, <3>1, <3>2, <3>3
    <2>12. \A x : Occurs(next, x) => ~Occurs(w.all, x) /\ x \in Below(t, o)
      <3> SUFFICES ASSUME NEW x, Occurs(next, x) PROVE ~Occurs(w.all, x) /\ x \in Below(t, o)
        OBVIOUS
      <3>1. x \in Objects /\ Occurs(w.last, t.up[x]) /\ Occurs(w.all, t.up[x]) /\ t.up[x] \in Below(t, o)
        BY <2>2, <2>11
      <3>2. x # o
        BY <3>1
      <3>3. x \in Below(t, o)
        BY <1>4, <1>5, <3>1 DEF KidsIn
      <3> QED BY <2>2, <3>1, <3>2, <3>3
    <2>13. \A x : Occurs(w.all \o next, x) <=> Occurs(w.all, x) \/ Occurs(next, x)
      BY <2>3, <2>10, OccursInConcat
    <2>14. Distinct(w.all \o next)
      BY <2>2, <2>3, <2>10, <2>12, ConcatDistinct
    <2> QED BY <2>2, <2>5, <2>10, <2>11, <2>12, <2>13, <2>14
  <1>8. Good(N)
    <2> DEFINE T == {d \in 0..N : Good(d)}
    <2>1. 0 \in T /\ \A d \in 1..N : d - 1 \in T => d \in T
      <3> HIDE DEF Good
      <3>1. 0 \in 0..N /\ \A d \in 1..N : d \in 0..N
        BY <1>1
      <3> QED BY <1>6, <1>7, <3>1
    <2> HIDE DEF T
    <2>2. \A d \in 0..N : d \in T
      BY <1>1, <2>1, StepInduction
    <2>3. N \in 0..N
      BY <1>1
    <2> QED BY <2>2, <2>3 DEF T
  <1> QED BY <1>2, <1>8

\* What a tree has below an object is linked if the object is.
LEMMA LinkedBelow ==
  ASSUME NEW t \in Trees, Agree(t), NEW o \in Objects, NEW L,
         \A x \in Objects \ {o} : x \in L <=> t.up[x] \in L
  PROVE  \A x \in Below(t, o) : x \in L <=> o \in L
  <1> DEFINE A == {x \in Objects : x \in L <=> o \in L}
  <1>1. \A x, y \in Objects : Occurs(t.kids[y], x) <=> t.up[x] = y
    BY NodeFacts DEF Agree
  <1>2. ASSUME NEW x \in A, NEW c \in Objects, Occurs(t.kids[x], c)
        PROVE  c \in A
    <2>1. t.up[c] = x
      BY <1>1, <1>2
    <2> QED BY <1>2, <2>1
  <1>3. A \in SUBSET Objects /\ o \in A /\ KidsIn(t, A)
    BY <1>2 DEF KidsIn
  <1>4. Below(t, o) \subseteq A
    <2> HIDE DEF A
    <2> QED BY <1>3, SubtreeFacts
  <1> QED BY <1>4

\* An object and what is below it are the least set that has the object and is closed under
\* children.
LEMMA BelowLeast ==
  ASSUME NEW t \in Trees, Agree(t), NEW o \in Objects, NEW A \in SUBSET Objects, o \in A,
         \A x \in Objects : t.up[x] \in A => x \in A
  PROVE  Below(t, o) \subseteq A
  <1>1. \A x, y \in Objects : Occurs(t.kids[y], x) <=> t.up[x] = y
    BY NodeFacts DEF Agree
  <1>2. KidsIn(t, A)
    BY <1>1 DEF KidsIn
  <1> QED BY <1>2, SubtreeFacts

\* What addSearchData is called with is a list.
LEMMA EntriesFacts ==
  ASSUME NEW t, NEW objs \in Seq(Objects)
  PROVE  IsList(Entries(t, objs))
  <1> DEFINE P == {i \in DOMAIN objs : objs[i] \in Searchable}
             shown == Kept(objs, P)
             es == [i \in DOMAIN shown |-> [obj |-> shown[i], weight |-> WeightPath(t, shown[i])]]
  <1>1. P \subseteq 1..Len(objs)
    OBVIOUS
  <1>2. Entries(t, objs) = es
    BY DEF Entries
  <1>3. shown \in Seq(Objects)
    <2> HIDE DEF P
    <2> QED BY <1>1, KeptFacts
  <1> HIDE DEF shown
  <1>4. es \in Seq({es[i] : i \in DOMAIN shown})
    <2> DEFINE F == {es[i] : i \in DOMAIN shown}
    <2>1. es \in [1..Len(shown) -> F] /\ Len(shown) \in Nat
      BY <1>3
    <2> HIDE DEF es, F
    <2> QED BY <2>1
  <1> QED BY <1>2, <1>4 DEF IsList

\* An entry of the search.
Entry == [obj : Objects, weight : Seq(Nat)]

\* A way up ends in the object; each of its objects hangs in the one before it.
Ways(t, o) ==
  {line \in Seq(Objects) :
     /\ line # <<>> /\ line[Len(line)] = o
     /\ \A i \in 2..Len(line) : t.up[line[i]] = line[i - 1]}

\* What hangs in an object of a way up, being on it, comes after it.
LEMMA WayLonger ==
  ASSUME NEW t, NEW o \in Objects, NEW line \in Ways(t, o), NEW top \in Objects, t.up[Head(line)] = top
  PROVE  <<top>> \o line \in Ways(t, o)
  <1> DEFINE r == <<top>> \o line
             n == Len(line)
  <1>1. line \in Seq(Objects) /\ n \in Nat /\ n > 0 /\ Head(line) = line[1] /\ line[n] = o
    BY DEF Ways
  <1>2. r \in Seq(Objects) /\ Len(r) = n + 1 /\ r[1] = top /\ \A i \in 1..n : r[i + 1] = line[i]
    <2>1. <<top>> \in Seq(Objects) /\ Len(<<top>>) = 1 /\ <<top>>[1] = top
      OBVIOUS
    <2> HIDE DEF n
    <2>2. Len(r) = 1 + n /\ r \in Seq(Objects) /\ r[1] = top /\ \A i \in 1..n : r[1 + i] = line[i]
      BY <1>1, <2>1, ConcatProperties DEF n
    <2>3. \A i \in 1..n : i + 1 = 1 + i
      BY <1>1
    <2> QED BY <1>1, <2>2, <2>3
  <1>3. \A i \in 2..n : t.up[line[i]] = line[i - 1]
    BY DEF Ways
  <1> HIDE DEF r, n
  <1>4. r[Len(r)] = o
    <2>1. n \in 1..n
      BY <1>1
    <2> QED BY <1>1, <1>2, <2>1
  <1>5. ASSUME NEW i \in 2..Len(r) PROVE t.up[r[i]] = r[i - 1]
    <2>1. PICK k \in 1..n : i = k + 1
      <3>1. i - 1 \in 1..n /\ i = i - 1 + 1
        BY <1>1, <1>2
      <3> QED BY <3>1
    <2>2. r[i] = line[k] /\ r[i - 1] = r[k]
      BY <1>1, <1>2, <2>1
    <2>3. CASE k = 1
      BY <1>1, <1>2, <2>2, <2>3
    <2>4. CASE k # 1
      <3>1. k \in 2..n /\ k - 1 \in 1..n /\ k - 1 + 1 = k
        BY <1>1, <2>1, <2>4
      <3>2. r[k] = line[k - 1]
        BY <1>2, <3>1
      <3> QED BY <1>3, <2>2, <3>1, <3>2
    <2> QED BY <2>3, <2>4
  <1>6. r # <<>>
    BY <1>1, <1>2
  <1> QED BY <1>2, <1>4, <1>5, <1>6 DEF Ways, r

\* The way down to an object, read upwards, is one.
LEMMA PathToFacts ==
  ASSUME NEW t, NEW o \in Objects
  PROVE  PathTo(t, o) \in Ways(t, o)
  <1> DEFINE N == Cardinality(Objects)
             X == Ways(t, o)
             Up(line) == LET top == t.up[Head(line)]
                         IN IF top \in Objects THEN <<top>> \o line ELSE line
             G == [d \in 1..N |-> [line \in X |-> Up(line)]]
  <1>1. N \in Nat
    BY FinitelyMany, FS_CardinalityType
  <1>2. ASSUME NEW line \in X PROVE Up(line) \in X
    <2>1. t.up[Head(line)] \in Objects => Up(line) \in X
      BY <1>2, WayLonger
    <2> QED BY <2>1
  <1>3. G \in [1..N -> [X -> X]] /\ <<o>> \in X
    <2>1. <<o>> \in X
      BY DEF Ways
    <2> HIDE DEF X, Up
    <2> QED BY <1>2, <2>1
  <1>4. \A d \in 1..N : \A line \in X : G[d][line] = Up(line)
    OBVIOUS
  <1> HIDE DEF N, X, Up, G
  <1>5. PICK h \in [0..N -> X] : Follows(h, N, <<o>>, G)
    BY <1>1, <1>3, RecursionExists
  <1> DEFINE Line(f) == [d \in 0..N |-> IF d = 0 THEN <<o>> ELSE Up(f[d - 1])]
  <1>6. \A f : f = Line(f) =>
                 f[0] = <<o>> /\ \A d \in 1..N : f[d] = Up(f[d - 1])
    <2> TAKE f
    <2> DEFINE g == Line(f)
    <2>1. g[0] = <<o>> /\ \A d \in 1..N : g[d] = Up(f[d - 1])
      BY <1>1
    <2> HIDE DEF Line
    <2> QED BY <2>1
  <1>7. \E f : f = Line(f)
    <2>1. h[0] = <<o>> /\ \A d \in 1..N : h[d] = Up(h[d - 1])
      <3>1. \A d \in 1..N : h[d - 1] \in X
        BY <1>1
      <3> QED BY <1>4, <1>5, <3>1 DEF Follows
    <2>2. \A d \in 0..N : h[d] = IF d = 0 THEN <<o>> ELSE Up(h[d - 1])
      <3>1. \A d \in 0..N : d # 0 => d \in 1..N
        BY <1>1
      <3> HIDE DEF Up
      <3> QED BY ONLY <2>1, <3>1
    <2>3. h = Line(h)
      BY <2>2
    <2> HIDE DEF Line
    <2> QED BY <2>3
  <1>8. PathTo(t, o) = (CHOOSE f : f = Line(f))[N]
    BY DEF PathTo, N, Up
  <1> HIDE DEF Line
  <1> DEFINE f == CHOOSE f : f = Line(f)
  <1>9. f[0] = <<o>> /\ \A d \in 1..N : f[d] = Up(f[d - 1])
    <2>1. f = Line(f)
      BY <1>7
    <2> QED BY <1>6, <2>1
  <1> HIDE DEF f
  <1>10. f[N] \in X
    <2>1. f[0] \in X /\ \A d \in 1..N : f[d - 1] \in X => f[d] \in X
      BY <1>2, <1>3, <1>9
    <2>2. \A d \in 0..N : f[d] \in X
      BY <1>1, <2>1, RecursionType
    <2> QED BY <1>1, <2>2
  <1> QED BY <1>8, <1>10 DEF f, X

\* The entries of a list of objects: those of them that are searched, in their order.
LEMMA EntriesType ==
  ASSUME NEW t, NEW objs \in Seq(Objects), weight \in [Objects -> Nat]
  PROVE  /\ Entries(t, objs) \in Seq(Entry)
         /\ \E shown \in Seq(Objects) :
              /\ shown = Kept(objs, {i \in DOMAIN objs : objs[i] \in Searchable})
              /\ Len(Entries(t, objs)) = Len(shown)
              /\ \A k \in 1..Len(shown) : Entries(t, objs)[k].obj = shown[k]
  <1> DEFINE P == {i \in DOMAIN objs : objs[i] \in Searchable}
             shown == Kept(objs, P)
             E(k) == [obj |-> shown[k], weight |-> WeightPath(t, shown[k])]
             es == [k \in DOMAIN shown |-> E(k)]
  <1>1. P \subseteq 1..Len(objs)
    OBVIOUS
  <1>2. Entries(t, objs) = es
    BY DEF Entries
  <1>3. shown \in Seq(Objects)
    <2> HIDE DEF P
    <2> QED BY <1>1, KeptFacts
  <1>4. \A o \in Objects : WeightPath(t, o) \in Seq(Nat)
    <2> TAKE o \in Objects
    <2> DEFINE line == PathTo(t, o)
    <2>1. line \in Seq(Objects)
      BY PathToFacts DEF Ways
    <2>2. WeightPath(t, o) = [i \in DOMAIN line |-> weight[line[i]]]
      BY DEF WeightPath
    <2> HIDE DEF line
    <2>3. DOMAIN line = 1..Len(line) /\ Len(line) \in Nat /\ \A i \in 1..Len(line) : weight[line[i]] \in Nat
      BY <2>1
    <2>4. [i \in DOMAIN line |-> weight[line[i]]] \in [1..Len(line) -> Nat]
      BY <2>3
    <2> QED BY <2>2, <2>3, <2>4
  <1>5. DOMAIN shown = 1..Len(shown) /\ Len(shown) \in Nat /\ \A k \in 1..Len(shown) : shown[k] \in Objects
    <2> HIDE DEF shown
    <2> QED BY <1>3
  <1> HIDE DEF shown
  <1>6. \A k \in 1..Len(shown) : E(k) \in Entry /\ E(k).obj = shown[k]
    BY <1>4, <1>5 DEF Entry
  <1> HIDE DEF E
  <1>7. es \in [1..Len(shown) -> Entry] /\ \A k \in 1..Len(shown) : es[k] = E(k)
    BY <1>5, <1>6
  <1> HIDE DEF es
  <1>8. es \in Seq(Entry) /\ Len(es) = Len(shown)
    <2> DEFINE n == Len(shown)
    <2>1. n \in Nat /\ es \in [1..n -> Entry]
      BY <1>5, <1>7
    <2> HIDE DEF n
    <2>2. es \in Seq(Entry) /\ Len(es) = n
      BY <2>1
    <2> QED BY <2>2 DEF n
  <1> QED BY <1>2, <1>3, <1>6, <1>7, <1>8 DEF shown

\* The entries of a list of objects are those of the searchable ones.
LEMMA EntriesHas ==
  ASSUME NEW t, NEW objs \in Seq(Objects), weight \in [Objects -> Nat], NEW o \in Objects
  PROVE  /\ Entries(t, objs) \in Seq(Entry)
         /\ Has(Entries(t, objs), o) <=> Occurs(objs, o) /\ o \in Searchable
         /\ Distinct(objs) => Once(Entries(t, objs), o)
  <1> DEFINE P == {i \in DOMAIN objs : objs[i] \in Searchable}
             es == Entries(t, objs)
  <1>1. PICK shown \in Seq(Objects) :
              /\ shown = Kept(objs, P)
              /\ Len(es) = Len(shown)
              /\ \A k \in 1..Len(shown) : es[k].obj = shown[k]
    BY EntriesType
  <1>2. P \in SUBSET (1..Len(objs)) /\ \A i : i \in P <=> i \in 1..Len(objs) /\ objs[i] \in Searchable
    OBVIOUS
  <1> HIDE DEF P
  <1>3. /\ \A x : Occurs(shown, x) <=> \E i \in P : objs[i] = x
        /\ Distinct(objs) => Distinct(shown)
    BY <1>1, <1>2, KeptMembers
  <1>4. Has(es, o) <=> Occurs(shown, o)
    BY <1>1 DEF Has, Occurs
  <1>5. Distinct(shown) => Once(es, o)
    BY <1>1 DEF Once, Distinct
  <1>6. Occurs(shown, o) <=> Occurs(objs, o) /\ o \in Searchable
    BY <1>2, <1>3 DEF Occurs
  <1> QED BY <1>3, <1>4, <1>5, <1>6, EntriesType

-----------------------------------------------------------------------------
(* Lists the handlers make.                                                 *)

\* The elements of a set as a list.
LEMMA ListedFacts ==
  ASSUME NEW S, S \subseteq Objects
  PROVE  /\ Listed(S) \in Seq(S) /\ Distinct(Listed(S))
         /\ \A x : Occurs(Listed(S), x) <=> x \in S
  <1> DEFINE n == Cardinality(S)
             f == Listed(S)
  <1>1. IsFiniteSet(S)
    <2>1. IsFiniteSet(Objects) /\ S \in SUBSET Objects
      BY FinitelyMany
    <2> QED BY <2>1, FS_Subset
  <1>2. /\ n \in Nat
        /\ \E g \in [1..n -> S] : \A a, b \in DOMAIN g : g[a] = g[b] => a = b
        /\ \A g \in [1..n -> S] : (\A a, b \in DOMAIN g : g[a] = g[b] => a = b) =>
                                   \A x \in S : \E k \in 1..n : g[k] = x
    BY <1>1, SetNumbering
  <1>3. f \in [1..n -> S] /\ \A a, b \in DOMAIN f : f[a] = f[b] => a = b
    BY <1>2 DEF Listed
  <1> HIDE DEF f, n
  <1>4. f \in Seq(S) /\ Len(f) = n
    BY <1>2, <1>3
  <1>5. Distinct(f)
    BY <1>3, <1>4 DEF Distinct
  <1>6. \A x \in S : \E k \in 1..n : f[k] = x
    BY <1>2, <1>3
  <1>7. \A x : Occurs(f, x) <=> x \in S
    BY <1>3, <1>4, <1>6 DEF Occurs
  <1> QED BY <1>4, <1>5, <1>7 DEF f

\* updatePos: the child is put back into the list, in the order of its new weight.
LEMMA RepositionedFacts ==
  ASSUME NEW list \in Seq(Objects), NEW o \in Objects, NEW w \in Nat, weight \in [Objects -> Nat],
         Distinct(list), Occurs(list, o), InOrder(list, weight)
  PROVE  LET r == Repositioned(list, o, w)
         IN /\ r \in Seq(Objects) /\ Distinct(r)
            /\ \A x : Occurs(r, x) <=> Occurs(list, x)
            /\ InOrder(r, [weight EXCEPT ![o] = w])
  <1> DEFINE at == CHOOSE i \in DOMAIN list : list[i] = o
             rest == TakenAt(list, at)
             lighter == {i \in DOMAIN rest : weight[rest[i]] <= w}
             k == IF lighter = {} THEN 1 ELSE 1 + CHOOSE i \in lighter : \A j \in lighter : j <= i
             new == [weight EXCEPT ![o] = w]
  <1>1. at \in 1..Len(list) /\ list[at] = o
    BY DEF Occurs
  <1>2. Repositioned(list, o, w) = PutAt(rest, k, o)
    BY DEF Repositioned, RemoveAt, InsertAt, TakenAt, PutAt
  <1> HIDE DEF at
  <1>3. /\ rest \in Seq(Objects) /\ Distinct(rest) /\ InOrder(rest, weight)
        /\ \A x : Occurs(rest, x) <=> Occurs(list, x) /\ x # o
    BY <1>1, RemovedMembers
  <1> HIDE DEF rest
  <1>4. /\ Len(rest) \in Nat /\ DOMAIN rest = 1..Len(rest) /\ new \in [Objects -> Nat] /\ new[o] = w
        /\ \A i \in 1..Len(rest) : /\ rest[i] \in Objects /\ rest[i] # o
                                   /\ weight[rest[i]] \in Nat /\ new[rest[i]] = weight[rest[i]]
    <2>1. Len(rest) \in Nat /\ DOMAIN rest = 1..Len(rest) /\ \A i \in 1..Len(rest) : rest[i] \in Objects
      BY <1>3
    <2>2. \A i \in 1..Len(rest) : rest[i] # o
      BY <1>3 DEF Occurs
    <2>3. new \in [Objects -> Nat] /\ \A x \in Objects : new[x] = IF x = o THEN w ELSE weight[x]
      OBVIOUS
    <2> HIDE DEF new
    <2> QED BY <2>1, <2>2, <2>3
  <1>5. lighter \subseteq 1..Len(rest) /\ \A i \in 1..Len(rest) : i \in lighter <=> weight[rest[i]] <= w
    BY <1>4
  <1> HIDE DEF new, lighter
  <1>6. k \in 1..(Len(rest) + 1) /\ \A i \in 1..Len(rest) : i < k <=> i \in lighter
    <2>1. CASE lighter = {}
      BY <1>4, <2>1
    <2>2. CASE lighter # {}
      <3>1. lighter \in SUBSET (0..Len(rest))
        BY <1>5
      <3>2. \E i \in lighter : \A j \in lighter : j <= i
        BY <1>4, <2>2, <3>1, NatGreatest
      <3>3. PICK m \in lighter : (\A j \in lighter : j <= m) /\ k = 1 + m
        BY <2>2, <3>2
      <3> HIDE DEF k
      <3>4. m \in 1..Len(rest) /\ k \in 1..(Len(rest) + 1)
        BY <1>4, <1>5, <3>3
      <3>5. ASSUME NEW i \in 1..Len(rest), i < k PROVE i \in lighter
        <4>1. i = m \/ i < m
          BY <1>4, <3>3, <3>4, <3>5
        <4>2. weight[rest[i]] <= weight[rest[m]]
          BY <1>3, <1>4, <3>4, <4>1 DEF InOrder
        <4>3. weight[rest[m]] <= w
          BY <1>5, <3>3
        <4> QED BY <1>4, <1>5, <3>4, <4>2, <4>3
      <3>6. ASSUME NEW i \in lighter PROVE i < k
        BY <1>4, <1>5, <3>3, <3>4
      <3> QED BY <3>4, <3>5, <3>6
    <2> QED BY <2>1, <2>2
  <1> HIDE DEF k
  <1>7. ~Occurs(rest, o)
    BY <1>3
  <1>8. /\ PutAt(rest, k, o) \in Seq(Objects) /\ Distinct(PutAt(rest, k, o))
        /\ \A x : Occurs(PutAt(rest, k, o), x) <=> Occurs(rest, x) \/ x = o
    BY <1>3, <1>6, <1>7, InsertedMembers
  <1>9. InOrder(PutAt(rest, k, o), new)
    <2>1. InOrder(rest, new)
      BY <1>3, <1>4 DEF InOrder
    <2>2. \A i \in 1..Len(rest) : IF i < k THEN new[rest[i]] <= new[o] ELSE new[o] <= new[rest[i]]
      BY <1>4, <1>5, <1>6
    <2> QED BY <1>3, <1>4, <1>6, <2>1, <2>2, InsertedInOrder
  <1> QED BY <1>2, <1>3, <1>8, <1>9 DEF new
=============================================================================
