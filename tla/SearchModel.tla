---- MODULE SearchModel ----
(***************************************************************************)
(* The source model of the search, searchmodel.cpp: a list of entries, one *)
(* for an object, kept sorted by the weights on the path from the top of   *)
(* the tree to the object.  While a batch is open new entries wait in a    *)
(* second list, and closing the batch merges them in one pass.             *)
(*                                                                         *)
(* A model is a record: data is m_data, batch is m_batchData, depth is     *)
(* m_batchDepth.  An entry is a record with its object and its weights;    *)
(* the text it is found by, its pinyin and its score are left out.         *)
(***************************************************************************)
EXTENDS Naturals, Sequences, FiniteSets
LOCAL INSTANCE SequencesExt

\* The order of the list: the first weight that differs decides, and a path
\* comes before the longer ones it begins.
WeightLessThan(p, q) ==
  \/ \E k \in DOMAIN p \cap DOMAIN q : p[k] < q[k] /\ \A j \in 1..(k - 1) : p[j] = q[j]
  \/ Len(p) < Len(q) /\ \A k \in DOMAIN p : p[k] = q[k]

\* An entry put into a sorted list, behind its equals.
Placed(list, e) ==
  InsertAt(list, 1 + Cardinality({i \in DOMAIN list : ~WeightLessThan(e.weight, list[i].weight)}), e)

\* Entries put one by one into a list.
AllPlaced(list, entries) ==
  LET After[k \in 0..Len(entries)] == IF k = 0 THEN list ELSE Placed(After[k - 1], entries[k])
  IN After[Len(entries)]

\* std::stable_sort of the batch: its entries put one by one into an empty list.
StableSorted(list) == AllPlaced(<<>>, list)

\* Variant: a new entry goes in front of its equals.
MergedInFront(old, new) ==
  LET Goes(j, i) == ~WeightLessThan(old[i].weight, new[j].weight)
      OldAt(i) == i + Cardinality({j \in DOMAIN new : Goes(j, i)})
      NewAt(j) == j + Cardinality({i \in DOMAIN old : ~Goes(j, i)})
  IN [k \in 1..(Len(old) + Len(new)) |->
        IF \E i \in DOMAIN old : OldAt(i) = k
        THEN old[CHOOSE i \in DOMAIN old : OldAt(i) = k]
        ELSE new[CHOOSE j \in DOMAIN new : NewAt(j) = k]]

\* Two sorted lists as one: a new entry goes in front of an old one only if it
\* is strictly less.
Merged(old, new) ==
  LET Goes(j, i) == WeightLessThan(new[j].weight, old[i].weight)
      OldAt(i) == i + Cardinality({j \in DOMAIN new : Goes(j, i)})
      NewAt(j) == j + Cardinality({i \in DOMAIN old : ~Goes(j, i)})
  IN [k \in 1..(Len(old) + Len(new)) |->
        IF \E i \in DOMAIN old : OldAt(i) = k
        THEN old[CHOOSE i \in DOMAIN old : OldAt(i) = k]
        ELSE new[CHOOSE j \in DOMAIN new : NewAt(j) = k]]

EmptyModel == [data |-> <<>>, batch |-> <<>>, depth |-> 0]

BeginBatch(m) == [m EXCEPT !.depth = @ + 1]

\* Variant: the batch stays open.
EndBatchStaysOpen(m) ==
  [m EXCEPT !.data = Merged(m.data, StableSorted(m.batch)), !.batch = <<>>]

EndBatch(m) ==
  IF m.depth = 1
  THEN [data |-> Merged(m.data, StableSorted(m.batch)), batch |-> <<>>, depth |-> 0]
  ELSE [m EXCEPT !.depth = IF @ = 0 THEN 0 ELSE @ - 1]

AddEntry(m, e) ==
  IF m.depth > 0 THEN [m EXCEPT !.batch = Append(@, e)]
  ELSE [m EXCEPT !.data = Placed(@, e)]

AddSearchData(m, entries) ==
  LET After[k \in 0..Len(entries)] == IF k = 0 THEN m ELSE AddEntry(After[k - 1], entries[k])
  IN After[Len(entries)]

\* The k-th of a finite set of positions.
Nth(P, k) == CHOOSE i \in P : Cardinality({j \in P : j <= i}) = k

\* What a list keeps when everything not at one of some positions is taken out.
Kept(list, P) == [k \in 1..Cardinality(P) |-> list[Nth(P, k)]]

Without(list, objs) == Kept(list, {i \in DOMAIN list : list[i].obj \notin objs})

\* The entries of some objects leave both lists.
RemoveSearchData(m, objs) ==
  [m EXCEPT !.data = Without(@, objs), !.batch = Without(@, objs)]

Sorted(list) == \A i, j \in DOMAIN list : i < j => ~WeightLessThan(list[j].weight, list[i].weight)
====
