----------------------- MODULE ObjectTreePlaces_proofs -----------------------
(***************************************************************************)
(* Where the objects of the tree are, and who knows: the search finds what *)
(* is in the tree, nothing is left where it should not be, what is hidden  *)
(* leaves, and the loops that move them end.  For any objects, names,      *)
(* owners, weights and number of changes.                                  *)
(***************************************************************************)
EXTENDS ObjectTree_proofs
LOCAL INSTANCE SequencesExt

-----------------------------------------------------------------------------
(* What a step moves.                                                       *)

\* An object has come to the node it is now in; what E has is connected besides.
Arrives(o, E) ==
  IF up'[o] # up[o] /\ up'[o] \in linked
  THEN /\ linked' = linked \cup Below(tree', o)
       /\ watched' = watched \cup E \cup Below(tree', o)
       /\ plain' = AllPlaced(plain, Entries(tree', Subtree(tree', o)))
  ELSE linked' = linked /\ watched' = watched \cup E /\ plain' = plain

\* An object has left the node it was in.
Departs(o, E) ==
  /\ watched' = watched \cup E
  /\ IF up'[o] # up[o] /\ up[o] \in linked
     THEN linked' = linked \ Below(tree, o) /\ plain' = Without(plain, Below(tree, o))
     ELSE linked' = linked /\ plain' = plain

\* Comes says this of what is linked, watched and searched.
LEMMA ComesMeans ==
  ASSUME TypeOK', NEW t, Shaped(t), NEW o \in Objects, NEW E, Comes(t, o, E)
  PROVE  Arrives(o, E)
  <1>1. tree' = t /\ up' = t.up
    BY DEF Comes, Shaped, tree
  <1>2. t \in Trees
    BY <1>1 DEF TypeOK, tree, Trees
  <1>3. ToSet(Subtree(t, o)) = Below(t, o)
    BY <1>2, BelowSet
  <1> DEFINE B == Below(t, o)
             s == Subtree(t, o)
             new == t.up[o] # up[o] /\ t.up[o] \in linked
  <1>4. /\ linked' = IF new THEN linked \cup B ELSE linked
        /\ watched' = watched \cup E \cup (IF new THEN B ELSE {})
        /\ IF new THEN plain' = AllPlaced(plain, Entries(t, s)) ELSE plain' = plain
    BY <1>3 DEF Comes, SearchAdds, SearchStays
  <1>5. new <=> up'[o] # up[o] /\ up'[o] \in linked
    BY <1>1
  <1>6. Below(tree', o) = B /\ Subtree(tree', o) = s /\ Entries(tree', s) = Entries(t, s)
    BY <1>1
  <1> HIDE DEF B, s, new
  <1> QED BY <1>4, <1>5, <1>6 DEF Arrives

\* The same for Leaves.
LEMMA LeavesMeans ==
  ASSUME TypeOK, NEW t, NEW o \in Objects, NEW E, Leaves(t, o, E)
  PROVE  Departs(o, E)
  <1>1. ToSet(Subtree(tree, o)) = Below(tree, o)
    BY TreeType, BelowSet
  <1> DEFINE B == Below(tree, o)
             gone == up[o] # t.up[o] /\ up[o] \in linked
  <1>2. /\ up' = t.up /\ watched' = watched \cup E
        /\ linked' = IF gone THEN linked \ B ELSE linked
        /\ IF gone THEN plain' = Without(plain, B) ELSE plain' = plain
    BY <1>1 DEF Leaves, SearchDrops, SearchStays
  <1> HIDE DEF B
  <1> QED BY <1>2 DEF Departs, B

\* addObject takes the next object, which hung nowhere and was not connected: one without a
\* parent is put aside, a hidden one hidden, and another goes to its parent or waits.
LEMMA AnnounceMoves ==
  ASSUME IInv, IInv', AnnounceStep, NEW o, o = Head(job.list)
  PROVE  /\ o \in Objects /\ status[o] = "made" /\ up[o] = None /\ o \notin watched
         /\ \A x \in Objects \ {o} : up'[x] = up[x] /\ rec'[x] = rec[x]
         /\ \/ Arrives(o, {}) /\ hidden' = hidden /\ up'[o] = NoParent /\ rec'[o] = rec[o]
            \/ Arrives(o, {o}) /\ hidden' = hidden \cup {o} /\ up'[o] = Hide /\ rec'[o] = rec[o]
            \/ /\ Arrives(o, {}) /\ hidden' = hidden /\ o \notin hidden
               /\ \/ up'[o] = NoAdd /\ rec'[o] = rec[o] /\ Homeless(objMap', o)
                  \/ up'[o] \in Objects \cup {Root} /\ rec'[o] = up'[o] /\ up'[o] = FindParent(tree, objMap', o)
  <1> DEFINE map == IF Name[o] = None THEN objMap ELSE Append(objMap, o)
             hides == o \in hidden \/ (ParentName[o] # None /\ o \in ConfigHidden)
  <1>1. /\ job.kind = "announce" /\ job.list # <<>> /\ objMap' = map
        /\ \/ /\ ParentName[o] = None /\ hidden' = hidden
              /\ Comes(AddChild(tree, NoParent, o, FALSE), o, {})
           \/ /\ hidden' = hidden \cup {o}
              /\ Comes(AddChild(tree, Hide, o, FALSE), o, {o})
           \/ /\ o \notin hidden /\ hidden' = hidden
              /\ Comes(AddToParent(tree, map, o), o, {})
    BY DEF AnnounceStep
  <1>2. /\ TypeOK /\ TypeOK' /\ tree \in Trees /\ tree.up = up /\ tree.rec = rec /\ weight \in [Objects -> Nat]
        /\ Agree(tree) /\ InWeight(tree, weight) /\ job.list \in Seq(Objects)
        /\ up \in [Objects -> Nodes \cup {None}]
    BY TreeType DEF IInv, ShapeInv, TreeInv, TypeOK
  <1>3. o \in Objects /\ Occurs(job.list, o)
    BY <1>1, <1>2, TailFacts
  <1>4. status[o] = "made" /\ up[o] = None /\ o \notin watched /\ o \in Alive
    BY <1>1, <1>3 DEF IInv, JobInv, PlaceInv, SeenInv, Alive
  <1>5. NoParent \in Nodes /\ Hide \in Nodes
    BY NodeFacts
  <1>6. \A t, E : Comes(t, o, E) => up' = t.up /\ rec' = t.rec
    BY DEF Comes
  <1>7. \A t, E : Shaped(t) /\ Comes(t, o, E) => Arrives(o, E)
    BY <1>2, <1>3, ComesMeans
  <1>8. /\ Shaped(AddChild(tree, NoParent, o, FALSE)) /\ Shaped(AddChild(tree, Hide, o, FALSE))
        /\ Shaped(AddToParent(tree, map, o))
    BY ShapedFacts
  <1>9. ASSUME NEW n \in {NoParent, Hide}
        PROVE  /\ \A x \in Objects \ {o} : AddChild(tree, n, o, FALSE).up[x] = up[x]
               /\ AddChild(tree, n, o, FALSE).up[o] = n /\ AddChild(tree, n, o, FALSE).rec = rec
    <2> DEFINE d == AddChild(tree, n, o, FALSE)
    <2>1. d.up = [tree.up EXCEPT ![o] = n] /\ d.rec = tree.rec
      <3>1. ~\E i \in DOMAIN tree.kids[n] : tree.kids[n][i] = o
        <4>1. ~Occurs(tree.kids[n], o) /\ tree.kids[n] \in Seq(Objects)
          BY <1>2, <1>3, <1>4, <1>5, NodeFacts DEF Agree, Trees
        <4> QED BY <4>1 DEF Occurs
      <3> QED BY <3>1 DEF AddChild
    <2> HIDE DEF d
    <2> QED BY <1>2, <1>3, <2>1 DEF d
  <1>10. /\ \A x \in Objects \ {o} : AddToParent(tree, map, o).up[x] = up[x]
                                     /\ AddToParent(tree, map, o).rec[x] = rec[x]
         /\ \/ /\ AddToParent(tree, map, o).up[o] = NoAdd /\ AddToParent(tree, map, o).rec[o] = rec[o]
               /\ FindParent(tree, map, o) = None
            \/ /\ AddToParent(tree, map, o).up[o] \in Objects \cup {Root}
               /\ AddToParent(tree, map, o).rec[o] = AddToParent(tree, map, o).up[o]
               /\ AddToParent(tree, map, o).up[o] = FindParent(tree, map, o)
    <2>1. /\ Alive \in SUBSET Objects /\ objMap \in Seq(Alive)
          /\ \A x \in Alive : Owner[x] = None \/ status[x] = "leaving" \/ Owner[x] \in Alive
          /\ tree.rec[o] \in Objects => tree.rec[o] \in Alive
      BY <1>1, <1>2, <1>3, AliveFacts
    <2>2. map \in Seq(Alive)
      BY <1>4, <2>1
    <2> HIDE DEF map
    <2> DEFINE A == Alive
               r == tree
    <2>3. /\ A \in SUBSET Objects /\ o \in A
          /\ \A x \in A : Owner[x] = None \/ status[x] = "leaving" \/ Owner[x] \in A
          /\ r \in Trees /\ Agree(r) /\ InWeight(r, weight) /\ weight \in [Objects -> Nat]
          /\ map \in Seq(A) /\ (r.rec[o] \in Objects => r.rec[o] \in A) /\ r.up[o] = None
      BY <1>2, <1>4, <2>1, <2>2
    <2> HIDE DEF A, r
    <2> DEFINE c == AddToParent(r, map, o)
    <2>4. /\ \A x \in Objects \ {o} : c.up[x] = r.up[x] /\ c.rec[x] = r.rec[x]
          /\ \/ c.up[o] = NoAdd /\ c.rec[o] = r.rec[o] /\ FindParent(r, map, o) = None
             \/ /\ c.up[o] \in A \cup {Root} /\ c.rec[o] = c.up[o]
                /\ c.up[o] = FindParent(r, map, o)
      BY ONLY <2>3, BelongsFacts
    <2> HIDE DEF c
    <2> QED BY <1>2, <2>3, <2>4 DEF c, r
  <1>11. FindParent(tree, map, o) = None => Homeless(map, o)
    <2>1. map \in Seq(Objects)
      BY <1>2, <1>3 DEF TypeOK
    <2> HIDE DEF map
    <2> QED BY <1>2, <1>3, <2>1, FoundNone
  <1> HIDE DEF map
  <1>12. CASE ParentName[o] = None /\ hidden' = hidden /\ Comes(AddChild(tree, NoParent, o, FALSE), o, {})
    <2>1. up' = AddChild(tree, NoParent, o, FALSE).up /\ rec' = AddChild(tree, NoParent, o, FALSE).rec
          /\ Arrives(o, {})
      BY <1>6, <1>7, <1>8, <1>12
    <2> HIDE DEF Arrives
    <2> QED BY <1>3, <1>4, <1>9, <1>12, <2>1
  <1>13. CASE hidden' = hidden \cup {o} /\ Comes(AddChild(tree, Hide, o, FALSE), o, {o})
    <2>1. up' = AddChild(tree, Hide, o, FALSE).up /\ rec' = AddChild(tree, Hide, o, FALSE).rec
          /\ Arrives(o, {o})
      BY <1>6, <1>7, <1>8, <1>13
    <2> QED BY <1>3, <1>4, <1>9, <1>13, <2>1
  <1>14. CASE o \notin hidden /\ hidden' = hidden /\ Comes(AddToParent(tree, map, o), o, {})
    <2>1. up' = AddToParent(tree, map, o).up /\ rec' = AddToParent(tree, map, o).rec
          /\ Arrives(o, {})
      BY <1>6, <1>7, <1>8, <1>14
    <2> QED BY <1>1, <1>3, <1>4, <1>10, <1>11, <1>14, <2>1
  <1> QED BY <1>1, <1>12, <1>13, <1>14

\* The second loop of addObject passes by what has no parent yet and gives the rest to it.
LEMMA FlushMoves ==
  ASSUME IInv, IInv', FlushStep, NEW o, o = Head(job.list)
  PROVE  /\ o \in Objects /\ up[o] = NoAdd
         /\ \/ /\ UNCHANGED <<kids, up, rec, linked, watched, search, plain>>
               /\ job' = [job EXCEPT !.list = Tail(job.list)]
               /\ Homeless(objMap, o)
            \/ /\ Arrives(o, {}) /\ up'[o] \in Objects \cup {Root} /\ rec'[o] = up'[o]
               /\ up'[o] = FindParent(tree, objMap, o)
               /\ \A x \in Objects \ {o} : up'[x] = up[x] /\ rec'[x] = rec[x]
               /\ job' = [job EXCEPT !.list = kids'[NoAdd]]
  <1> DEFINE p == FindParent(tree, objMap, o)
             r == RemoveChild(tree, NoAdd, o)
             t == AddChild(r, p, o, TRUE)
  <1>1. /\ job.kind = "flush" /\ job.list # <<>>
        /\ \/ /\ p = None /\ UNCHANGED <<kids, up, rec, linked, watched, search, plain>>
              /\ job' = [job EXCEPT !.list = Tail(job.list)]
           \/ p # None /\ Comes(t, o, {}) /\ job' = [job EXCEPT !.list = t.kids[NoAdd]]
    BY DEF FlushStep
  <1>2. /\ TypeOK /\ TypeOK' /\ tree \in Trees /\ tree.up = up /\ tree.rec = rec /\ weight \in [Objects -> Nat]
        /\ Agree(tree) /\ InWeight(tree, weight) /\ job.list \in Seq(Objects) /\ objMap \in Seq(Objects)
        /\ up \in [Objects -> Nodes \cup {None}] /\ rec \in [Objects -> Nodes \cup {None}]
    BY TreeType DEF IInv, ShapeInv, TreeInv, TypeOK
  <1>3. o \in Objects /\ Occurs(job.list, o)
    BY <1>1, <1>2, TailFacts
  <1>4. up[o] = NoAdd
    BY <1>1, <1>3 DEF IInv, JobInv
  <1>5. p = None => Homeless(objMap, o)
    BY <1>2, <1>3, FoundNone
  <1>6. CASE p # None /\ Comes(t, o, {}) /\ job' = [job EXCEPT !.list = t.kids[NoAdd]]
    <2>1. status[o] \notin {"unborn", "made", "dead"} /\ o \in Alive /\ NoAdd # None
      BY <1>3, <1>4, NodeFacts DEF IInv, PlaceInv, Alive
    <2>2. p \in Objects \cup {Root} /\ p \in Nodes
      <3>1. /\ Alive \subseteq Objects /\ objMap \in Seq(Alive)
            /\ \A x \in Alive : Owner[x] = None \/ status[x] = "leaving" \/ Owner[x] \in Alive
            /\ tree.rec[o] \in Objects => tree.rec[o] \in Alive
        BY <1>1, <1>2, <1>3, AliveFacts
      <3>2. o \in Alive /\ tree \in Trees
        BY <1>2, <2>1
      <3>3. p = None \/ (p \in Named(o) /\ p \in Alive \cup {Root})
        BY ONLY <3>1, <3>2, FindParentFacts
      <3> QED BY <1>6, <3>1, <3>3, NodeFacts
    <2>3. Shaped(t) /\ Comes(t, o, {})
      <3>1. \A q : Shaped(AddChild(RemoveChild(tree, NoAdd, o), q, o, TRUE))
        BY ShapedFacts
      <3> QED BY <1>6, <3>1
    <2> HIDE DEF p
    <2>4. r \in Trees /\ Agree(r) /\ InWeight(r, weight) /\ r.rec = rec /\ r.up = [up EXCEPT ![o] = None]
      <3>1. NoAdd \in Nodes /\ tree.up[o] = NoAdd /\ o \in Objects /\ tree \in Trees /\ Agree(tree)
        BY <1>2, <1>3, <1>4, NodeFacts
      <3>2. r \in Trees /\ Agree(r) /\ r.rec = tree.rec /\ r.up = [tree.up EXCEPT ![o] = None]
        BY ONLY <3>1, RemoveChildThere
      <3>3. \A w : InWeight(tree, w) => InWeight(r, w)
        BY ONLY <3>1, RemoveChildThere
      <3> QED BY <1>2, <3>2, <3>3
    <2> HIDE DEF r
    <2>5. r.up[o] = None
      BY <1>2, <1>3, <2>4
    <2>6. /\ \A x \in Objects \ {o} : t.up[x] = r.up[x] /\ t.rec[x] = r.rec[x]
          /\ t.up[o] = p /\ t.rec[o] = p
      <3>1. t = Put(r, p, o)
        BY <1>6 DEF Put
      <3>2. p \in Objects \cup {Root, None}
        BY <2>2
      <3> HIDE DEF t
      <3>3. /\ r \in Trees /\ Agree(r) /\ InWeight(r, weight) /\ weight \in [Objects -> Nat]
            /\ o \in Objects /\ p \in Objects \cup {Root, None}
            /\ r.up[o] = None \/ (r.up[o] = p /\ r.rec[o] = p)
        BY <1>2, <1>3, <2>4, <2>5, <3>2
      <3>4. /\ \A x \in Objects \ {o} : t.up[x] = r.up[x] /\ t.rec[x] = r.rec[x]
            /\ p # None => t.up[o] = p /\ t.rec[o] = p
        BY ONLY <3>1, <3>3, PutFacts
      <3> QED BY <1>6, <3>4
    <2>7. kids' = t.kids /\ up' = t.up /\ rec' = t.rec /\ Arrives(o, {})
      BY <1>2, <1>3, <2>3, ComesMeans DEF Comes
    <2> HIDE DEF t
    <2> HIDE DEF Arrives
    <2>8. up'[o] = p /\ rec'[o] = p /\ \A x \in Objects \ {o} : up'[x] = up[x] /\ rec'[x] = rec[x]
      BY <1>2, <1>3, <2>4, <2>6, <2>7
    <2> QED BY <1>3, <1>4, <1>6, <2>2, <2>7, <2>8 DEF p
  <1> QED BY <1>1, <1>3, <1>4, <1>5, <1>6

\* At the end of onVisible(true) the object stays in the tree, or goes from where it was kept
\* to its parent, or waits.
LEMMA EndRevealMoves ==
  ASSUME IInv, IInv', EndReveal, NEW o, o = job.of
  PROVE  /\ o \in Objects /\ Arrives(o, {})
         /\ \A x \in Objects \ {o} : up'[x] = up[x] /\ rec'[x] = rec[x]
         /\ \/ up[o] \in Objects \cup {Root} /\ up'[o] = up[o] /\ rec'[o] = rec[o]
            \/ /\ up[o] \in {None, Hide}
               /\ \/ up'[o] = NoAdd /\ rec'[o] = rec[o] /\ Homeless(objMap, o)
                  \/ up'[o] \in Objects \cup {Root} /\ rec'[o] = up'[o] /\ up'[o] = FindParent(tree, objMap, o)
  <1> DEFINE r == RemoveChild(tree, Hide, o)
             t == AddToParent(r, objMap, o)
  <1>1. job.kind = "reveal" /\ Comes(t, o, {})
    BY DEF EndReveal
  <1>2. /\ TypeOK /\ TypeOK' /\ tree \in Trees /\ tree.up = up /\ tree.rec = rec /\ weight \in [Objects -> Nat]
        /\ Agree(tree) /\ InWeight(tree, weight) /\ watched \subseteq Objects /\ objMap \in Seq(Objects)
        /\ up \in [Objects -> Nodes \cup {None}] /\ status \in [Objects -> {"unborn", "made", "known", "leaving", "dead"}]
    BY TreeType DEF IInv, ShapeInv, TreeInv, TypeOK
  <1>3. /\ o \in Objects /\ ParentName[o] # None
        /\ status[o] \notin {"unborn", "made", "dead"}
        /\ up[o] # NoAdd /\ o \in Alive
    BY <1>1, <1>2 DEF IInv, SeenInv, Alive
  <1>4. up[o] \in {None, Hide} \cup Objects \cup {Root}
    BY <1>2, <1>3 DEF IInv, PlaceInv, Nodes, Own
  <1>5. /\ r \in Trees /\ Agree(r) /\ InWeight(r, weight) /\ r.rec = rec
        /\ r.up = IF up[o] = Hide THEN [up EXCEPT ![o] = None] ELSE up
    <2>1. CASE up[o] = Hide
      <3>1. Hide \in Nodes /\ tree.up[o] = Hide /\ o \in Objects /\ tree \in Trees /\ Agree(tree)
        BY <1>2, <1>3, <2>1, NodeFacts
      <3>2. r \in Trees /\ Agree(r) /\ r.rec = tree.rec /\ r.up = [tree.up EXCEPT ![o] = None]
        BY ONLY <3>1, RemoveChildThere
      <3>3. \A w : InWeight(tree, w) => InWeight(r, w)
        BY ONLY <3>1, RemoveChildThere
      <3> QED BY <1>2, <2>1, <3>2, <3>3
    <2>2. CASE up[o] # Hide
      <3>1. r = tree
        BY <1>2, <1>3, <2>2, NodeFacts, RemoveChildNotThere
      <3> QED BY <1>2, <2>2, <3>1
    <2> QED BY <2>1, <2>2
  <1>6. Shaped(t)
    BY ShapedFacts
  <1>7. up' = t.up /\ rec' = t.rec /\ Arrives(o, {})
    BY <1>1, <1>2, <1>3, <1>6, ComesMeans DEF Comes
  <1> HIDE DEF r
  <1>8. /\ \A x \in Objects \ {o} : r.up[x] = up[x]
        /\ up[o] \in {None, Hide} => r.up[o] = None
        /\ up[o] \notin {None, Hide} => r.up[o] = up[o]
    BY <1>2, <1>3, <1>5
  <1>9. r.up[o] = None \/ (r.up[o] \in Objects \cup {Root} /\ r.rec[o] = r.up[o] /\ r.up[o] \in Named(o))
    BY <1>3, <1>4, <1>5, <1>8, ChildOf
  <1>10. FindParent(r, objMap, o) = None => Homeless(objMap, o)
    BY <1>2, <1>3, <1>5, FoundNone
  <1>11. /\ \A x \in Objects \ {o} : t.up[x] = r.up[x] /\ t.rec[x] = r.rec[x]
         /\ r.up[o] # None => t = r
         /\ \/ t.up[o] = NoAdd /\ t.rec[o] = r.rec[o] /\ FindParent(r, objMap, o) = None
            \/ t.up[o] \in Objects \cup {Root} /\ t.rec[o] = t.up[o] /\ t.up[o] = FindParent(r, objMap, o)
    <2>1. /\ Alive \subseteq Objects /\ objMap \in Seq(Alive)
          /\ \A x \in Alive : Owner[x] = None \/ status[x] = "leaving" \/ Owner[x] \in Alive
          /\ r.rec[o] \in Objects => r.rec[o] \in Alive
      BY <1>1, <1>3, <1>5, AliveFacts
    <2> DEFINE A == Alive
    <2>2. /\ A \in SUBSET Objects /\ o \in A
          /\ \A x \in A : Owner[x] = None \/ status[x] = "leaving" \/ Owner[x] \in A
          /\ r \in Trees /\ Agree(r) /\ InWeight(r, weight) /\ weight \in [Objects -> Nat]
          /\ objMap \in Seq(A) /\ (r.rec[o] \in Objects => r.rec[o] \in A)
          /\ r.up[o] = None \/ (r.up[o] \in Objects \cup {Root} /\ r.rec[o] = r.up[o] /\ r.up[o] \in Named(o))
      BY <1>2, <1>3, <1>5, <1>9, <2>1
    <2> HIDE DEF A, t
    <2> DEFINE c == AddToParent(r, objMap, o)
    <2>3. /\ \A x \in Objects \ {o} : c.up[x] = r.up[x] /\ c.rec[x] = r.rec[x]
          /\ r.up[o] # None => c = r
          /\ \/ c.up[o] = NoAdd /\ c.rec[o] = r.rec[o] /\ FindParent(r, objMap, o) = None
             \/ c.up[o] \in A \cup {Root} /\ c.rec[o] = c.up[o] /\ c.up[o] = FindParent(r, objMap, o)
      <3>1. \A m : m \in Seq(A) =>
              LET d == AddToParent(r, m, o)
              IN /\ \A x \in Objects \ {o} : d.up[x] = r.up[x] /\ d.rec[x] = r.rec[x]
                 /\ r.up[o] # None => d = r
                 /\ \/ d.up[o] = NoAdd /\ d.rec[o] = r.rec[o] /\ FindParent(r, m, o) = None
                    \/ d.up[o] \in A \cup {Root} /\ d.rec[o] = d.up[o] /\ d.up[o] = FindParent(r, m, o)
        <4> SUFFICES ASSUME NEW m \in Seq(A)
                     PROVE LET d == AddToParent(r, m, o)
              IN /\ \A x \in Objects \ {o} : d.up[x] = r.up[x] /\ d.rec[x] = r.rec[x]
                 /\ r.up[o] # None => d = r
                 /\ \/ d.up[o] = NoAdd /\ d.rec[o] = r.rec[o] /\ FindParent(r, m, o) = None
                    \/ d.up[o] \in A \cup {Root} /\ d.rec[o] = d.up[o] /\ d.up[o] = FindParent(r, m, o)
          OBVIOUS
        <4> QED BY ONLY <2>2, m \in Seq(A), BelongsFacts, SMTT(60)
      <3> QED BY <2>2, <3>1
    <2>4. t = c
      BY DEF t
    <2> HIDE DEF c
    <2> QED BY <2>2, <2>3, <2>4
  <1> HIDE DEF t
  <1>12. None \notin Objects \cup {Root} /\ Hide \notin Objects \cup {Root}
    BY NodeFacts
  <1>13. up[o] \in Objects \cup {Root} => up'[o] = up[o] /\ rec'[o] = rec[o]
    BY <1>5, <1>7, <1>8, <1>11, <1>12
  <1>14. FindParent(tree, objMap, o) = FindParent(r, objMap, o)
    BY <1>2, <1>5 DEF FindParent
  <1> HIDE DEF Arrives
  <1> QED BY <1>3, <1>4, <1>5, <1>7, <1>8, <1>10, <1>11, <1>13, <1>14

\* onVisible(false) takes the object to Hide.
LEMMA HideObjectMoves ==
  ASSUME IInv, HideObject, NEW o, o = Head(queue).obj
  PROVE  /\ o \in Objects /\ Departs(o, {}) /\ rec' = rec
         /\ \A x \in Objects : up'[x] = IF x = o THEN Hide ELSE up[x]
  <1>1. /\ job = Idle /\ queue # <<>> /\ Head(queue).call = "hide" /\ queue' = Tail(queue)
        /\ Leaves(AddChild(Detach(tree, o), Hide, o, FALSE), o, {})
        /\ UNCHANGED <<status, objMap, weight, hidden>>
    BY DEF HideObject, Delivers
  <1>2. TypeOK /\ {} \in SUBSET Objects
    BY DEF IInv, ShapeInv
  <1>3. o \in Objects /\ status[o] \notin {"unborn", "made", "dead"}
    <2>1. queue \in Seq(Posts)
      BY <1>2, QueueType
    <2>2. Head(queue) = queue[1] /\ 1 \in 1..Len(queue)
      BY <1>1, <2>1
    <2>3. o \in Objects /\ o \in watched /\ status[o] \notin {"unborn", "dead"}
      BY <1>1, <1>2, <2>2, QueueType DEF IInv, QueueInv
    <2> QED BY <2>3 DEF IInv, SeenInv
  <1>4. Departs(o, {})
    BY <1>1, <1>2, <1>3, LeavesMeans
  <1>5. rec' = rec /\ \A x \in Objects : up'[x] = IF x = o THEN Hide ELSE up[x]
    BY <1>1, <1>2, <1>3, GoesToHide
  <1> QED BY <1>3, <1>4, <1>5

\* onVisible(true) takes what is hidden below the object to Hide, and goes on to the children
\* of the rest.
LEMMA RevealStepMoves ==
  ASSUME IInv, RevealStep, NEW o, o = Head(job.list)
  PROVE  /\ o \in Objects
         /\ \/ /\ o \notin hidden /\ UNCHANGED <<kids, up, rec, linked, watched, search, plain, missed>>
               /\ job' = [job EXCEPT !.list = Tail(job.list) \o kids[o]]
            \/ /\ o \in hidden /\ Departs(o, {o}) /\ rec' = rec
               /\ \A x \in Objects : up'[x] = IF x = o THEN Hide ELSE up[x]
               /\ job' = [job EXCEPT !.list = Tail(job.list)]
  <1>1. /\ job.kind = "reveal" /\ job.list # <<>> /\ UNCHANGED <<status, objMap, weight>>
        /\ \/ /\ o \notin hidden /\ UNCHANGED <<kids, up, rec, linked, watched, search, plain, missed>>
              /\ job' = [job EXCEPT !.list = Tail(job.list) \o kids[o]]
           \/ /\ o \in hidden /\ Leaves(AddChild(Detach(tree, o), Hide, o, FALSE), o, {o})
              /\ job' = [job EXCEPT !.list = Tail(job.list)]
    BY DEF RevealStep
  <1>2. TypeOK /\ job.list \in Seq(Objects)
    BY DEF IInv, ShapeInv, TypeOK
  <1>3. o \in Objects /\ Occurs(job.list, o)
    BY <1>1, <1>2, TailFacts
  <1>4. status[o] \notin {"unborn", "made", "dead"} /\ {o} \in SUBSET Objects
    BY <1>1, <1>3 DEF IInv, JobInv
  <1>5. CASE o \in hidden /\ Leaves(AddChild(Detach(tree, o), Hide, o, FALSE), o, {o})
    <2>1. Departs(o, {o})
      BY <1>2, <1>3, <1>5, LeavesMeans
    <2>2. rec' = rec /\ \A x \in Objects : up'[x] = IF x = o THEN Hide ELSE up[x]
      BY <1>1, <1>3, <1>4, <1>5, GoesToHide
    <2> HIDE DEF Departs
    <2> QED BY <1>1, <1>3, <1>5, <2>1, <2>2
  <1> HIDE DEF Departs
  <1> QED BY <1>1, <1>3, <1>5

\* A destroyed object leaves its place and lets go of its children.
LEMMA DestroyMoves ==
  ASSUME IInv, DestroyStep, NEW o, o = Head(job.list)
  PROVE  /\ o \in Objects /\ Occurs(job.list, o) /\ Departs(o, {})
         /\ \A x \in Objects : up'[x] = IF x = o \/ up[x] = o THEN None ELSE up[x]
         /\ \A x \in Objects : rec'[x] = IF rec[x] = o THEN None ELSE rec[x]
  <1>1. job.kind = "destroy" /\ job.list # <<>> /\ Leaves(Erase(tree, o), o, {})
    BY DEF DestroyStep
  <1>2. /\ TypeOK /\ job.list \in Seq(Objects) /\ tree \in Trees /\ Agree(tree)
        /\ tree.up = up /\ tree.rec = rec
    BY TreeType DEF IInv, ShapeInv, TreeInv, TypeOK
  <1>3. o \in Objects /\ Occurs(job.list, o)
    BY <1>1, <1>2, TailFacts
  <1>4. Departs(o, {})
    BY <1>1, <1>2, <1>3, LeavesMeans
  <1> DEFINE t == Erase(tree, o)
  <1>5. /\ \A c \in Objects : t.up[c] = IF c = o \/ tree.up[c] = o THEN None ELSE tree.up[c]
        /\ \A c \in Objects : t.rec[c] = IF tree.rec[c] = o THEN None ELSE tree.rec[c]
    BY <1>2, <1>3, EraseFacts
  <1>6. up' = t.up /\ rec' = t.rec
    BY <1>1 DEF Leaves
  <1> HIDE DEF t
  <1>7. /\ \A x \in Objects : up'[x] = IF x = o \/ up[x] = o THEN None ELSE up[x]
        /\ \A x \in Objects : rec'[x] = IF rec[x] = o THEN None ELSE rec[x]
    BY <1>2, <1>5, <1>6
  <1> QED BY <1>3, <1>4, <1>7

\* An object a repeater lets go of leaves its place, or stays.
LEMMA WithdrawMoves ==
  ASSUME IInv, NEW o \in Objects, Withdraw(o)
  PROVE  /\ Departs(o, {}) /\ rec' = rec
         /\ \A x \in Objects : up'[x] = up[x] \/ (x = o /\ up'[x] = None)
  <1> DEFINE t == IF rec[o] \in Known THEN Detach(tree, o) ELSE tree
  <1>1. Leaves(t, o, {})
    BY DEF Withdraw
  <1>2. /\ TypeOK /\ tree \in Trees /\ Agree(tree) /\ tree.up = up /\ tree.rec = rec
        /\ up \in [Objects -> Nodes \cup {None}]
    BY TreeType DEF IInv, ShapeInv, TreeInv, TypeOK
  <1>3. t.rec = rec /\ (t.up = up \/ t.up = [up EXCEPT ![o] = None])
    BY <1>2, DetachFacts
  <1> HIDE DEF t
  <1>4. Departs(o, {})
    BY <1>1, <1>2, LeavesMeans
  <1>5. up' = t.up /\ rec' = t.rec
    BY <1>1 DEF Leaves
  <1> QED BY <1>2, <1>3, <1>4, <1>5

-----------------------------------------------------------------------------
(* What the search has.                                                     *)

\* Nothing linked hangs in a circle.
RootedInv == \A S \in SUBSET (linked \cap Objects) : (\A x \in S : up[x] \in S) => S = {}

\* The list the search stands for has the searchable objects of the tree, each once unless
\* something above it was renamed.
EntryInv ==
  \A o \in Objects :
    /\ Has(plain, o) <=> o \in linked /\ o \in Searchable
    /\ o \notin renamed => Once(plain, o)

\* What comes was not linked, and the node it comes to is not below it.
LEMMA ArrivesFresh ==
  ASSUME IInv, IInv', NEW o \in Objects, up'[o] # up[o], up'[o] \in linked,
         \A x \in Objects \ {o} : up'[x] = up[x], up[o] \notin Objects \cup {Root}
  PROVE  /\ Below(tree', o) \cap linked = {} /\ up'[o] \notin Below(tree', o)
         /\ o \in Below(tree', o) /\ Below(tree', o) \subseteq Objects
  <1>1. tree' \in Trees /\ Agree(tree') /\ tree'.up = up'
    <2>1. TypeOK' /\ TreeInv'
      BY DEF IInv, ShapeInv
    <2> QED BY <2>1 DEF TreeInv, TypeOK, tree, Trees
  <1>2. o \notin linked
    BY DEF IInv, LinkInv
  <1>3. \A x \in Objects \ {o} : x \in linked <=> tree'.up[x] \in linked
    BY <1>1 DEF IInv, LinkInv
  <1>4. \A x \in Below(tree', o) : x \in linked <=> o \in linked
    BY <1>1, <1>3, LinkedBelow
  <1>5. o \in Below(tree', o) /\ Below(tree', o) \subseteq Objects
    BY <1>1, BelowUp
  <1> QED BY <1>2, <1>4, <1>5

\* An object that comes keeps the tree free of circles.
LEMMA ArrivesRooted ==
  ASSUME IInv, IInv', RootedInv, NEW o \in Objects, NEW E, Arrives(o, E),
         \A x \in Objects \ {o} : up'[x] = up[x],
         up'[o] = up[o] \/ up[o] \notin Objects \cup {Root}
  PROVE  RootedInv'
  <1>1. CASE up'[o] # up[o] /\ up'[o] \in linked
    <2>1. PICK B : B = Below(tree', o)
      OBVIOUS
    <2>2. /\ B \cap linked = {} /\ up'[o] \notin B /\ o \in B /\ B \subseteq Objects
          /\ linked' = linked \cup B
      BY <1>1, <2>1, ArrivesFresh DEF Arrives
    <2>3. tree' \in Trees /\ Agree(tree') /\ tree'.up = up'
      <3>1. TypeOK' /\ TreeInv'
        BY DEF IInv, ShapeInv
      <3> QED BY <3>1 DEF TreeInv, TypeOK, tree, Trees
    <2>4. \A x \in Objects : x \in linked <=> up[x] \in linked
      BY DEF IInv, LinkInv
    <2>5. \A x \in Objects : up'[x] \in B => x \in B
      BY <2>1, <2>3, BelowUp
    <2> SUFFICES ASSUME NEW S \in SUBSET (linked' \cap Objects), \A x \in S : up'[x] \in S
                 PROVE  S = {}
      BY DEF RootedInv
    <2>6. S \ B = {}
      <3>1. S \ B \in SUBSET (linked \cap Objects)
        BY <2>2
      <3>2. \A x \in S \ B : up[x] \in S \ B
        BY <2>2, <2>4
      <3> QED BY <3>1, <3>2 DEF RootedInv
    <2>7. o \notin S
      BY <2>2, <2>6
    <2>8. B \subseteq B \ S
      <3>1. \A x \in Objects : up'[x] \in B \ S => x \in B \ S
        BY <2>5
      <3>2. B \ S \in SUBSET Objects /\ o \in B \ S
        BY <2>2, <2>7
      <3>3. Below(tree', o) \subseteq B \ S
        BY <2>3, <3>1, <3>2, BelowLeast
      <3> QED BY <2>1, <3>3
    <2> QED BY <2>6, <2>8
  <1>2. CASE ~(up'[o] # up[o] /\ up'[o] \in linked)
    <2>1. linked' = linked
      BY <1>2 DEF Arrives
    <2>2. up'[o] = up[o] \/ (o \notin linked /\ up'[o] \notin linked)
      BY <1>2 DEF IInv, LinkInv
    <2> QED BY <2>1, <2>2 DEF RootedInv
  <1> QED BY <1>1, <1>2

\* Nothing that leaves makes a circle.
LEMMA DepartsRooted ==
  ASSUME RootedInv, linked' \subseteq linked,
         \A x \in Objects : up'[x] = up[x] \/ up'[x] \notin Objects
  PROVE  RootedInv'
  <1> SUFFICES ASSUME NEW S \in SUBSET (linked' \cap Objects), \A x \in S : up'[x] \in S
               PROVE  S = {}
    BY DEF RootedInv
  <1>1. S \in SUBSET (linked \cap Objects) /\ \A x \in S : up[x] \in S
    OBVIOUS
  <1> QED BY <1>1 DEF RootedInv

\* The entries of what comes are added once.
LEMMA ArrivesEntries ==
  ASSUME IInv, IInv', SearchInv, EntryInv, NEW o \in Objects, NEW E, Arrives(o, E),
         \A x \in Objects \ {o} : up'[x] = up[x],
         up'[o] = up[o] \/ up[o] \notin Objects \cup {Root}, renamed' = renamed
  PROVE  EntryInv'
  <1>1. CASE ~(up'[o] # up[o] /\ up'[o] \in linked)
    BY <1>1 DEF Arrives, EntryInv
  <1>2. CASE up'[o] # up[o] /\ up'[o] \in linked
    <2>1. PICK B : B = Below(tree', o)
      OBVIOUS
    <2>2. PICK s : s = Subtree(tree', o)
      OBVIOUS
    <2>3. PICK es : es = Entries(tree', s)
      OBVIOUS
    <2>4. linked' = linked \cup B /\ plain' = AllPlaced(plain, es)
      BY <1>2, <2>1, <2>2, <2>3 DEF Arrives
    <2>5. B \cap linked = {} /\ up'[o] \notin B /\ B \subseteq Objects
      BY <1>2, <2>1, ArrivesFresh
    <2>6. tree' \in Trees /\ Agree(tree') /\ tree'.up = up'
      <3>1. TypeOK' /\ TreeInv'
        BY DEF IInv, ShapeInv
      <3> QED BY <3>1 DEF TreeInv, TypeOK, tree, Trees
    <2>7. s \in Seq(Objects) /\ Distinct(s) /\ \A x \in Objects : Occurs(s, x) <=> x \in B
      BY <2>1, <2>2, <2>5, <2>6, SubtreeFacts, SubtreeDistinct DEF Below
    <2>8. weight \in [Objects -> Nat]
      BY DEF IInv, ShapeInv, TypeOK
    <2>9. /\ es \in Seq(Entry)
          /\ \A x \in Objects : (Has(es, x) <=> x \in B /\ x \in Searchable) /\ Once(es, x)
      BY <2>3, <2>7, <2>8, EntriesHas
    <2>10. \A x \in Objects :
              /\ Has(plain', x) <=> Has(plain, x) \/ Has(es, x)
              /\ Once(plain, x) /\ ~Has(es, x) => Once(plain', x)
              /\ Once(es, x) /\ ~Has(plain, x) => Once(plain', x)
      BY <2>4, <2>9, EntryWeighted, AllPlacedHas DEF SearchInv
    <2> SUFFICES ASSUME NEW x \in Objects
                 PROVE  /\ Has(plain', x) <=> x \in linked' /\ x \in Searchable
                        /\ x \notin renamed' => Once(plain', x)
      BY DEF EntryInv
    <2>11. Has(plain, x) <=> x \in linked /\ x \in Searchable
      BY DEF EntryInv
    <2>12. Has(plain', x) <=> x \in linked' /\ x \in Searchable
      BY <2>4, <2>9, <2>10, <2>11
    <2>13. ASSUME x \notin renamed PROVE Once(plain', x)
      <3>1. Once(plain, x)
        BY <2>13 DEF EntryInv
      <3>2. CASE x \in B
        BY <2>5, <2>9, <2>10, <2>11, <3>2
      <3>3. CASE x \notin B
        BY <2>9, <2>10, <3>1, <3>3
      <3> QED BY <3>2, <3>3
    <2> QED BY <2>12, <2>13
  <1> QED BY <1>1, <1>2

\* The entries of what leaves are taken out.
LEMMA DepartsEntries ==
  ASSUME SearchInv, EntryInv, NEW o \in Objects, NEW E, Departs(o, E), renamed' = renamed
  PROVE  EntryInv' /\ linked' \subseteq linked
  <1>1. CASE ~(up'[o] # up[o] /\ up[o] \in linked)
    BY <1>1 DEF Departs, EntryInv
  <1>2. CASE up'[o] # up[o] /\ up[o] \in linked
    <2>1. PICK B : B = Below(tree, o)
      OBVIOUS
    <2>2. linked' = linked \ B /\ plain' = Without(plain, B)
      BY <1>2, <2>1 DEF Departs
    <2>3. \A x \in Objects : /\ Has(plain', x) <=> Has(plain, x) /\ x \notin B
                             /\ Once(plain, x) => Once(plain', x)
      <3>1. plain \in Seq(Entry)
        BY DEF SearchInv, Fits
      <3> QED BY <2>2, <3>1, WithoutHas
    <2>4. \A x \in Objects : Has(plain, x) <=> x \in linked /\ x \in Searchable
      BY DEF EntryInv
    <2>5. \A x \in Objects : x \notin renamed => Once(plain, x)
      BY DEF EntryInv
    <2>6. \A x \in Objects : Has(plain', x) <=> x \in linked' /\ x \in Searchable
      BY <2>2, <2>3, <2>4
    <2>7. \A x \in Objects : x \notin renamed' => Once(plain', x)
      BY <2>3, <2>5
    <2> QED BY <2>2, <2>6, <2>7 DEF EntryInv
  <1> QED BY <1>1, <1>2

\* A renamed object is taken out and added with what is below it, which the search has.
LEMMA RenameEntries ==
  ASSUME IInv, SearchInv, EntryInv, RootedInv, NEW o \in Objects, Rename(o)
  PROVE  EntryInv'
  <1>1. PICK B : B = Below(tree, o)
    OBVIOUS
  <1>2. PICK s : s = Subtree(tree, o)
    OBVIOUS
  <1>3. PICK es : es = Entries(tree, s)
    OBVIOUS
  <1>4. PICK p : p = Without(plain, {o})
    OBVIOUS
  <1>5. /\ tree \in Trees /\ Agree(tree) /\ tree.up = up /\ weight \in [Objects -> Nat]
        /\ TypeOK
    BY TreeType DEF IInv, ShapeInv, TreeInv, TypeOK
  <1>6. ToSet(s) = B
    BY <1>1, <1>2, <1>5, BelowSet
  <1>7. /\ o \in linked /\ plain' = AllPlaced(p, es) /\ renamed' = renamed \cup (B \ {o})
        /\ linked' = linked /\ job = Idle
    BY <1>2, <1>3, <1>4, <1>6 DEF Rename
  <1>8. o \in B /\ B \subseteq Objects /\ \A x \in B : x # o => up[x] \in B
    BY <1>1, <1>5, BelowUp
  <1>9. B \subseteq linked
    <2>1. \A x \in Objects \ {o} : x \in linked <=> tree.up[x] \in linked
      BY <1>5 DEF IInv, LinkInv
    <2>2. \A x \in B : x \in linked <=> o \in linked
      BY <1>1, <1>5, <2>1, LinkedBelow
    <2> QED BY <1>7, <2>2
  <1>10. up[o] \notin B
    <2> SUFFICES ASSUME up[o] \in B PROVE FALSE
      OBVIOUS
    <2>1. B \in SUBSET (linked \cap Objects) /\ \A x \in B : up[x] \in B
      BY <1>8, <1>9
    <2> QED BY <1>8, <2>1 DEF RootedInv
  <1>11. s \in Seq(Objects) /\ Distinct(s) /\ \A x \in Objects : Occurs(s, x) <=> x \in B
    BY <1>1, <1>2, <1>5, <1>10, SubtreeFacts, SubtreeDistinct DEF Below
  <1>12. /\ es \in Seq(Entry)
         /\ \A x \in Objects : (Has(es, x) <=> x \in B /\ x \in Searchable) /\ Once(es, x)
    BY <1>3, <1>5, <1>11, EntriesHas
  <1>13. \A x \in Objects : /\ Has(p, x) <=> Has(plain, x) /\ x # o
                            /\ Once(plain, x) => Once(p, x)
    <2>1. plain \in Seq(Entry)
      BY DEF SearchInv, Fits
    <2> QED BY <1>4, <2>1, WithoutHas
  <1>14. Fits(Entry, RemoveSearchData(search, {o}), p)
    <2>1. search.depth = 0
      BY <1>7, NoBatch
    <2> QED BY <1>4, <2>1, EntryWeighted, FitsDrop DEF SearchInv
  <1>15. \A x \in Objects :
            /\ Has(plain', x) <=> Has(p, x) \/ Has(es, x)
            /\ Once(p, x) /\ ~Has(es, x) => Once(plain', x)
            /\ Once(es, x) /\ ~Has(p, x) => Once(plain', x)
    BY <1>7, <1>12, <1>14, EntryWeighted, AllPlacedHas
  <1> SUFFICES ASSUME NEW x \in Objects
               PROVE  /\ Has(plain', x) <=> x \in linked' /\ x \in Searchable
                      /\ x \notin renamed' => Once(plain', x)
    BY DEF EntryInv
  <1>16. Has(plain, x) <=> x \in linked /\ x \in Searchable
    BY DEF EntryInv
  <1>17. Has(plain', x) <=> x \in linked' /\ x \in Searchable
    BY <1>7, <1>8, <1>9, <1>12, <1>13, <1>15, <1>16
  <1>18. ASSUME x \notin renamed' PROVE Once(plain', x)
    <2>1. Once(plain, x)
      BY <1>7, <1>18 DEF EntryInv
    <2>2. CASE x \in B
      BY <1>7, <1>12, <1>13, <1>15, <1>18, <2>2
    <2>3. CASE x \notin B
      BY <1>12, <1>13, <1>15, <2>1, <2>3
    <2> QED BY <2>2, <2>3
  <1> QED BY <1>17, <1>18

\* The steps that move nothing.
LEMMA StillSteps ==
  ASSUME [Next]_vars,
         ~(\E o \in Objects : Rename(o) \/ Withdraw(o)),
         ~(HideObject \/ RevealStep \/ DestroyStep), ~(AnnounceStep \/ FlushStep \/ EndReveal)
  PROVE  UNCHANGED <<up, linked, plain, renamed>>
  <1>1. ASSUME NEW o \in Objects, Make(o) \/ Announce(o) PROVE UNCHANGED <<up, linked, plain, renamed>>
    BY <1>1 DEF Make, Announce, StartAnnounce
  <1>2. ASSUME NEW o \in Objects, ChangeVisible(o) \/ \E w \in Weights : ChangeWeight(o, w)
        PROVE  UNCHANGED <<up, linked, plain, renamed>>
    BY <1>2 DEF ChangeVisible, ChangeWeight
  <1>3. CASE StartReveal \/ StartDestroy \/ StartFlush \/ EndFlush \/ EndDestroy
    BY <1>3 DEF StartReveal, StartDestroy, StartFlush, EndFlush, EndDestroy
  <1>4. CASE UNCHANGED vars
    BY <1>4 DEF vars
  <1>5. Deliver => HideObject \/ StartReveal \/ StartDestroy
    BY DEF Deliver
  <1>6. JobStep => AnnounceStep \/ StartFlush \/ FlushStep \/ EndFlush
                    \/ RevealStep \/ EndReveal \/ DestroyStep \/ EndDestroy
    BY DEF JobStep
  <1>7. CASE Next
    BY ONLY <1>1, <1>2, <1>3, <1>5, <1>6, <1>7,
         ~(\E o \in Objects : Rename(o) \/ Withdraw(o)),
         ~(HideObject \/ RevealStep \/ DestroyStep), ~(AnnounceStep \/ FlushStep \/ EndReveal) DEF Next
  <1> QED BY <1>4, <1>7

\* Every step keeps the search and the tree together.
LEMMA EntriesKeep ==
  ASSUME IInv, IInv', SearchInv, EntryInv, RootedInv, [Next]_vars
  PROVE  EntryInv' /\ RootedInv'
  <1>1. ASSUME NEW o \in Objects, NEW E, Arrives(o, E),
               \A x \in Objects \ {o} : up'[x] = up[x],
               up'[o] = up[o] \/ up[o] \notin Objects \cup {Root}, renamed' = renamed
        PROVE  EntryInv' /\ RootedInv'
    BY <1>1, ArrivesEntries, ArrivesRooted
  <1>2. ASSUME NEW o \in Objects, NEW E, Departs(o, E), renamed' = renamed,
               \A x \in Objects : up'[x] = up[x] \/ up'[x] \notin Objects
        PROVE  EntryInv' /\ RootedInv'
    BY <1>2, DepartsEntries, DepartsRooted
  <1> HIDE DEF Arrives, Departs
  <1>3. /\ None \notin Objects /\ Hide \notin Objects \cup {Root} /\ NoAdd \notin Objects \cup {Root}
        /\ None \notin Objects \cup {Root}
    BY NodeFacts
  <1>4. ASSUME NEW o \in Objects, Rename(o) PROVE EntryInv' /\ RootedInv'
    <2>1. EntryInv'
      BY <1>4, RenameEntries
    <2>2. RootedInv'
      BY <1>4 DEF Rename, RootedInv
    <2> QED BY <2>1, <2>2
  <1>5. ASSUME NEW o \in Objects, Withdraw(o) PROVE EntryInv' /\ RootedInv'
    <2>1. Departs(o, {}) /\ \A x \in Objects : up'[x] = up[x] \/ up'[x] \notin Objects
      BY <1>3, <1>5, WithdrawMoves
    <2>2. renamed' = renamed
      BY <1>5 DEF Withdraw
    <2> QED BY <1>2, <2>1, <2>2
  <1>6. CASE HideObject
    <2>1. PICK o : o = Head(queue).obj
      OBVIOUS
    <2>2. o \in Objects /\ Departs(o, {}) /\ \A x \in Objects : up'[x] = up[x] \/ up'[x] \notin Objects
      BY <1>3, <1>6, <2>1, HideObjectMoves
    <2>3. renamed' = renamed
      BY <1>6 DEF HideObject
    <2> QED BY <1>2, <2>2, <2>3
  <1>7. CASE RevealStep
    <2>1. PICK o : o = Head(job.list)
      OBVIOUS
    <2>2. renamed' = renamed
      BY <1>7 DEF RevealStep
    <2>3. \/ UNCHANGED <<up, linked, plain>>
          \/ /\ o \in Objects /\ Departs(o, {o})
             /\ \A x \in Objects : up'[x] = up[x] \/ up'[x] \notin Objects
      BY <1>3, <1>7, <2>1, RevealStepMoves
    <2>4. CASE UNCHANGED <<up, linked, plain>>
      BY <2>2, <2>4 DEF EntryInv, RootedInv
    <2> QED BY <1>2, <2>2, <2>3, <2>4
  <1>8. CASE DestroyStep
    <2>1. PICK o : o = Head(job.list)
      OBVIOUS
    <2>2. o \in Objects /\ Departs(o, {}) /\ \A x \in Objects : up'[x] = up[x] \/ up'[x] \notin Objects
      BY <1>3, <1>8, <2>1, DestroyMoves
    <2>3. renamed' = renamed
      BY <1>8 DEF DestroyStep
    <2> QED BY <1>2, <2>2, <2>3
  <1>9. CASE AnnounceStep
    <2>1. PICK o : o = Head(job.list)
      OBVIOUS
    <2>2. /\ o \in Objects /\ up[o] = None /\ \A x \in Objects \ {o} : up'[x] = up[x]
          /\ \E E : Arrives(o, E)
      BY <1>9, <2>1, AnnounceMoves
    <2>3. renamed' = renamed
      BY <1>9 DEF AnnounceStep
    <2> QED BY <1>1, <1>3, <2>2, <2>3
  <1>10. CASE FlushStep
    <2>1. PICK o : o = Head(job.list)
      OBVIOUS
    <2>2. /\ o \in Objects /\ up[o] = NoAdd
          /\ \/ UNCHANGED <<up, linked, plain>>
             \/ Arrives(o, {}) /\ \A x \in Objects \ {o} : up'[x] = up[x]
      BY <1>10, <2>1, FlushMoves
    <2>3. renamed' = renamed
      BY <1>10 DEF FlushStep
    <2>4. CASE UNCHANGED <<up, linked, plain>>
      BY <2>3, <2>4 DEF EntryInv, RootedInv
    <2> QED BY <1>1, <1>3, <2>2, <2>3, <2>4
  <1>11. CASE EndReveal
    <2>1. PICK o : o = job.of
      OBVIOUS
    <2>2. /\ o \in Objects /\ Arrives(o, {}) /\ \A x \in Objects \ {o} : up'[x] = up[x]
          /\ up'[o] = up[o] \/ up[o] \notin Objects \cup {Root}
      BY <1>3, <1>11, <2>1, EndRevealMoves
    <2>3. renamed' = renamed
      BY <1>11 DEF EndReveal
    <2> QED BY <1>1, <2>2, <2>3
  <1>12. CASE UNCHANGED <<up, linked, plain, renamed>>
    BY <1>12 DEF EntryInv, RootedInv
  <1> QED BY <1>4, <1>5, <1>6, <1>7, <1>8, <1>9, <1>10, <1>11, <1>12, StillSteps

\* The search and the tree at the start.
LEMMA EntriesStart ==
  ASSUME Init
  PROVE  EntryInv /\ RootedInv
  <1>1. linked = {Root} /\ plain = <<>> /\ Root \notin Objects
    BY NodeFacts DEF Init
  <1>2. \A o : ~Has(plain, o) /\ Once(plain, o)
    BY <1>1 DEF Has, Once
  <1> QED BY <1>1, <1>2 DEF EntryInv, RootedInv

\* The invariants of the search hold of every state.
LEMMA EntriesHold == Spec => [](IInv /\ SearchInv /\ EntryInv /\ RootedInv)
  <1>1. IInv /\ SearchInv /\ EntryInv /\ RootedInv /\ [Next]_vars
          => IInv' /\ SearchInv' /\ EntryInv' /\ RootedInv'
    BY NextKeeps, SearchKeeps, EntriesKeep
  <1> QED BY InitInv, SearchStarts, EntriesStart, <1>1, PTL DEF Spec

\* The search finds exactly the searchable objects of the tree, each of them once unless
\* something above it was renamed: onObjectAdded and onObjectRemoved add and drop whole
\* subtrees, and an object never comes to a place it already has.
THEOREM SearchAlwaysMatchesTree == Spec => []SearchMatchesTree
  <1>1. ASSUME SearchInv, EntryInv PROVE SearchMatchesTree
    <2>1. PICK c : c = search.data \o search.batch
      OBVIOUS
    <2>2. c \in Seq(Entry) /\ plain \in Seq(Entry) /\ InPlace(plain, c)
      <3>1. search.data \in Seq(Entry) /\ search.batch \in Seq(Entry)
        BY <1>1 DEF SearchInv, Fits, Models
      <3>2. c \in Seq(Entry)
        BY <2>1, <3>1, ConcatProperties
      <3> QED BY <1>1, <2>1, <3>2 DEF SearchInv, Fits
    <2> SUFFICES ASSUME NEW o \in Objects
                 PROVE  LET S == {i \in DOMAIN c : c[i].obj = o}
                        IN /\ S # {} <=> o \in linked \cap Searchable
                           /\ o \notin renamed => Cardinality(S) <= 1
      BY <2>1 DEF SearchMatchesTree
    <2> DEFINE S == {i \in DOMAIN c : c[i].obj = o}
    <2>3. /\ Has(c, o) <=> o \in linked /\ o \in Searchable
          /\ o \notin renamed => Once(c, o)
      BY <1>1, <2>2, EntryWeighted, InPlaceHas DEF EntryInv
    <2>4. \A i : i \in S <=> i \in 1..Len(c) /\ c[i].obj = o
      BY <2>2
    <2> HIDE DEF S
    <2>5. S # {} <=> o \in linked \cap Searchable
      BY <2>3, <2>4 DEF Has
    <2>6. ASSUME o \notin renamed PROVE Cardinality(S) <= 1
      <3>1. \A i, j \in S : i = j
        BY <2>3, <2>4, <2>6 DEF Once
      <3>2. CASE S = {}
        BY <3>2, FS_EmptySet
      <3>3. ASSUME NEW i \in S PROVE Cardinality(S) <= 1
        <4>1. S = {i}
          BY <3>1, <3>3
        <4>2. Cardinality({i}) = 1
          BY FS_Singleton
        <4> QED BY <4>1, <4>2
      <3> QED BY <3>2, <3>3
    <2> QED BY <2>5, <2>6 DEF S
  <1> QED BY <1>1, EntriesHold, PTL

-----------------------------------------------------------------------------
(* What has been announced.                                                 *)

\* The objects that have been announced and live: a name of theirs is in the map.
Arrived ==
  {x \in Objects : status[x] \in {"known", "leaving"} /\ (Name[x] = None \/ Occurs(objMap, x))}

\* An object that has been announced, and its recommended parent too.
Settled(o) == o \in Arrived /\ (rec[o] \in Objects => rec[o] \in Arrived)

\* What is known, watched or in a list has been announced, after its owner and after its
\* recommended parent; before that the recommended parent is the owner.
ComeInv ==
  /\ \A o \in Objects : (status[o] = "known" \/ o \in watched \/ up[o] # None) /\ status[o] # "dead" =>
       Settled(o)
  /\ \A o \in Objects : status[o] = "known" =>
       Owner[o] = None \/ Owner[o] \in Arrived \/ status[Owner[o]] = "dead"
  /\ \A o \in Objects : status[o] = "made" => rec[o] \in {Owner[o], None}
  /\ \A i \in 1..Len(objMap) : objMap[i] \in Arrived
  /\ job.kind = "announce" => \A o \in Objects : Occurs(job.list, o) => Owner[o] = None \/ Owner[o] \in Arrived
  /\ job.kind = "reveal" => \A o \in Objects : Occurs(job.list, o) => Settled(o)

\* The parent of an object whose owner has been announced has been announced.
LEMMA ParentArrived ==
  ASSUME IInv, ComeInv, job.kind # "destroy", NEW o \in Objects,
         o \in Arrived \/ Owner[o] = None \/ Owner[o] \in Arrived,
         rec[o] \in Objects => rec[o] \in Arrived, NEW map \in Seq(Arrived \cup {o})
  PROVE  /\ FindParent(tree, map, o) = None \/ FindParent(tree, map, o) \in Named(o)
         /\ FindParent(tree, map, o) \in {None, Root} \cup Arrived
  <1> DEFINE A == Arrived \cup {o}
             p == FindParent(tree, map, o)
  <1>1. tree \in Trees /\ tree.rec = rec
    BY TreeType DEF IInv, ShapeInv
  <1>2. A \subseteq Objects /\ o \in A
    BY DEF Arrived
  <1>3. \A x \in A : Owner[x] = None \/ status[x] = "leaving" \/ Owner[x] \in A
    <2>1. ASSUME NEW x \in Arrived PROVE Owner[x] = None \/ status[x] = "leaving" \/ Owner[x] \in A
      <3>1. CASE status[x] = "known"
        <4>1. x \in Objects /\ (Owner[x] = None \/ Owner[x] \in Arrived \/ status[Owner[x]] = "dead")
          BY <3>1 DEF ComeInv, Arrived
        <4>2. Owner[x] = None \/ Owner[x] \in Alive
          BY <3>1, <4>1 DEF IInv, LivingInv
        <4> QED BY <4>1, <4>2 DEF Alive
      <3> QED BY <3>1 DEF Arrived
    <2> QED BY <2>1
  <1>4. map \in Seq(A) /\ (tree.rec[o] \in Objects => tree.rec[o] \in A)
    BY <1>1
  <1> HIDE DEF A, p
  <1>5. p = None \/ (p \in Named(o) /\ p \in A \cup {Root})
    BY ONLY <1>1, <1>2, <1>3, <1>4, FindParentFacts DEF p
  <1>6. o \notin Named(o)
    BY NamedFacts
  <1> QED BY <1>5, <1>6 DEF A, p

\* An object whose parent has not arrived finds none, neither recommended nor above it.
LEMMA HomelessFindsNone ==
  ASSUME IInv, ComeInv, job.kind # "destroy", NEW o \in Objects, Settled(o), Homeless(objMap, o)
  PROVE  FindParent(tree, objMap, o) = None
  <1> DEFINE p == FindParent(tree, objMap, o)
  <1>1. objMap \in Seq(Arrived \cup {o})
    <2>1. objMap \in Seq(Objects)
      BY DEF IInv, ShapeInv, TypeOK
    <2> QED BY <2>1 DEF ComeInv
  <1>2. (p = None \/ p \in Named(o)) /\ p \in {None, Root} \cup Arrived
    BY <1>1, ParentArrived DEF Settled
  <1> HIDE DEF p
  <1>3. p \notin Named(o)
    <2> SUFFICES ASSUME p \in Named(o) PROVE FALSE
      OBVIOUS
    <2>1. p \in Arrived /\ Name[p] # None
      BY <1>2, NodeFacts DEF Homeless, Named
    <2>2. Occurs(objMap, p)
      BY <2>1 DEF Arrived
    <2> QED BY <2>2 DEF Homeless, Occurs
  <1> QED BY <1>2, <1>3 DEF p

\* A step that announces nothing and destroys nothing.
LEMMA ComeMoves ==
  ASSUME ComeInv, UNCHANGED <<status, objMap>>,
         \A x \in Objects : (x \in watched' \/ up'[x] # None) /\ status[x] # "dead" =>
           x \in watched \/ up[x] # None \/ Settled(x),
         \A x \in Objects : rec'[x] = rec[x] \/ (status[x] # "made" /\ rec'[x] \notin Objects \ Arrived),
         job'.kind = "announce" => \A x \in Objects : Occurs(job'.list, x) => Owner[x] = None \/ Owner[x] \in Arrived,
         job'.kind = "reveal" => \A x \in Objects : Occurs(job'.list, x) => Settled(x)
  PROVE  ComeInv'
  <1>1. Arrived' = Arrived
    BY DEF Arrived
  <1>2. \A x \in Objects : Settled(x) => Settled(x)'
    BY <1>1 DEF Settled
  <1>3. \A x \in Objects : (status'[x] = "known" \/ x \in watched' \/ up'[x] # None) /\ status'[x] # "dead" =>
          Settled(x)'
    BY <1>2 DEF ComeInv
  <1> QED BY <1>1, <1>2, <1>3 DEF ComeInv

\* What comes to be watched when an object comes is the object and what is in lists below it.
LEMMA ArrivesWatched ==
  ASSUME IInv', NEW o \in Objects, NEW E, Arrives(o, E), \A x \in Objects \ {o} : up'[x] = up[x]
  PROVE  \A x \in watched' : x \in watched \/ x \in E \/ (x \in Objects /\ (x = o \/ up[x] \in Objects))
  <1>1. tree' \in Trees /\ Agree(tree') /\ tree'.up = up'
    <2>1. TypeOK' /\ TreeInv'
      BY DEF IInv, ShapeInv
    <2> QED BY <2>1 DEF TreeInv, TypeOK, tree, Trees
  <1>2. /\ Below(tree', o) \subseteq Objects
        /\ \A x \in Below(tree', o) : x # o => tree'.up[x] \in Below(tree', o)
    BY <1>1, BelowUp
  <1>3. \A x \in watched' : x \in watched \/ x \in E \/ x \in Below(tree', o)
    BY DEF Arrives
  <1> QED BY <1>1, <1>2, <1>3

\* An object is made: its owner has been announced if that is heard.
LEMMA MakeCome ==
  ASSUME IInv, ComeInv, NEW o \in Objects, Make(o)
  PROVE  ComeInv'
  <1>1. /\ job = Idle /\ status[o] = "unborn" /\ status' = [status EXCEPT ![o] = "made"]
        /\ rec' = [rec EXCEPT ![o] = Owner[o]]
        /\ UNCHANGED <<objMap, up, watched>>
        /\ \/ Owner[o] \in Known /\ job' = [kind |-> "announce", list |-> <<o>>, of |-> None]
           \/ job' = job
    BY DEF Make, StartAnnounce
  <1>2. /\ status \in [Objects -> {"unborn", "made", "known", "leaving", "dead"}]
        /\ rec \in [Objects -> Nodes \cup {None}] /\ objMap \in Seq(Objects)
    BY DEF IInv, ShapeInv, TypeOK
  <1>3. \A x \in Objects : /\ status'[x] = IF x = o THEN "made" ELSE status[x]
                           /\ rec'[x] = IF x = o THEN Owner[o] ELSE rec[x]
    BY <1>1, <1>2
  <1>4. Arrived' = Arrived
    BY <1>1, <1>3 DEF Arrived
  <1>5. up[o] = None /\ o \notin watched
    BY <1>1 DEF IInv, PlaceInv, SeenInv
  <1>6. \A x \in Objects : (status'[x] = "known" \/ x \in watched' \/ up'[x] # None) /\ status'[x] # "dead" =>
          Settled(x)'
    <2>1. \A x \in Objects \ {o} : Settled(x) => Settled(x)'
      BY <1>3, <1>4 DEF Settled
    <2> QED BY <1>1, <1>3, <1>5, <2>1 DEF ComeInv
  <1>7. \A x \in Objects : status'[x] = "known" =>
          Owner[x] = None \/ Owner[x] \in Arrived' \/ status'[Owner[x]] = "dead"
    <2>1. \A x \in Objects : Owner[x] = None \/ Owner[x] \in Objects
      BY ObjectAssumption
    <2> QED BY <1>1, <1>3, <1>4, <2>1 DEF ComeInv
  <1>8. \A x \in Objects : status'[x] = "made" => rec'[x] \in {Owner[x], None}
    BY <1>3 DEF ComeInv
  <1>9. job'.kind = "announce" => \A x \in Objects : Occurs(job'.list, x) => Owner[x] = None \/ Owner[x] \in Arrived'
    <2>1. Owner[o] \in Known => Owner[o] \in Arrived
      <3> SUFFICES ASSUME NEW n \in Known, n = Owner[o] PROVE n \in Arrived
        OBVIOUS
      <3>1. CASE status[n] = "known"
        BY <3>1 DEF Known, ComeInv, Settled
      <3>2. CASE status[n] = "leaving" /\ \E i \in DOMAIN objMap : objMap[i] = n
        BY <1>2, <3>2 DEF Known, Arrived, Occurs
      <3> QED BY <3>1, <3>2 DEF Known
    <2>2. \A x : Occurs(<<o>>, x) <=> x = o
      BY Single
    <2> QED BY <1>1, <1>4, <2>1, <2>2 DEF Idle
  <1>10. job'.kind # "reveal"
    BY <1>1 DEF Idle
  <1> QED BY <1>1, <1>4, <1>6, <1>7, <1>8, <1>9, <1>10 DEF ComeInv

\* An object is registered, and its children are next.
LEMMA AnnounceStepCome ==
  ASSUME IInv, IInv', ComeInv, AnnounceStep
  PROVE  ComeInv'
  <1>1. PICK o : o = Head(job.list)
    OBVIOUS
  <1> DEFINE S == {c \in Objects : Owner[c] = o /\ status[c] = "made"}
  <1>2. /\ job.kind = "announce" /\ job.list # <<>> /\ status' = [status EXCEPT ![o] = "known"]
        /\ objMap' = IF Name[o] = None THEN objMap ELSE Append(objMap, o)
        /\ job' = [job EXCEPT !.list = Tail(job.list) \o Listed(S)]
    BY <1>1 DEF AnnounceStep, Owned
  <1>3. /\ status \in [Objects -> {"unborn", "made", "known", "leaving", "dead"}]
        /\ objMap \in Seq(Objects) /\ job.list \in Seq(Objects)
        /\ job \in [kind : {"idle", "announce", "flush", "reveal", "destroy"}, list : Seq(Objects),
                    of : Objects \cup {None}]
    BY DEF IInv, ShapeInv, TypeOK
  <1>4. /\ o \in Objects /\ status[o] = "made" /\ up[o] = None
        /\ \A x \in Objects \ {o} : up'[x] = up[x] /\ rec'[x] = rec[x]
        /\ \E E \in {{}, {o}} : Arrives(o, E)
        /\ rec'[o] = rec[o] \/ rec'[o] = FindParent(tree, objMap', o)
    BY <1>1, AnnounceMoves
  <1>5. /\ Occurs(job.list, o) /\ Tail(job.list) \in Seq(Objects)
        /\ \A x : Occurs(Tail(job.list), x) => Occurs(job.list, x)
    BY <1>1, <1>2, <1>3, TailFacts
  <1>6. Owner[o] = None \/ Owner[o] \in Arrived
    BY <1>2, <1>4, <1>5 DEF ComeInv
  <1>7. \A x \in Objects : status'[x] = IF x = o THEN "known" ELSE status[x]
    BY <1>2, <1>3
  <1>8. \A x : Occurs(objMap', x) <=> Occurs(objMap, x) \/ (x = o /\ Name[o] # None)
    <2>1. \A x : Occurs(Append(objMap, o), x) <=> Occurs(objMap, x) \/ x = o
      BY <1>3, <1>4, AppendMembers
    <2> QED BY <1>2, <2>1
  <1>9. Arrived' = Arrived \cup {o}
    BY <1>4, <1>7, <1>8 DEF Arrived
  <1>10. objMap' \in Seq(Arrived \cup {o})
    <2>1. objMap' \in Seq(Objects)
      BY DEF IInv, ShapeInv, TypeOK
    <2>2. \A i \in 1..Len(objMap') : objMap'[i] \in Arrived \cup {o}
      <3>1. \A i \in 1..Len(objMap') : Occurs(objMap', objMap'[i])
        BY DEF Occurs
      <3>2. \A x : Occurs(objMap, x) => x \in Arrived
        BY DEF Occurs, ComeInv
      <3> QED BY <1>8, <3>1, <3>2
    <2> QED BY <2>1, <2>2
  <1>11. rec[o] \in Objects => rec[o] \in Arrived
    BY <1>4, <1>6, NodeFacts DEF ComeInv
  <1>12. FindParent(tree, objMap', o) \in {None, Root} \cup Arrived
    <2>1. PICK map \in Seq(Arrived \cup {o}) : map = objMap'
      BY <1>10
    <2>2. FindParent(tree, map, o) \in {None, Root} \cup Arrived
      BY <1>2, <1>4, <1>6, <1>11, ParentArrived
    <2> QED BY <2>1, <2>2
  <1>13. rec'[o] \in Objects => rec'[o] \in Arrived
    BY <1>4, <1>11, <1>12, NodeFacts
  <1>14. \A x \in Objects : (status'[x] = "known" \/ x \in watched' \/ up'[x] # None) /\ status'[x] # "dead" =>
          Settled(x)'
    <2>1. Settled(o)'
      BY <1>9, <1>13 DEF Settled
    <2>2. \A x \in Objects \ {o} : Settled(x) => Settled(x)'
      BY <1>4, <1>9 DEF Settled
    <2>3. \A x \in watched' : x \in watched \/ x = o \/ up[x] \in Objects
      BY <1>4, ArrivesWatched
    <2> QED BY <1>4, <1>7, <2>1, <2>2, <2>3, NodeFacts DEF ComeInv
  <1>15. \A x \in Objects : status'[x] = "known" =>
          Owner[x] = None \/ Owner[x] \in Arrived' \/ status'[Owner[x]] = "dead"
    <2>1. \A x \in Objects : Owner[x] = None \/ Owner[x] \in Objects
      BY ObjectAssumption
    <2> QED BY <1>4, <1>6, <1>7, <1>9, <2>1 DEF ComeInv
  <1>16. \A x \in Objects : status'[x] = "made" => rec'[x] \in {Owner[x], None}
    BY <1>4, <1>7 DEF ComeInv
  <1>17. job'.kind = "announce" /\ \A x \in Objects : Occurs(job'.list, x) => Owner[x] = None \/ Owner[x] \in Arrived'
    <2>1. Listed(S) \in Seq(S) /\ \A x : Occurs(Listed(S), x) <=> x \in S
      BY ListedFacts
    <2>2. Listed(S) \in Seq(Objects)
      BY <2>1
    <2> DEFINE l == Listed(S)
    <2>3. l \in Seq(Objects) /\ \A x : Occurs(l, x) => x \in Objects /\ Owner[x] = o
      BY <2>1, <2>2
    <2>4. job'.kind = "announce" /\ job'.list = Tail(job.list) \o l
      BY <1>2, <1>3
    <2> HIDE DEF l, S
    <2>5. \A x : Occurs(job'.list, x) => Occurs(job.list, x) \/ Occurs(l, x)
      <3>1. PICK tl \in Seq(Objects) : tl = Tail(job.list)
        BY <1>5
      <3>2. \A x : Occurs(tl \o l, x) <=> Occurs(tl, x) \/ Occurs(l, x)
        BY <2>3, OccursInConcat
      <3> QED BY <1>5, <2>4, <3>1, <3>2
    <2> QED BY <1>2, <1>9, <2>3, <2>4, <2>5 DEF ComeInv
  <1>18. \A i \in 1..Len(objMap') : objMap'[i] \in Arrived'
    BY <1>9, <1>10
  <1> QED BY <1>14, <1>15, <1>16, <1>17, <1>18 DEF ComeInv

\* A repeater lets go of an object: what has been announced stays so.
LEMMA WithdrawCome ==
  ASSUME IInv, ComeInv, NEW o \in Objects, Withdraw(o)
  PROVE  ComeInv'
  <1>1. /\ job = Idle /\ status[o] \in {"made", "known"} /\ status' = [status EXCEPT ![o] = "leaving"]
        /\ UNCHANGED <<objMap, job>>
    BY DEF Withdraw
  <1>2. status \in [Objects -> {"unborn", "made", "known", "leaving", "dead"}]
    BY DEF IInv, ShapeInv, TypeOK
  <1>3. \A x \in Objects : status'[x] = IF x = o THEN "leaving" ELSE status[x]
    BY <1>1, <1>2
  <1>4. rec' = rec /\ watched' = watched /\ \A x \in Objects : up'[x] = up[x] \/ up'[x] = None
    <2>1. Departs(o, {}) /\ rec' = rec /\ \A x \in Objects : up'[x] = up[x] \/ (x = o /\ up'[x] = None)
      BY WithdrawMoves
    <2>2. watched' = watched \cup {}
      BY <2>1 DEF Departs
    <2> QED BY <2>1, <2>2
  <1>5. \A x \in Arrived : x \in Arrived'
    BY <1>1, <1>3 DEF Arrived
  <1>6. \A x \in Objects : Settled(x) => Settled(x)'
    BY <1>4, <1>5 DEF Settled
  <1>7. \A x \in Objects : (status'[x] = "known" \/ x \in watched' \/ up'[x] # None) /\ status'[x] # "dead" =>
          Settled(x)'
    BY <1>1, <1>3, <1>4, <1>6 DEF ComeInv
  <1>8. \A x \in Objects : status'[x] = "known" =>
          Owner[x] = None \/ Owner[x] \in Arrived' \/ status'[Owner[x]] = "dead"
    <2>1. \A x \in Objects : Owner[x] = None \/ Owner[x] \in Objects
      BY ObjectAssumption
    <2> QED BY <1>1, <1>3, <1>5, <2>1 DEF ComeInv
  <1>9. \A x \in Objects : status'[x] = "made" => rec'[x] \in {Owner[x], None}
    BY <1>3, <1>4 DEF ComeInv
  <1> QED BY <1>1, <1>5, <1>7, <1>8, <1>9 DEF ComeInv, Idle

\* A destroyed object leaves the map, and what was posted for it the queue.
LEMMA DestroyLists ==
  ASSUME IInv, DestroyStep, NEW o, o = Head(job.list)
  PROVE  /\ \A x : Occurs(objMap', x) <=> Occurs(objMap, x) /\ x # o
         /\ \A e : Occurs(queue', e) <=> Occurs(queue, e) /\ e.obj # o
         /\ \A x \in Objects : status'[x] = IF x = o THEN "dead" ELSE status[x]
         /\ job.kind = "destroy" /\ job'.kind = "destroy"
         /\ orphans' = orphans \cup {c \in Objects : up[c] = o}
         /\ UNCHANGED <<hidden, missed>>
  <1> DEFINE P == {i \in DOMAIN objMap : objMap[i] # o}
             Q == {i \in DOMAIN queue : queue[i].obj \notin {o}}
  <1>1. /\ job.kind = "destroy" /\ job'.kind = job.kind
        /\ status' = [status EXCEPT ![o] = "dead"]
        /\ objMap' = Kept(objMap, P) /\ queue' = Kept(queue, Q)
        /\ orphans' = orphans \cup {c \in Objects : up[c] = o}
        /\ UNCHANGED <<hidden, missed>>
    <2>1. \A l : [job EXCEPT !.list = l].kind = job.kind
      BY DEF IInv, ShapeInv, TypeOK
    <2> QED BY <2>1 DEF DestroyStep, Without
  <1>2. /\ status \in [Objects -> {"unborn", "made", "known", "leaving", "dead"}]
        /\ objMap \in Seq(Objects) /\ queue \in Seq(Posts)
    BY QueueType DEF IInv, ShapeInv, TypeOK
  <1>3. /\ P \in SUBSET (1..Len(objMap)) /\ \A i : i \in P <=> i \in 1..Len(objMap) /\ objMap[i] # o
        /\ Q \in SUBSET (1..Len(queue)) /\ \A i : i \in Q <=> i \in 1..Len(queue) /\ queue[i].obj # o
    BY <1>2
  <1> HIDE DEF P, Q
  <1>4. /\ \A x : Occurs(Kept(objMap, P), x) <=> \E i \in P : objMap[i] = x
        /\ \A x : Occurs(Kept(queue, Q), x) <=> \E i \in Q : queue[i] = x
    <2>1. PICK m \in Seq(Objects) : m = objMap
      BY <1>2
    <2>2. PICK q \in Seq(Posts) : q = queue
      BY <1>2
    <2>3. \A x : Occurs(Kept(m, P), x) <=> \E i \in P : m[i] = x
      BY <1>3, <2>1, KeptMembers
    <2>4. \A x : Occurs(Kept(q, Q), x) <=> \E i \in Q : q[i] = x
      BY <1>3, <2>2, KeptMembers
    <2> QED BY <2>1, <2>2, <2>3, <2>4
  <1>5. \A x : Occurs(objMap', x) <=> Occurs(objMap, x) /\ x # o
    <2>1. \A x : Occurs(objMap', x) <=> \E i \in P : objMap[i] = x
      BY <1>1, <1>4
    <2>2. ASSUME NEW x PROVE (\E i \in P : objMap[i] = x) <=> Occurs(objMap, x) /\ x # o
      BY <1>3 DEF Occurs
    <2> QED BY <2>1, <2>2
  <1>6. \A e : Occurs(queue', e) <=> Occurs(queue, e) /\ e.obj # o
    <2>1. \A x : Occurs(queue', x) <=> \E i \in Q : queue[i] = x
      BY <1>1, <1>4
    <2>2. ASSUME NEW x PROVE (\E i \in Q : queue[i] = x) <=> Occurs(queue, x) /\ x.obj # o
      BY <1>3 DEF Occurs
    <2> QED BY <2>1, <2>2
  <1> QED BY <1>1, <1>2, <1>5, <1>6

\* A destruction takes an object out of what has been announced, and nothing refers to it.
LEMMA DestroyCome ==
  ASSUME IInv, IInv', ComeInv, DestroyStep
  PROVE  ComeInv'
  <1>1. PICK o : o = Head(job.list)
    OBVIOUS
  <1>2. /\ \A x : Occurs(objMap', x) <=> Occurs(objMap, x) /\ x # o
        /\ \A x \in Objects : status'[x] = IF x = o THEN "dead" ELSE status[x]
        /\ job'.kind = "destroy"
    BY <1>1, DestroyLists
  <1>3. o \in Objects
    BY <1>1, DestroyMoves
  <1>4. /\ watched' = watched
        /\ \A x \in Objects : up'[x] = IF x = o \/ up[x] = o THEN None ELSE up[x]
        /\ \A x \in Objects : rec'[x] = IF rec[x] = o THEN None ELSE rec[x]
    <2>1. /\ Departs(o, {})
          /\ \A x \in Objects : up'[x] = IF x = o \/ up[x] = o THEN None ELSE up[x]
          /\ \A x \in Objects : rec'[x] = IF rec[x] = o THEN None ELSE rec[x]
      BY <1>1, DestroyMoves
    <2>2. watched' = watched \cup {}
      BY <2>1 DEF Departs
    <2> QED BY <2>1, <2>2
  <1>5. \A x \in Objects : x \in Arrived' <=> x \in Arrived /\ x # o
    BY <1>2 DEF Arrived
  <1>6. \A x \in Objects : Settled(x) /\ x # o => Settled(x)'
    BY <1>4, <1>5, NodeFacts DEF Settled
  <1>7. \A x \in Objects : (status'[x] = "known" \/ x \in watched' \/ up'[x] # None) /\ status'[x] # "dead" =>
          Settled(x)'
    BY <1>2, <1>4, <1>6 DEF ComeInv
  <1>8. \A x \in Objects : status'[x] = "known" =>
          Owner[x] = None \/ Owner[x] \in Arrived' \/ status'[Owner[x]] = "dead"
    <2>1. \A x \in Objects : Owner[x] = None \/ Owner[x] \in Objects
      BY ObjectAssumption
    <2> QED BY <1>2, <1>3, <1>5, <2>1 DEF ComeInv
  <1>9. \A x \in Objects : status'[x] = "made" => rec'[x] \in {Owner[x], None}
    BY <1>2, <1>4 DEF ComeInv
  <1>10. \A i \in 1..Len(objMap') : objMap'[i] \in Arrived'
    <2>1. objMap' \in Seq(Objects)
      BY DEF IInv, ShapeInv, TypeOK
    <2>2. \A x : Occurs(objMap, x) => x \in Arrived
      BY DEF Occurs, ComeInv
    <2>3. \A i \in 1..Len(objMap') : Occurs(objMap', objMap'[i]) /\ objMap'[i] \in Objects
      BY <2>1 DEF Occurs
    <2> QED BY <1>2, <1>5, <2>2, <2>3
  <1> QED BY <1>2, <1>7, <1>8, <1>9, <1>10 DEF ComeInv

\* The parent of an object that has been announced has been announced.
LEMMA SettledParent ==
  ASSUME IInv, ComeInv, job.kind # "destroy", NEW o \in Objects, Settled(o)
  PROVE  FindParent(tree, objMap, o) \notin Objects \ Arrived
  <1>1. PICK map \in Seq(Arrived \cup {o}) : map = objMap
    <2>1. objMap \in Seq(Objects)
      BY DEF IInv, ShapeInv, TypeOK
    <2>2. objMap \in Seq(Arrived \cup {o})
      BY <2>1 DEF ComeInv
    <2> QED BY <2>2
  <1>2. FindParent(tree, map, o) \in {None, Root} \cup Arrived
    BY ParentArrived DEF Settled
  <1> QED BY <1>1, <1>2, NodeFacts

\* An object that waits goes to a parent that has been announced.
LEMMA FlushCome ==
  ASSUME IInv, IInv', ComeInv, FlushStep
  PROVE  ComeInv'
  <1>1. PICK o : o = Head(job.list)
    OBVIOUS
  <1>2. UNCHANGED <<status, objMap>> /\ job.kind = "flush"
    BY DEF FlushStep
  <1>3. /\ o \in Objects /\ up[o] = NoAdd
        /\ \/ UNCHANGED <<up, rec, watched>>
           \/ /\ Arrives(o, {}) /\ rec'[o] = FindParent(tree, objMap, o)
              /\ \A x \in Objects \ {o} : up'[x] = up[x] /\ rec'[x] = rec[x]
        /\ \E l : job' = [job EXCEPT !.list = l]
    BY <1>1, FlushMoves
  <1>4. job'.kind = "flush"
    <2>1. \A l : [job EXCEPT !.list = l].kind = job.kind
      BY DEF IInv, ShapeInv, TypeOK
    <2> QED BY <1>2, <1>3, <2>1
  <1>5. status[o] \notin {"made", "dead"} /\ up[o] # None
    BY <1>3, NodeFacts DEF IInv, PlaceInv
  <1>6. Settled(o)
    BY <1>3, <1>5 DEF ComeInv
  <1>7. \A x \in Objects : rec'[x] = rec[x] \/ (status[x] # "made" /\ rec'[x] \notin Objects \ Arrived)
    <2>1. FindParent(tree, objMap, o) \notin Objects \ Arrived
      BY <1>2, <1>3, <1>6, SettledParent
    <2> QED BY <1>3, <1>5, <2>1
  <1>8. \A x \in Objects : (x \in watched' \/ up'[x] # None) /\ status[x] # "dead" =>
          x \in watched \/ up[x] # None \/ Settled(x)
    <2>1. CASE UNCHANGED <<up, watched>>
      BY <2>1
    <2>2. CASE Arrives(o, {}) /\ \A x \in Objects \ {o} : up'[x] = up[x]
      <3>1. \A x \in watched' : x \in watched \/ x = o \/ up[x] \in Objects
        BY <1>3, <2>2, ArrivesWatched
      <3> QED BY <1>6, <2>2, <3>1, NodeFacts
    <2> QED BY <1>3, <2>1, <2>2
  <1> QED BY <1>2, <1>4, <1>7, <1>8, ComeMoves

\* An object that is shown again goes to a parent that has been announced.
LEMMA EndRevealCome ==
  ASSUME IInv, IInv', ComeInv, EndReveal
  PROVE  ComeInv'
  <1>1. PICK o : o = job.of
    OBVIOUS
  <1>2. UNCHANGED <<status, objMap>> /\ job.kind = "reveal" /\ job' = Idle
    BY DEF EndReveal
  <1>3. /\ o \in Objects /\ Arrives(o, {})
        /\ \A x \in Objects \ {o} : up'[x] = up[x] /\ rec'[x] = rec[x]
        /\ rec'[o] = rec[o] \/ rec'[o] = FindParent(tree, objMap, o)
    BY <1>1, EndRevealMoves
  <1>4. o \in watched /\ status[o] \notin {"made", "dead"}
    BY <1>1, <1>2 DEF IInv, SeenInv
  <1>5. Settled(o)
    BY <1>3, <1>4 DEF ComeInv
  <1>6. \A x \in Objects : rec'[x] = rec[x] \/ (status[x] # "made" /\ rec'[x] \notin Objects \ Arrived)
    <2>1. FindParent(tree, objMap, o) \notin Objects \ Arrived
      BY <1>2, <1>3, <1>5, SettledParent
    <2> QED BY <1>3, <1>4, <2>1
  <1>7. \A x \in Objects : (x \in watched' \/ up'[x] # None) /\ status[x] # "dead" =>
          x \in watched \/ up[x] # None \/ Settled(x)
    <2>1. \A x \in watched' : x \in watched \/ x = o \/ up[x] \in Objects
      BY <1>3, ArrivesWatched
    <2> QED BY <1>3, <1>5, <2>1, NodeFacts
  <1> QED BY <1>2, <1>6, <1>7, ComeMoves DEF Idle

\* What onVisible(true) looks at has been announced.
LEMMA StartRevealCome ==
  ASSUME IInv, ComeInv, StartReveal
  PROVE  ComeInv'
  <1>1. PICK o : o = Head(queue).obj
    OBVIOUS
  <1>2. /\ job' = [kind |-> "reveal", list |-> kids[o], of |-> o] /\ queue # <<>>
        /\ UNCHANGED <<status, objMap, up, rec, watched>> /\ queue' = Tail(queue) /\ hidden' = hidden
    BY <1>1 DEF StartReveal, Delivers
  <1>3. o \in Objects
    BY <1>1, <1>2, DeliveredQueue
  <1>4. \A x \in Objects : Occurs(kids[o], x) => Settled(x)
    <2>1. \A x \in Objects : Occurs(kids[o], x) => up[x] = o
      BY <1>3, TreeType, NodeFacts DEF IInv, ShapeInv, TreeInv, Agree
    <2>2. \A x \in Objects : up[x] = o => status[x] # "dead"
      BY <1>3, ChildOf
    <2> QED BY <1>3, <2>1, <2>2, NodeFacts DEF ComeInv
  <1>5. job'.kind = "reveal" /\ job'.list = kids[o]
    BY <1>2
  <1> QED BY <1>2, <1>4, <1>5, ComeMoves

\* What is hidden below it goes to Hide, what else hangs there has been announced too.
LEMMA RevealStepCome ==
  ASSUME IInv, ComeInv, RevealStep
  PROVE  ComeInv'
  <1>1. PICK o : o = Head(job.list)
    OBVIOUS
  <1>2. UNCHANGED <<status, objMap>> /\ job.kind = "reveal" /\ job.list # <<>>
    BY DEF RevealStep
  <1>3. TypeOK /\ job.list \in Seq(Objects)
    BY DEF IInv, ShapeInv, TypeOK
  <1>4. /\ o \in Objects /\ Occurs(job.list, o) /\ Tail(job.list) \in Seq(Objects)
        /\ \A x : Occurs(Tail(job.list), x) => Occurs(job.list, x)
    BY <1>1, <1>2, <1>3, TailFacts
  <1>5. Settled(o)
    BY <1>2, <1>4 DEF ComeInv
  <1>6. \A l : [job EXCEPT !.list = l].kind = "reveal" /\ [job EXCEPT !.list = l].list = l
    BY <1>2 DEF IInv, ShapeInv, TypeOK
  <1>7. CASE UNCHANGED <<up, rec, watched>> /\ job' = [job EXCEPT !.list = Tail(job.list) \o kids[o]]
    <2>1. job'.kind = "reveal" /\ job'.list = Tail(job.list) \o kids[o]
      BY <1>6, <1>7
    <2>2. PICK tl \in Seq(Objects) : tl = Tail(job.list)
      BY <1>4
    <2>3. PICK ks \in Seq(Objects) : ks = kids[o]
      BY <1>3, <1>4, NodeFacts DEF TypeOK
    <2>4. \A x : Occurs(tl \o ks, x) <=> Occurs(tl, x) \/ Occurs(ks, x)
      BY OccursInConcat
    <2>5. \A x \in Objects : Occurs(ks, x) => Settled(x)
      <3>1. \A x \in Objects : Occurs(ks, x) => up[x] = o
        BY <1>4, <2>3, TreeType, NodeFacts DEF IInv, ShapeInv, TreeInv, Agree
      <3>2. \A x \in Objects : up[x] = o => status[x] # "dead"
        BY <1>4, ChildOf
      <3> QED BY <1>4, <3>1, <3>2, NodeFacts DEF ComeInv
    <2>6. \A x \in Objects : Occurs(job'.list, x) => Settled(x)
      BY <1>2, <1>4, <2>1, <2>2, <2>3, <2>4, <2>5 DEF ComeInv
    <2> QED BY <1>2, <1>7, <2>1, <2>6, ComeMoves
  <1>8. CASE /\ Departs(o, {o}) /\ rec' = rec /\ job' = [job EXCEPT !.list = Tail(job.list)]
             /\ \A x \in Objects : up'[x] = IF x = o THEN Hide ELSE up[x]
    <2>1. job'.kind = "reveal" /\ job'.list = Tail(job.list)
      BY <1>6, <1>8
    <2>2. watched' = watched \cup {o}
      BY <1>8 DEF Departs
    <2>3. \A x \in Objects : Occurs(job'.list, x) => Settled(x)
      BY <1>2, <1>4, <2>1 DEF ComeInv
    <2>4. \A x \in Objects : (x \in watched' \/ up'[x] # None) /\ status[x] # "dead" =>
            x \in watched \/ up[x] # None \/ Settled(x)
      BY <1>5, <1>8, <2>2
    <2>5. \A x \in Objects : rec'[x] = rec[x]
      BY <1>8
    <2> QED BY <1>2, <2>1, <2>3, <2>4, <2>5, ComeMoves
  <1> QED BY <1>1, <1>7, <1>8, RevealStepMoves

\* onVisible(false) takes an object to Hide that is watched.
LEMMA HideObjectCome ==
  ASSUME IInv, ComeInv, HideObject
  PROVE  ComeInv'
  <1>1. PICK o : o = Head(queue).obj
    OBVIOUS
  <1>2. /\ job = Idle /\ queue # <<>> /\ Head(queue).call = "hide" /\ queue' = Tail(queue)
        /\ UNCHANGED <<status, objMap, hidden, job>>
    BY DEF HideObject, Delivers
  <1>3. /\ o \in Objects /\ Departs(o, {}) /\ rec' = rec
        /\ \A x \in Objects : up'[x] = IF x = o THEN Hide ELSE up[x]
    BY <1>1, HideObjectMoves
  <1>4. watched' = watched
    <2>1. watched' = watched \cup {}
      BY <1>3 DEF Departs
    <2> QED BY <2>1
  <1>5. o \in watched
    BY <1>1, <1>2, <1>4, DeliveredQueue
  <1>6. \A x \in Objects : x \in watched' \/ up'[x] # None => x \in watched \/ up[x] # None
    BY <1>3, <1>4, <1>5
  <1>7. job'.kind \notin {"announce", "reveal"}
    BY <1>2 DEF Idle
  <1> QED BY <1>2, <1>3, <1>6, <1>7, ComeMoves

\* Every step keeps this.
LEMMA ComeKeeps ==
  ASSUME IInv, IInv', ComeInv, [Next]_vars
  PROVE  ComeInv'
  <1>1. ASSUME UNCHANGED <<status, objMap, up, rec, watched>>, job'.kind \notin {"announce", "reveal"}
        PROVE  ComeInv'
    BY <1>1, ComeMoves
  <1>2. ASSUME NEW o \in Objects, Announce(o) PROVE ComeInv'
    <2>1. /\ Owner[o] = None /\ UNCHANGED <<status, objMap, up, rec, watched>>
          /\ job' = [kind |-> "announce", list |-> <<o>>, of |-> None]
      BY <1>2 DEF Announce, StartAnnounce
    <2>2. job'.kind = "announce" /\ \A x : Occurs(job'.list, x) <=> x = o
      BY <2>1, Single
    <2>3. /\ \A x \in Objects : (x \in watched' \/ up'[x] # None) => x \in watched \/ up[x] # None
          /\ \A x \in Objects : rec'[x] = rec[x]
      BY <2>1
    <2> QED BY <2>1, <2>2, <2>3, ComeMoves
  <1>3. ASSUME NEW o \in Objects, Make(o) \/ Withdraw(o) PROVE ComeInv'
    BY <1>3, MakeCome, WithdrawCome
  <1>4. ASSUME NEW o \in Objects, ChangeVisible(o) \/ Rename(o) \/ \E w \in Weights : ChangeWeight(o, w)
        PROVE  ComeInv'
    BY <1>1, <1>4 DEF ChangeVisible, Rename, ChangeWeight, Idle
  <1>5. CASE StartFlush \/ EndFlush \/ StartDestroy \/ EndDestroy
    <2>1. CASE StartFlush
      <3>1. TypeOK /\ kids[NoAdd] \in Seq(Objects)
        BY NodeFacts DEF IInv, ShapeInv, TypeOK
      <3>2. job'.kind = "flush"
        BY <2>1, <3>1 DEF StartFlush, TypeOK
      <3>3. UNCHANGED <<status, objMap, up, rec, watched>>
        BY <2>1 DEF StartFlush
      <3> QED BY <1>1, <3>2, <3>3
    <2>2. CASE EndFlush \/ EndDestroy
      BY <1>1, <2>2 DEF EndFlush, EndDestroy, Idle
    <2>3. CASE StartDestroy
      BY <1>1, <2>3 DEF StartDestroy
    <2> QED BY <1>5, <2>1, <2>2, <2>3
  <1>6. CASE UNCHANGED vars
    <2>1. ComeInv' <=> ComeInv
      BY <1>6 DEF vars, ComeInv, Settled, Arrived
    <2> QED BY <2>1
  <1>7. Deliver => HideObject \/ StartReveal \/ StartDestroy
    BY DEF Deliver
  <1>8. JobStep => AnnounceStep \/ StartFlush \/ FlushStep \/ EndFlush
                   \/ RevealStep \/ EndReveal \/ DestroyStep \/ EndDestroy
    BY DEF JobStep
  <1>9. CASE HideObject \/ StartReveal \/ RevealStep \/ EndReveal
    BY <1>9, HideObjectCome, StartRevealCome, RevealStepCome, EndRevealCome
  <1>10. CASE AnnounceStep \/ FlushStep \/ DestroyStep
    BY <1>10, AnnounceStepCome, FlushCome, DestroyCome
  <1>11. CASE Next
    BY ONLY <1>2, <1>3, <1>4, <1>5, <1>7, <1>8, <1>9, <1>10, <1>11 DEF Next
  <1> QED BY <1>6, <1>11

\* Nothing has been announced at the start.
LEMMA ComeStarts == ASSUME Init PROVE ComeInv
  BY DEF Init, ComeInv, Idle

-----------------------------------------------------------------------------
(* What nobody forgets.                                                     *)

\* The posted call of onVisible(true).
Showing(o) == [call |-> "show", obj |-> o]

\* What is in Hide is hidden, or will be shown; what is nowhere was let go by its parent;
\* what waits has no parent to go to, but while addObject still has to look at it.
LeftInv ==
  /\ \A o \in Objects : up[o] = Hide =>
       o \in watched /\ (o \in hidden \/ Occurs(queue, Showing(o)) \/ (job.kind = "reveal" /\ job.of = o))
  /\ \A o \in Objects : status[o] = "known" /\ up[o] = None => o \in orphans
  /\ \A o \in Objects : up[o] = NoAdd =>
       job.kind = "announce" \/ (job.kind = "flush" /\ Occurs(job.list, o)) \/ Homeless(objMap, o)

\* A handler of one step that puts nothing anywhere.
LEMMA LeftStill ==
  ASSUME LeftInv, UNCHANGED <<objMap, up, hidden, watched, queue, orphans>>, job.kind \in {"idle", "destroy"},
         \A x \in Objects : status'[x] = "known" => status[x] = "known"
  PROVE  LeftInv'
  <1>1. \A x \in Objects : up[x] = NoAdd => Homeless(objMap, x)
    BY DEF LeftInv
  <1> QED BY <1>1 DEF LeftInv

\* The calls posted when one has been delivered.
LEMMA DeliveredPosts ==
  ASSUME IInv, queue # <<>>, queue' = Tail(queue)
  PROVE  /\ Head(queue) \in Posts
         /\ \A e : Occurs(queue, e) <=> e = Head(queue) \/ Occurs(queue', e)
  <1>1. PICK q \in Seq(Posts) : q = queue
    BY QueueType DEF IInv, ShapeInv
  <1>2. Head(q) \in Posts /\ \A e : Occurs(q, e) <=> e = Head(q) \/ Occurs(Tail(q), e)
    BY <1>1, TailFacts
  <1> QED BY <1>1, <1>2

\* An object put in Hide by onVisible(false) is hidden, or a call of onVisible(true) is posted.
LEMMA HideObjectLeft ==
  ASSUME IInv, LeftInv, HideObject
  PROVE  LeftInv'
  <1>1. PICK o : o = Head(queue).obj
    OBVIOUS
  <1>2. /\ job = Idle /\ queue # <<>> /\ Head(queue).call = "hide" /\ queue' = Tail(queue)
        /\ UNCHANGED <<status, objMap, hidden, job, orphans>>
    BY DEF HideObject, Delivers
  <1>3. /\ o \in Objects /\ Departs(o, {})
        /\ \A x \in Objects : up'[x] = IF x = o THEN Hide ELSE up[x]
    BY <1>1, HideObjectMoves
  <1>4. watched' = watched
    <2>1. watched' = watched \cup {}
      BY <1>3 DEF Departs
    <2> QED BY <2>1
  <1>5. o \in watched
    BY <1>1, <1>2, <1>4, DeliveredQueue
  <1>6. \A e : Occurs(queue, e) <=> e = Head(queue) \/ Occurs(queue', e)
    BY <1>2, DeliveredPosts
  <1>7. \A x : Showing(x) # Head(queue)
    <2>1. \A x : Showing(x).call # "hide"
      BY DEF Showing
    <2> QED BY <1>2, <2>1
  <1>8. o \in hidden \/ Occurs(queue', Showing(o))
    <2> SUFFICES ASSUME o \notin hidden PROVE Occurs(queue', Showing(o))
      OBVIOUS
    <2>1. queue \in Seq(Posts) /\ Alternates(queue, hidden)
      BY QueueType DEF IInv, ShapeInv, QueueInv
    <2>2. 1 \in 1..Len(queue) /\ Head(queue) = queue[1]
      BY <1>2, <2>1
    <2>3. PICK k \in 1..Len(queue) : queue[k] = Opposite(queue[1])
      BY <1>1, <1>2, <2>1, <2>2 DEF Alternates
    <2>4. queue[k] = Showing(o)
      BY <1>1, <1>2, <2>2, <2>3 DEF Opposite, Showing
    <2> QED BY <1>6, <1>7, <2>4 DEF Occurs
  <1>9. Hide # None /\ Hide # NoAdd
    BY NodeFacts
  <1>10. \A x \in Objects : up'[x] = Hide =>
           x \in watched /\ (x \in hidden \/ Occurs(queue', Showing(x)))
    BY <1>2, <1>3, <1>5, <1>6, <1>7, <1>8 DEF LeftInv, Idle
  <1> QED BY <1>2, <1>3, <1>4, <1>9, <1>10 DEF LeftInv, Idle

\* What onVisible(true) begins with is the one whose call has been delivered.
LEMMA StartRevealLeft ==
  ASSUME IInv, LeftInv, StartReveal
  PROVE  LeftInv'
  <1>1. PICK o : o = Head(queue).obj
    OBVIOUS
  <1>2. /\ job' = [kind |-> "reveal", list |-> kids[o], of |-> o] /\ queue # <<>>
        /\ Head(queue).call = "show" /\ queue' = Tail(queue) /\ job = Idle
        /\ UNCHANGED <<status, objMap, up, hidden, watched, orphans>>
    BY <1>1 DEF StartReveal, Delivers
  <1>3. job'.kind = "reveal" /\ job'.of = o
    BY <1>2
  <1>4. \A e : Occurs(queue, e) <=> e = Head(queue) \/ Occurs(queue', e)
    BY <1>2, DeliveredPosts
  <1>5. \A x : Showing(x) = Head(queue) => x = o
    <2>1. \A x : Showing(x).obj = x
      BY DEF Showing
    <2> QED BY <1>1, <2>1
  <1>6. \A x \in Objects : up'[x] = Hide =>
           x \in watched /\ (x \in hidden \/ Occurs(queue', Showing(x)) \/ x = o)
    BY <1>2, <1>4, <1>5 DEF LeftInv, Idle
  <1> QED BY <1>2, <1>3, <1>6 DEF LeftInv, Idle

\* A deletion that is delivered is no call of onVisible.
LEMMA StartDestroyLeft ==
  ASSUME IInv, LeftInv, StartDestroy
  PROVE  LeftInv'
  <1>1. /\ queue # <<>> /\ Head(queue).call = "delete" /\ queue' = Tail(queue) /\ job = Idle
        /\ UNCHANGED <<status, objMap, up, hidden, watched, orphans>>
    BY DEF StartDestroy, Delivers
  <1>2. \A e : Occurs(queue, e) <=> e = Head(queue) \/ Occurs(queue', e)
    BY <1>1, DeliveredPosts
  <1>3. \A x : Showing(x) # Head(queue)
    <2>1. \A x : Showing(x).call # "delete"
      BY DEF Showing
    <2> QED BY <1>1, <2>1
  <1>4. \A x \in Objects : up'[x] = Hide => x \in watched /\ (x \in hidden \/ Occurs(queue', Showing(x)))
    BY <1>1, <1>2, <1>3 DEF LeftInv, Idle
  <1> QED BY <1>1, <1>4 DEF LeftInv, Idle

\* What is shown in Hide is watched, and the call is posted.
LEMMA ChangeVisibleLeft ==
  ASSUME IInv, LeftInv, NEW o \in Objects, ChangeVisible(o)
  PROVE  LeftInv'
  <1> DEFINE e == [call |-> IF o \in hidden THEN "show" ELSE "hide", obj |-> o]
  <1>1. /\ job = Idle /\ UNCHANGED <<status, objMap, up, watched, job, orphans>>
        /\ hidden' = IF o \in hidden THEN hidden \ {o} ELSE hidden \cup {o}
        /\ IF o \in watched THEN queue' = Append(queue, e) ELSE queue' = queue
    BY DEF ChangeVisible
  <1>2. queue \in Seq(Posts) /\ e \in Posts
    BY QueueType DEF IInv, ShapeInv, Posts
  <1>3. o \in hidden => e = Showing(o)
    BY DEF Showing
  <1> HIDE DEF e
  <1>4. \A x : Occurs(queue', x) <=> Occurs(queue, x) \/ (x = e /\ o \in watched)
    <2>1. \A x : Occurs(Append(queue, e), x) <=> Occurs(queue, x) \/ x = e
      BY <1>2, AppendMembers
    <2> QED BY <1>1, <2>1
  <1>5. \A x \in Objects : up'[x] = Hide => x \in watched /\ (x \in hidden' \/ Occurs(queue', Showing(x)))
    BY <1>1, <1>3, <1>4 DEF LeftInv, Idle
  <1> QED BY <1>1, <1>5 DEF LeftInv, Idle

\* An object is put somewhere when it is registered.
LEMMA AnnounceStepLeft ==
  ASSUME IInv, IInv', LeftInv, AnnounceStep
  PROVE  LeftInv'
  <1>1. PICK o : o = Head(job.list)
    OBVIOUS
  <1>2. /\ job.kind = "announce" /\ UNCHANGED <<queue, orphans>> /\ status' = [status EXCEPT ![o] = "known"]
        /\ job'.kind = "announce"
    <2>1. \A l : [job EXCEPT !.list = l].kind = job.kind
      BY DEF IInv, ShapeInv, TypeOK
    <2> QED BY <1>1, <2>1 DEF AnnounceStep
  <1>3. /\ o \in Objects /\ up[o] = None
        /\ \A x \in Objects \ {o} : up'[x] = up[x]
        /\ \/ Arrives(o, {}) /\ hidden' = hidden /\ up'[o] \in {NoParent, NoAdd, Root} \cup Objects
           \/ Arrives(o, {o}) /\ hidden' = hidden \cup {o} /\ up'[o] = Hide
    BY <1>1, AnnounceMoves
  <1>4. /\ watched \subseteq watched' /\ hidden \subseteq hidden'
        /\ up'[o] = Hide => o \in watched' /\ o \in hidden'
        /\ up'[o] # None
    <2>1. \A E : Arrives(o, E) => watched \cup E \subseteq watched'
      BY DEF Arrives
    <2>2. \A n \in {NoParent, NoAdd, Root} \cup Objects : n # Hide /\ n # None
      BY NodeFacts
    <2>3. Hide # None
      BY NodeFacts
    <2> HIDE DEF Arrives
    <2> QED BY <1>3, <2>1, <2>2, <2>3
  <1>5. \A x \in Objects : status'[x] = IF x = o THEN "known" ELSE status[x]
    BY <1>2 DEF IInv, ShapeInv, TypeOK
  <1>6. \A x \in Objects : up'[x] = Hide => x \in watched' /\ (x \in hidden' \/ Occurs(queue', Showing(x)))
    BY <1>2, <1>3, <1>4 DEF LeftInv
  <1>7. \A x \in Objects : status'[x] = "known" /\ up'[x] = None => x \in orphans'
    BY <1>2, <1>3, <1>4, <1>5 DEF LeftInv
  <1> QED BY <1>2, <1>6, <1>7 DEF LeftInv

\* The second loop of addObject has what waits before it.
LEMMA StartFlushLeft ==
  ASSUME IInv, LeftInv, StartFlush
  PROVE  LeftInv'
  <1>1. /\ job.kind = "announce" /\ job' = [job EXCEPT !.kind = "flush", !.list = kids[NoAdd]]
        /\ UNCHANGED <<status, objMap, up, hidden, watched, queue, orphans>>
    BY DEF StartFlush
  <1>2. TypeOK
    BY DEF IInv, ShapeInv
  <1>3. job'.kind = "flush" /\ job'.list = kids[NoAdd]
    BY <1>1, <1>2, NodeFacts DEF TypeOK
  <1>4. \A x \in Objects : up[x] = NoAdd => Occurs(kids[NoAdd], x)
    BY NodeFacts DEF IInv, TreeInv, tree, Agree
  <1> QED BY <1>1, <1>3, <1>4 DEF LeftInv

\* It passes by what has no parent, and begins again when something has gone to its parent.
LEMMA FlushLeft ==
  ASSUME IInv, IInv', LeftInv, FlushStep
  PROVE  LeftInv'
  <1>1. PICK o : o = Head(job.list)
    OBVIOUS
  <1>2. /\ job.kind = "flush" /\ job.list # <<>>
        /\ UNCHANGED <<status, objMap, hidden, queue, orphans>>
    BY DEF FlushStep
  <1>3. /\ o \in Objects /\ up[o] = NoAdd
        /\ \/ /\ UNCHANGED <<up, watched>> /\ Homeless(objMap, o)
              /\ job' = [job EXCEPT !.list = Tail(job.list)]
           \/ /\ Arrives(o, {}) /\ up'[o] \in Objects \cup {Root}
              /\ \A x \in Objects \ {o} : up'[x] = up[x]
              /\ job' = [job EXCEPT !.list = kids'[NoAdd]]
    BY <1>1, FlushMoves
  <1>4. \A l : [job EXCEPT !.list = l].kind = "flush" /\ [job EXCEPT !.list = l].list = l
    BY <1>2 DEF IInv, ShapeInv, TypeOK
  <1>5. CASE /\ UNCHANGED <<up, watched>> /\ Homeless(objMap, o)
             /\ job' = [job EXCEPT !.list = Tail(job.list)]
    <2>1. job'.kind = "flush" /\ job'.list = Tail(job.list)
      BY <1>4, <1>5
    <2>2. \A x : Occurs(job.list, x) => x = o \/ Occurs(Tail(job.list), x)
      <3>1. job.list \in Seq(Objects)
        BY DEF IInv, ShapeInv, TypeOK
      <3> QED BY <1>1, <1>2, <3>1, TailFacts
    <2>3. \A x \in Objects : up'[x] = NoAdd => Occurs(job'.list, x) \/ Homeless(objMap', x)
      BY <1>2, <1>5, <2>1, <2>2 DEF LeftInv
    <2> QED BY <1>2, <1>5, <2>1, <2>3 DEF LeftInv
  <1>6. CASE /\ Arrives(o, {}) /\ up'[o] \in Objects \cup {Root}
             /\ \A x \in Objects \ {o} : up'[x] = up[x]
             /\ job' = [job EXCEPT !.list = kids'[NoAdd]]
    <2>1. job'.kind = "flush" /\ job'.list = kids'[NoAdd]
      BY <1>4, <1>6
    <2>2. \A x \in Objects : up'[x] = NoAdd => Occurs(kids'[NoAdd], x)
      BY NodeFacts DEF IInv, TreeInv, tree, Agree
    <2>3. watched \subseteq watched'
      BY <1>6 DEF Arrives
    <2>4. \A n \in Objects \cup {Root} : n # None /\ n # Hide
      BY NodeFacts
    <2>5. \A x \in Objects : up'[x] \in {None, Hide} => up'[x] = up[x]
      BY <1>6, <2>4
    <2> QED BY <1>2, <2>1, <2>2, <2>3, <2>5 DEF LeftInv
  <1> QED BY <1>3, <1>5, <1>6

\* At its end it has nothing before it.
LEMMA EndFlushLeft ==
  ASSUME IInv, LeftInv, EndFlush
  PROVE  LeftInv'
  <1>1. /\ job.kind = "flush" /\ job.list = <<>> /\ job' = Idle
        /\ UNCHANGED <<status, objMap, up, hidden, watched, queue, orphans>>
    BY DEF EndFlush
  <1>2. \A x : ~Occurs(job.list, x)
    BY <1>1 DEF Occurs
  <1> QED BY <1>1, <1>2 DEF LeftInv, Idle

\* What onVisible(true) puts in Hide is hidden.
LEMMA RevealStepLeft ==
  ASSUME IInv, LeftInv, RevealStep
  PROVE  LeftInv'
  <1>1. PICK o : o = Head(job.list)
    OBVIOUS
  <1>2. job.kind = "reveal" /\ UNCHANGED <<status, objMap, hidden, queue, orphans>>
    BY DEF RevealStep
  <1>3. /\ o \in Objects
        /\ \/ UNCHANGED <<up, watched>>
           \/ /\ o \in hidden /\ Departs(o, {o})
              /\ \A x \in Objects : up'[x] = IF x = o THEN Hide ELSE up[x]
        /\ \E l : job' = [job EXCEPT !.list = l]
    BY <1>1, RevealStepMoves
  <1>4. job'.kind = "reveal" /\ job'.of = job.of
    <2>1. \A l : [job EXCEPT !.list = l].kind = job.kind /\ [job EXCEPT !.list = l].of = job.of
      BY DEF IInv, ShapeInv, TypeOK
    <2> QED BY <1>2, <1>3, <2>1
  <1>5. CASE UNCHANGED <<up, watched>>
    BY <1>2, <1>4, <1>5 DEF LeftInv
  <1>6. CASE /\ o \in hidden /\ Departs(o, {o})
             /\ \A x \in Objects : up'[x] = IF x = o THEN Hide ELSE up[x]
    <2>1. watched' = watched \cup {o}
      BY <1>6 DEF Departs
    <2>2. Hide # None /\ Hide # NoAdd
      BY NodeFacts
    <2>3. \A x \in Objects : up'[x] = Hide =>
            x \in watched' /\ (x \in hidden \/ Occurs(queue, Showing(x)) \/ job.of = x)
      BY <1>2, <1>6, <2>1 DEF LeftInv
    <2>4. \A x \in Objects : up'[x] = NoAdd => Homeless(objMap, x)
      BY <1>2, <1>6, <2>2 DEF LeftInv
    <2>5. \A x \in Objects : status[x] = "known" /\ up'[x] = None => x \in orphans
      BY <1>2, <1>6, <2>2 DEF LeftInv
    <2> QED BY <1>2, <1>4, <2>3, <2>4, <2>5 DEF LeftInv
  <1> QED BY <1>3, <1>5, <1>6

\* What is shown leaves Hide.
LEMMA EndRevealLeft ==
  ASSUME IInv, IInv', LeftInv, EndReveal
  PROVE  LeftInv'
  <1>1. PICK o : o = job.of
    OBVIOUS
  <1>2. /\ job.kind = "reveal" /\ job' = Idle
        /\ UNCHANGED <<status, objMap, hidden, queue, orphans>>
    BY DEF EndReveal
  <1>3. /\ o \in Objects /\ Arrives(o, {})
        /\ \A x \in Objects \ {o} : up'[x] = up[x]
        /\ \/ up'[o] \in Objects \cup {Root}
           \/ up'[o] = NoAdd /\ Homeless(objMap, o)
    BY <1>1, EndRevealMoves
  <1>4. watched \subseteq watched'
    BY <1>3 DEF Arrives
  <1>5. \A n \in Objects \cup {Root} : n # None /\ n # Hide /\ n # NoAdd
    BY NodeFacts
  <1>6. NoAdd # None /\ NoAdd # Hide
    BY NodeFacts
  <1>7. \A x \in Objects : up'[x] \in {None, Hide} => x # o /\ up'[x] = up[x]
    BY <1>3, <1>5, <1>6
  <1>8. \A x \in Objects : up'[x] = NoAdd => Homeless(objMap, x)
    BY <1>2, <1>3, <1>5 DEF LeftInv
  <1> QED BY <1>1, <1>2, <1>4, <1>7, <1>8 DEF LeftInv, Idle

\* A destroyed object lets go of its children, and nothing more has arrived.
LEMMA DestroyLeft ==
  ASSUME IInv, LeftInv, DestroyStep
  PROVE  LeftInv'
  <1>1. PICK o : o = Head(job.list)
    OBVIOUS
  <1>2. /\ \A x : Occurs(objMap', x) <=> Occurs(objMap, x) /\ x # o
        /\ \A e : Occurs(queue', e) <=> Occurs(queue, e) /\ e.obj # o
        /\ \A x \in Objects : status'[x] = IF x = o THEN "dead" ELSE status[x]
        /\ job.kind = "destroy" /\ job'.kind = "destroy"
        /\ orphans' = orphans \cup {c \in Objects : up[c] = o}
        /\ UNCHANGED hidden
    BY <1>1, DestroyLists
  <1>3. /\ o \in Objects /\ watched' = watched
        /\ \A x \in Objects : up'[x] = IF x = o \/ up[x] = o THEN None ELSE up[x]
    <2>1. /\ o \in Objects /\ Departs(o, {})
          /\ \A x \in Objects : up'[x] = IF x = o \/ up[x] = o THEN None ELSE up[x]
      BY <1>1, DestroyMoves
    <2>2. watched' = watched \cup {}
      BY <2>1 DEF Departs
    <2> QED BY <2>1, <2>2
  <1>4. Hide # None /\ NoAdd # None
    BY NodeFacts
  <1>5. \A x : Showing(x).obj = x
    BY DEF Showing
  <1>6. \A x \in Objects : up'[x] = Hide => x \in watched /\ (x \in hidden \/ Occurs(queue', Showing(x)))
    BY <1>2, <1>3, <1>4, <1>5 DEF LeftInv
  <1>7. \A x \in Objects : status'[x] = "known" /\ up'[x] = None => x \in orphans'
    BY <1>2, <1>3 DEF LeftInv
  <1>8. \A x \in Objects : up'[x] = NoAdd => Homeless(objMap', x)
    <2>1. \A x \in Objects : Homeless(objMap, x) => Homeless(objMap', x)
      BY <1>2 DEF Homeless, Occurs
    <2> QED BY <1>2, <1>3, <1>4, <2>1 DEF LeftInv
  <1> QED BY <1>2, <1>3, <1>6, <1>7, <1>8 DEF LeftInv

\* A repeater lets go of an object.
LEMMA WithdrawLeft ==
  ASSUME IInv, LeftInv, NEW o \in Objects, Withdraw(o)
  PROVE  LeftInv'
  <1>1. /\ job = Idle /\ status' = [status EXCEPT ![o] = "leaving"]
        /\ queue' = Append(queue, [call |-> "delete", obj |-> o])
        /\ UNCHANGED <<objMap, hidden, job, orphans>>
    BY DEF Withdraw
  <1>2. \A x \in Objects : status'[x] = IF x = o THEN "leaving" ELSE status[x]
    BY <1>1 DEF IInv, ShapeInv, TypeOK
  <1>3. watched' = watched /\ \A x \in Objects : up'[x] = up[x] \/ (x = o /\ up'[x] = None)
    <2>1. Departs(o, {}) /\ \A x \in Objects : up'[x] = up[x] \/ (x = o /\ up'[x] = None)
      BY WithdrawMoves
    <2>2. watched' = watched \cup {}
      BY <2>1 DEF Departs
    <2> QED BY <2>1, <2>2
  <1>4. \A e : Occurs(queue, e) => Occurs(queue', e)
    <2>1. queue \in Seq(Posts) /\ [call |-> "delete", obj |-> o] \in Posts
      BY QueueType DEF IInv, ShapeInv, Posts
    <2> QED BY <1>1, <2>1, AppendMembers
  <1>5. Hide # None /\ NoAdd # None
    BY NodeFacts
  <1>6. \A x \in Objects : up'[x] = Hide => x \in watched /\ (x \in hidden \/ Occurs(queue', Showing(x)))
    BY <1>1, <1>3, <1>4, <1>5 DEF LeftInv, Idle
  <1>7. \A x \in Objects : status'[x] = "known" /\ up'[x] = None => x \in orphans'
    BY <1>1, <1>2, <1>3 DEF LeftInv
  <1>8. \A x \in Objects : up'[x] = NoAdd => Homeless(objMap', x)
    BY <1>1, <1>3, <1>5 DEF LeftInv, Idle
  <1> QED BY <1>1, <1>3, <1>6, <1>7, <1>8 DEF LeftInv

\* Every step keeps this.
LEMMA LeftKeeps ==
  ASSUME IInv, IInv', LeftInv, [Next]_vars
  PROVE  LeftInv'
  <1>1. ASSUME NEW o \in Objects, Make(o) PROVE LeftInv'
    <2>1. /\ job = Idle /\ UNCHANGED <<objMap, up, hidden, watched, queue, orphans>>
          /\ status' = [status EXCEPT ![o] = "made"]
      BY <1>1 DEF Make
    <2>2. \A x \in Objects : status'[x] = "known" => status[x] = "known"
      BY <2>1 DEF IInv, ShapeInv, TypeOK
    <2>3. job.kind \in {"idle", "destroy"}
      BY <2>1 DEF Idle
    <2> QED BY <2>1, <2>2, <2>3, LeftStill
  <1>2. ASSUME NEW o \in Objects, Announce(o) \/ Rename(o) \/ \E w \in Weights : ChangeWeight(o, w)
        PROVE  LeftInv'
    <2>1. job = Idle /\ UNCHANGED <<status, objMap, up, hidden, watched, queue, orphans>>
      BY <1>2 DEF Announce, Rename, ChangeWeight
    <2>2. job.kind \in {"idle", "destroy"}
      BY <2>1 DEF Idle
    <2> QED BY <2>1, <2>2, LeftStill
  <1>3. ASSUME NEW o \in Objects, ChangeVisible(o) \/ Withdraw(o) PROVE LeftInv'
    BY <1>3, ChangeVisibleLeft, WithdrawLeft
  <1>4. CASE EndDestroy
    <2>1. job.kind = "destroy" /\ UNCHANGED <<status, objMap, up, hidden, watched, queue, orphans>>
      BY <1>4 DEF EndDestroy
    <2> QED BY <2>1, LeftStill
  <1>5. CASE UNCHANGED vars
    <2>1. LeftInv' <=> LeftInv
      BY <1>5 DEF vars, LeftInv
    <2> QED BY <2>1
  <1>6. Deliver => HideObject \/ StartReveal \/ StartDestroy
    BY DEF Deliver
  <1>7. JobStep => AnnounceStep \/ StartFlush \/ FlushStep \/ EndFlush
                   \/ RevealStep \/ EndReveal \/ DestroyStep \/ EndDestroy
    BY DEF JobStep
  <1>8. CASE HideObject \/ StartReveal \/ StartDestroy
    BY <1>8, HideObjectLeft, StartRevealLeft, StartDestroyLeft
  <1>9. CASE AnnounceStep \/ StartFlush \/ FlushStep \/ EndFlush
    BY <1>9, AnnounceStepLeft, StartFlushLeft, FlushLeft, EndFlushLeft
  <1>10. CASE RevealStep \/ EndReveal \/ DestroyStep
    BY <1>10, RevealStepLeft, EndRevealLeft, DestroyLeft
  <1>11. CASE Next
    BY ONLY <1>1, <1>2, <1>3, <1>4, <1>6, <1>7, <1>8, <1>9, <1>10, <1>11 DEF Next
  <1> QED BY <1>5, <1>11

\* Nothing is anywhere at the start.
LEMMA LeftStarts == ASSUME Init PROVE LeftInv
  <1>1. \A o \in Objects : up[o] = None /\ status[o] = "unborn"
    BY DEF Init
  <1> QED BY <1>1, NodeFacts DEF LeftInv

\* What has come and what is left hold of every state.
LEMMA ComeLeftHold == Spec => [](IInv /\ ComeInv /\ LeftInv)
  <1>1. IInv /\ ComeInv /\ LeftInv /\ [Next]_vars => IInv' /\ ComeInv' /\ LeftInv'
    BY NextKeeps, ComeKeeps, LeftKeeps
  <1> QED BY InitInv, ComeStarts, LeftStarts, <1>1, PTL DEF Spec

\* When everything posted is handled, no visible object is in Hide, none waits for a parent
\* that is there, and none is nowhere but what a destroyed parent let go: every handler that
\* takes an object out of a list puts it in another, and addObject looks again at what waits.
THEOREM NothingEverLeftBehind == Spec => []NothingLeftBehind
  <1>1. ASSUME IInv, ComeInv, LeftInv PROVE NothingLeftBehind
    <2> SUFFICES ASSUME job = Idle, queue = <<>>, NEW o \in Objects \ hidden, status[o] = "known"
                 PROVE  /\ up[o] # Hide
                        /\ up[o] = NoAdd => FindParent(tree, objMap, o) = None
                        /\ up[o] = None => o \in orphans
      BY DEF NothingLeftBehind
    <2>1. job.kind = "idle" /\ \A e : ~Occurs(queue, e)
      BY DEF Idle, Occurs
    <2>2. up[o] # Hide /\ (up[o] = None => o \in orphans)
      BY <1>1, <2>1 DEF LeftInv
    <2>3. ASSUME up[o] = NoAdd PROVE FindParent(tree, objMap, o) = None
      <3>1. Homeless(objMap, o)
        BY <1>1, <2>1, <2>3 DEF LeftInv
      <3>2. Settled(o)
        BY <1>1 DEF ComeInv
      <3> QED BY <1>1, <2>1, <3>1, <3>2, HomelessFindsNone
    <2> QED BY <2>2, <2>3
  <1> QED BY <1>1, ComeLeftHold, PTL

-----------------------------------------------------------------------------
(* Who hears of what is hidden.                                             *)

\* The posted call of onVisible(false).
Hiding(o) == [call |-> "hide", obj |-> o]

\* No change of visibility of the object is posted.
Quiet(q, o) == ~Occurs(q, Showing(o)) /\ ~Occurs(q, Hiding(o))

\* The hidden objects the manager has not heard of and has no excuse for.
Deaf == hidden \ (missed \cup watched)

\* A set without such an object that has all that waits and all below its own.
Waits(W) ==
  /\ W \in SUBSET (Objects \ Deaf)
  /\ \A x \in Objects : up[x] = NoAdd \/ up[x] \in W => x \in W

\* A set without such an object that has what is shown, and all below its own but what
\* onVisible(true) has still to look at.
Looks(V) ==
  /\ V \in SUBSET (Objects \ Deaf) /\ job.of \in V
  /\ \A x \in Objects : up[x] \in V => x \in V \/ Occurs(job.list, x)

\* What is in the tree is watched; what is watched and hidden is out of the tree, or hears of
\* it; and what may come into the tree at once has nothing in it nobody would hear of.
HeardInv ==
  /\ linked \cap Objects \subseteq watched
  /\ \A o \in watched : o \in hidden \ missed /\ Quiet(queue, o) => up[o] \in {Hide, None}
  /\ \E W : Waits(W)
  /\ job.kind = "reveal" => \E V : Looks(V)

\* A step after which nothing hangs where it did not hang but in Hide.
LEMMA HeardStays ==
  ASSUME HeardInv, job'.kind # "reveal", UNCHANGED <<hidden, missed, watched>>, linked' \subseteq linked,
         \A x \in Objects : up'[x] = up[x] \/ up'[x] \in {Hide, None},
         watched \subseteq Objects,
         \A x \in watched : Quiet(queue', x) => Quiet(queue, x) \/ up'[x] \in {Hide, None}
  PROVE  HeardInv'
  <1>1. Deaf' = Deaf
    BY DEF Deaf
  <1>2. PICK W : Waits(W)
    BY DEF HeardInv
  <1>3. Waits(W)'
    <2>1. Hide \notin W /\ None \notin W /\ Hide # NoAdd /\ None # NoAdd
      BY <1>2, NodeFacts DEF Waits
    <2> QED BY <1>1, <1>2, <2>1 DEF Waits
  <1>4. \A o \in watched' : o \in hidden' \ missed' /\ Quiet(queue', o) => up'[o] \in {Hide, None}
    BY DEF HeardInv
  <1>5. linked' \cap Objects \subseteq watched'
    BY DEF HeardInv
  <1> QED BY <1>3, <1>4, <1>5 DEF HeardInv

\* An object comes into the tree with what is below it.
LEMMA HeardArrives ==
  ASSUME IInv', HeardInv, NEW o \in Objects, Arrives(o, {}), UNCHANGED <<hidden, missed, queue>>,
         job'.kind # "reveal", \A x \in Objects \ {o} : up'[x] = up[x],
         NEW W, Waits(W), o \in W, o \in watched /\ o \in hidden \ missed => ~Quiet(queue, o)
  PROVE  HeardInv'
  <1>1. W \in SUBSET Objects /\ \A x \in W : x \notin Deaf
    BY DEF Waits
  <1>2. tree' \in Trees /\ Agree(tree') /\ tree'.up = up'
    <2>1. TypeOK' /\ TreeInv'
      BY DEF IInv, ShapeInv
    <2> QED BY <2>1 DEF TreeInv, TypeOK, tree, Trees
  <1>3. \A x \in Objects : up'[x] \in W => x \in W
    BY DEF Waits
  <1>4. Below(tree', o) \subseteq W
    <2> DEFINE t == tree'
    <2>1. t \in Trees /\ Agree(t) /\ W \in SUBSET Objects /\ o \in W /\ \A x \in Objects : t.up[x] \in W => x \in W
      BY <1>1, <1>2, <1>3
    <2> HIDE DEF t
    <2>2. Below(t, o) \subseteq W
      BY ONLY <2>1, o \in Objects, BelowLeast
    <2> QED BY <2>2 DEF t
  <1>5. /\ watched \subseteq watched' /\ watched' \subseteq watched \cup W
        /\ linked' \cap Objects \subseteq watched'
    <2> DEFINE B == Below(tree', o)
    <2>1. \/ linked' = linked \cup B /\ watched' = watched \cup B
          \/ linked' = linked /\ watched' = watched
      BY DEF Arrives
    <2> HIDE DEF B
    <2>2. linked \cap Objects \subseteq watched /\ B \subseteq W
      BY <1>4 DEF HeardInv, B
    <2> QED BY <2>1, <2>2
  <1>6. \A x \in watched' : x \in hidden' \ missed' /\ Quiet(queue', x) => up'[x] \in {Hide, None}
    <2> SUFFICES ASSUME NEW x \in watched', x \in hidden \ missed, Quiet(queue, x)
                 PROVE  up'[x] \in {Hide, None}
      OBVIOUS
    <2>1. x \in watched
      BY <1>1, <1>5 DEF Deaf
    <2>2. x # o /\ x \in Objects
      <3>1. watched' \subseteq Objects
        BY DEF IInv, ShapeInv, TypeOK
      <3> QED BY <2>1, <3>1
    <2> QED BY <2>1, <2>2 DEF HeardInv
  <1>7. Waits(W)'
    <2>1. Deaf' \subseteq Deaf
      BY <1>5 DEF Deaf
    <2> QED BY <2>1 DEF Waits
  <1> QED BY <1>5, <1>6, <1>7 DEF HeardInv

\* addObject registers an object below which there is nothing yet.
LEMMA AnnounceStepHeard ==
  ASSUME IInv, IInv', ComeInv, HeardInv, AnnounceStep
  PROVE  HeardInv'
  <1>1. PICK o : o = Head(job.list)
    OBVIOUS
  <1>2. /\ job'.kind = "announce" /\ queue' = queue /\ missed' = missed \ {o}
    <2>1. \A l : [job EXCEPT !.list = l].kind = job.kind
      BY DEF IInv, ShapeInv, TypeOK
    <2> QED BY <1>1, <2>1 DEF AnnounceStep
  <1>3. /\ o \in Objects /\ status[o] = "made" /\ up[o] = None /\ o \notin watched
        /\ \A x \in Objects \ {o} : up'[x] = up[x]
        /\ \/ Arrives(o, {}) /\ hidden' = hidden /\ up'[o] = NoParent
           \/ Arrives(o, {o}) /\ hidden' = hidden \cup {o} /\ up'[o] = Hide
           \/ Arrives(o, {}) /\ hidden' = hidden /\ o \notin hidden /\ up'[o] \in {NoAdd, Root} \cup Objects
    BY <1>1, AnnounceMoves
  <1>4. \A x \in Objects : up[x] # o
    <2> SUFFICES ASSUME NEW x \in Objects, up[x] = o PROVE FALSE
      OBVIOUS
    <2>1. status[x] \notin {"unborn", "made", "dead"} /\ rec[x] = o
      BY <1>3, ChildOf
    <2>2. o \in Arrived
      BY <1>3, <2>1, NodeFacts DEF ComeInv, Settled
    <2> QED BY <1>3, <2>2 DEF Arrived
  <1>5. Below(tree', o) \subseteq {o}
    <2> DEFINE t == tree'
               A == {o}
    <2>1. t \in Trees /\ Agree(t) /\ t.up = up'
      <3>1. TypeOK' /\ TreeInv'
        BY DEF IInv, ShapeInv
      <3> QED BY <3>1 DEF TreeInv, TypeOK, tree, Trees
    <2>2. A \in SUBSET Objects /\ o \in A /\ \A x \in Objects : t.up[x] \in A => x \in A
      BY <1>3, <1>4, <2>1
    <2> HIDE DEF t, A
    <2>3. Below(t, o) \subseteq A
      BY ONLY <1>3, <2>1, <2>2, BelowLeast
    <2> QED BY <2>3 DEF t, A
  <1>6. /\ watched \subseteq watched' /\ watched' \subseteq watched \cup {o}
        /\ linked' \cap Objects \subseteq watched'
        /\ up'[o] = NoParent => watched' = watched
        /\ up'[o] = Hide => o \in watched'
    <2> DEFINE B == Below(tree', o)
    <2>1. \A E : Arrives(o, E) =>
            \/ up'[o] \in linked /\ linked' = linked \cup B /\ watched' = watched \cup E \cup B
            \/ linked' = linked /\ watched' = watched \cup E
      BY DEF Arrives
    <2> HIDE DEF B
    <2> HIDE DEF Arrives
    <2>2. linked \cap Objects \subseteq watched /\ B \subseteq {o}
      BY <1>5 DEF HeardInv, B
    <2>3. /\ NoParent \notin linked /\ NoParent # Hide
          /\ \A n \in {NoAdd, Root} \cup Objects : n # NoParent /\ n # Hide
      BY NodeFacts DEF IInv, LinkInv
    <2>4. CASE Arrives(o, {}) /\ up'[o] = NoParent
      BY <2>1, <2>2, <2>3, <2>4
    <2>5. CASE Arrives(o, {o}) /\ up'[o] = Hide
      BY <2>1, <2>2, <2>3, <2>5
    <2>6. CASE Arrives(o, {}) /\ up'[o] \in {NoAdd, Root} \cup Objects
      BY <2>1, <2>2, <2>3, <2>6
    <2> QED BY <1>3, <2>4, <2>5, <2>6
  <1>7. \A x \in Objects : x # o => (x \in Deaf' <=> x \in Deaf)
    BY <1>2, <1>3, <1>6 DEF Deaf
  <1>8. PICK W : Waits(W)
    BY DEF HeardInv
  <1>9. \E U : Waits(U)'
    <2>1. NoAdd # NoParent /\ NoAdd # Hide /\ NoParent \notin Objects /\ Hide \notin Objects
      BY NodeFacts
    <2>2. CASE up'[o] \in {NoParent, Hide}
      <3> DEFINE U == W \ {o}
      <3>1. U \in SUBSET (Objects \ Deaf')
        BY <1>7, <1>8 DEF Waits
      <3>2. \A x \in Objects : up'[x] = NoAdd \/ up'[x] \in U => x \in U
        BY <1>3, <1>8, <2>1, <2>2 DEF Waits
      <3>3. Waits(U)'
        BY <3>1, <3>2 DEF Waits
      <3> QED BY <3>3
    <2>3. CASE o \notin hidden'
      <3> DEFINE U == W \cup {o}
      <3>1. U \in SUBSET (Objects \ Deaf')
        <4>1. o \notin Deaf'
          BY <2>3 DEF Deaf
        <4> QED BY <1>3, <1>7, <1>8, <4>1 DEF Waits
      <3>2. \A x \in Objects : up'[x] = NoAdd \/ up'[x] \in U => x \in U
        BY <1>3, <1>4, <1>8 DEF Waits
      <3>3. Waits(U)'
        BY <3>1, <3>2 DEF Waits
      <3> QED BY <3>3
    <2> QED BY <1>3, <2>2, <2>3
  <1>10. \A x \in watched' : x \in hidden' \ missed' /\ Quiet(queue', x) => up'[x] \in {Hide, None}
    <2> SUFFICES ASSUME NEW x \in watched', x \in hidden' \ missed', Quiet(queue, x)
                 PROVE  up'[x] \in {Hide, None}
      BY <1>2
    <2>1. CASE x = o
      BY <1>3, <1>6, <2>1
    <2>2. CASE x # o
      <3>1. x \in watched /\ x \in Objects /\ x \in hidden \ missed
        <4>1. watched' \subseteq Objects
          BY DEF IInv, ShapeInv, TypeOK
        <4> QED BY <1>2, <1>3, <1>6, <2>2, <4>1
      <3> QED BY <1>3, <2>2, <3>1 DEF HeardInv
    <2> QED BY <2>1, <2>2
  <1> QED BY <1>2, <1>6, <1>9, <1>10 DEF HeardInv

\* What waits goes to its parent with what is below it.
LEMMA FlushHeard ==
  ASSUME IInv, IInv', HeardInv, FlushStep
  PROVE  HeardInv'
  <1>1. PICK o : o = Head(job.list)
    OBVIOUS
  <1>2. job.kind = "flush" /\ UNCHANGED <<hidden, missed, queue>>
    BY DEF FlushStep
  <1>3. /\ o \in Objects /\ up[o] = NoAdd
        /\ \/ UNCHANGED <<up, linked, watched>>
           \/ Arrives(o, {}) /\ \A x \in Objects \ {o} : up'[x] = up[x]
        /\ \E l : job' = [job EXCEPT !.list = l]
    BY <1>1, FlushMoves
  <1>4. job'.kind = "flush"
    <2>1. \A l : [job EXCEPT !.list = l].kind = job.kind
      BY DEF IInv, ShapeInv, TypeOK
    <2> QED BY <1>2, <1>3, <2>1
  <1>5. CASE UNCHANGED <<up, linked, watched>>
    <2>1. HeardInv' <=> HeardInv
      BY <1>2, <1>4, <1>5 DEF HeardInv, Waits, Deaf
    <2> QED BY <2>1
  <1>6. CASE Arrives(o, {}) /\ \A x \in Objects \ {o} : up'[x] = up[x]
    <2>1. PICK W : Waits(W)
      BY DEF HeardInv
    <2>2. o \in W
      BY <1>3, <2>1 DEF Waits
    <2>3. o \in watched /\ o \in hidden \ missed => ~Quiet(queue, o)
      BY <1>3, NodeFacts DEF HeardInv
    <2> QED BY <1>2, <1>3, <1>4, <1>6, <2>1, <2>2, <2>3, HeardArrives
  <1> QED BY <1>3, <1>5, <1>6

\* What is shown goes to its parent with what is below it, which has been looked at.
LEMMA EndRevealHeard ==
  ASSUME IInv, IInv', HeardInv, EndReveal
  PROVE  HeardInv'
  <1>1. PICK o : o = job.of
    OBVIOUS
  <1>2. /\ job.kind = "reveal" /\ job.list = <<>> /\ job' = Idle /\ job'.kind # "reveal"
        /\ UNCHANGED <<hidden, missed, queue>>
    BY DEF EndReveal, Idle
  <1>3. /\ o \in Objects /\ Arrives(o, {})
        /\ \A x \in Objects \ {o} : up'[x] = up[x]
    BY <1>1, EndRevealMoves
  <1>4. PICK V : Looks(V)
    BY <1>2 DEF HeardInv
  <1>5. PICK W : Waits(W)
    BY DEF HeardInv
  <1> DEFINE U == V \cup W
  <1>6. Waits(U) /\ o \in U
    <2>1. \A x : ~Occurs(job.list, x)
      BY <1>2 DEF Occurs
    <2> QED BY <1>1, <1>4, <1>5, <2>1 DEF Waits, Looks
  <1> HIDE DEF U
  <1>7. o \in watched /\ o \in hidden \ missed => ~Quiet(queue, o)
    <2> SUFFICES ASSUME o \in hidden, Quiet(queue, o) PROVE FALSE
      OBVIOUS
    <2>1. SeenHidden(queue, hidden, o)
      BY DEF SeenHidden, Quiet, Occurs, Showing, Hiding
    <2> QED BY <1>1, <1>2, <2>1 DEF IInv, SeenInv
  <1> QED BY <1>2, <1>3, <1>6, <1>7, HeardArrives

\* onVisible(true) has the children of the object to look at.
LEMMA StartRevealHeard ==
  ASSUME IInv, IInv', HeardInv, StartReveal
  PROVE  HeardInv'
  <1>1. PICK o : o = Head(queue).obj
    OBVIOUS
  <1>2. /\ job' = [kind |-> "reveal", list |-> kids[o], of |-> o] /\ queue # <<>>
        /\ Head(queue).call = "show" /\ queue' = Tail(queue)
        /\ UNCHANGED <<status, up, hidden, watched, missed, linked>>
    BY <1>1 DEF StartReveal, Delivers
  <1>3. job'.kind = "reveal" /\ job'.of = o /\ job'.list = kids[o]
    BY <1>2
  <1>4. o \in Objects /\ o \in watched
    BY <1>1, <1>2, DeliveredQueue
  <1>5. \A e : Occurs(queue, e) <=> e = Head(queue) \/ Occurs(queue', e)
    BY <1>2, DeliveredPosts
  <1>6. \A x : x # o /\ Quiet(queue', x) => Quiet(queue, x)
    <2>1. \A x : Showing(x).obj = x /\ Hiding(x).obj = x
      BY DEF Showing, Hiding
    <2> QED BY <1>1, <1>5, <2>1 DEF Quiet
  <1>7. o \in hidden => ~Quiet(queue', o)
    <2> SUFFICES ASSUME o \in hidden', Quiet(queue', o) PROVE FALSE
      BY <1>2
    <2>1. SeenHidden(queue', hidden', o)
      BY DEF SeenHidden, Quiet, Occurs, Showing, Hiding
    <2> QED BY <1>3, <2>1 DEF IInv, SeenInv
  <1>8. \A x \in watched' : x \in hidden' \ missed' /\ Quiet(queue', x) => up'[x] \in {Hide, None}
    BY <1>2, <1>6, <1>7 DEF HeardInv
  <1>9. Deaf' = Deaf
    BY <1>2 DEF Deaf
  <1>10. PICK W : Waits(W)
    BY DEF HeardInv
  <1>11. Waits(W)'
    BY <1>2, <1>9, <1>10 DEF Waits
  <1>12. Looks({o})'
    <2>1. \A x \in Objects : up[x] = o => Occurs(kids[o], x)
      BY <1>4, NodeFacts DEF IInv, TreeInv, tree, Agree
    <2>2. o \notin Deaf
      BY <1>4 DEF Deaf
    <2> QED BY <1>2, <1>3, <1>4, <1>9, <2>1, <2>2 DEF Looks
  <1> QED BY <1>2, <1>8, <1>11, <1>12 DEF HeardInv

\* It takes what is hidden there out, and has the children of the rest to look at.
LEMMA RevealStepHeard ==
  ASSUME IInv, HeardInv, RevealStep
  PROVE  HeardInv'
  <1>1. PICK o : o = Head(job.list)
    OBVIOUS
  <1>2. /\ job.kind = "reveal" /\ job.list # <<>> /\ UNCHANGED <<hidden, queue>>
        /\ missed' = IF o \in hidden THEN missed \ {o} ELSE missed
    BY <1>1 DEF RevealStep
  <1>3. TypeOK /\ job.list \in Seq(Objects)
    BY DEF IInv, ShapeInv, TypeOK
  <1>4. /\ Occurs(job.list, o) /\ Tail(job.list) \in Seq(Objects)
        /\ \A x : Occurs(job.list, x) <=> x = o \/ Occurs(Tail(job.list), x)
    BY <1>1, <1>2, <1>3, TailFacts
  <1>5. \A l : /\ [job EXCEPT !.list = l].kind = "reveal" /\ [job EXCEPT !.list = l].list = l
               /\ [job EXCEPT !.list = l].of = job.of
    BY <1>2, <1>3 DEF TypeOK
  <1>6. /\ o \in Objects
        /\ \/ /\ o \notin hidden /\ UNCHANGED <<up, linked, watched, missed>>
              /\ job' = [job EXCEPT !.list = Tail(job.list) \o kids[o]]
           \/ /\ o \in hidden /\ Departs(o, {o})
              /\ \A x \in Objects : up'[x] = IF x = o THEN Hide ELSE up[x]
              /\ job' = [job EXCEPT !.list = Tail(job.list)]
    BY <1>1, RevealStepMoves
  <1>7. PICK V : Looks(V)
    BY <1>2 DEF HeardInv
  <1>8. PICK W : Waits(W)
    BY DEF HeardInv
  <1>9. CASE /\ o \notin hidden /\ UNCHANGED <<up, linked, watched, missed>>
             /\ job' = [job EXCEPT !.list = Tail(job.list) \o kids[o]]
    <2>1. /\ job'.kind = "reveal" /\ job'.list = Tail(job.list) \o kids[o] /\ job'.of = job.of
      BY <1>5, <1>9
    <2>2. \A x \in Objects : Occurs(job'.list, x) <=> Occurs(Tail(job.list), x) \/ up[x] = o
      <3>1. PICK tl \in Seq(Objects) : tl = Tail(job.list)
        BY <1>4
      <3>2. PICK ks \in Seq(Objects) : ks = kids[o]
        BY <1>3, <1>6, NodeFacts DEF TypeOK
      <3>3. \A x : Occurs(tl \o ks, x) <=> Occurs(tl, x) \/ Occurs(ks, x)
        BY OccursInConcat
      <3>4. \A x \in Objects : Occurs(ks, x) <=> up[x] = o
        BY <1>6, <3>2, NodeFacts DEF IInv, TreeInv, tree, Agree
      <3> QED BY <2>1, <3>1, <3>2, <3>3, <3>4
    <2>3. Deaf' = Deaf /\ o \notin Deaf
      BY <1>2, <1>9 DEF Deaf
    <2>4. Waits(W)'
      BY <1>8, <1>9, <2>3 DEF Waits
    <2>5. Looks(V \cup {o})'
      <3>1. V \cup {o} \in SUBSET (Objects \ Deaf')
        BY <1>6, <1>7, <2>3 DEF Looks
      <3>2. \A x \in Objects : up'[x] \in V \cup {o} => x \in V \cup {o} \/ Occurs(job'.list, x)
        BY <1>4, <1>7, <1>9, <2>2 DEF Looks
      <3>3. job'.of \in V \cup {o}
        BY <1>7, <2>1 DEF Looks
      <3> QED BY <3>1, <3>2, <3>3 DEF Looks
    <2> QED BY <1>2, <1>9, <2>4, <2>5 DEF HeardInv
  <1>10. CASE /\ o \in hidden /\ Departs(o, {o})
              /\ \A x \in Objects : up'[x] = IF x = o THEN Hide ELSE up[x]
              /\ job' = [job EXCEPT !.list = Tail(job.list)]
    <2>1. /\ job'.kind = "reveal" /\ job'.list = Tail(job.list) /\ job'.of = job.of
      BY <1>5, <1>10
    <2>2. watched' = watched \cup {o} /\ linked' \subseteq linked
      BY <1>10 DEF Departs
    <2>3. Deaf' \subseteq Deaf
      BY <1>2, <1>10, <2>2 DEF Deaf
    <2>4. Hide # NoAdd /\ Hide \notin Objects
      BY NodeFacts
    <2>5. Waits(W)'
      BY <1>8, <1>10, <2>3, <2>4 DEF Waits
    <2>6. Looks(V)'
      <3>1. V \in SUBSET (Objects \ Deaf')
        BY <1>7, <2>3 DEF Looks
      <3>2. \A x \in Objects : up'[x] \in V => x \in V \/ Occurs(job'.list, x)
        <4>1. Hide \notin V
          BY <1>7, <2>4 DEF Looks
        <4> QED BY <1>4, <1>7, <1>10, <2>1, <4>1 DEF Looks
      <3> QED BY <1>7, <2>1, <3>1, <3>2 DEF Looks
    <2>7. \A x \in watched' : x \in hidden' \ missed' /\ Quiet(queue', x) => up'[x] \in {Hide, None}
      <3>1. watched' \subseteq Objects
        BY <1>3, <1>6, <2>2 DEF TypeOK
      <3> QED BY <1>2, <1>10, <2>2, <3>1 DEF HeardInv
    <2>8. linked' \cap Objects \subseteq watched'
      BY <2>2 DEF HeardInv
    <2> QED BY <2>5, <2>6, <2>7, <2>8 DEF HeardInv
  <1> QED BY <1>6, <1>9, <1>10

\* A change of visibility is posted, or the object is not heard: then it waits, or it is below
\* something hidden, and what comes back with that is looked at.
LEMMA ChangeVisibleHeard ==
  ASSUME IInv, HeardInv, NEW o \in Objects, ChangeVisible(o)
  PROVE  HeardInv'
  <1> DEFINE e == [call |-> IF o \in hidden THEN "show" ELSE "hide", obj |-> o]
             line == PathTo(tree, o)
  <1>1. /\ job = Idle /\ UNCHANGED <<up, watched, linked, job>>
        /\ hidden' = IF o \in hidden THEN hidden \ {o} ELSE hidden \cup {o}
        /\ o \in watched => queue' = Append(queue, e) /\ missed' = missed \ {o}
        /\ o \notin watched => /\ queue' = queue
                               /\ missed' = IF up[Head(line)] \in {Root, Hide} THEN missed ELSE missed \cup {o}
    BY DEF ChangeVisible
  <1>2. job'.kind # "reveal"
    BY <1>1 DEF Idle
  <1>3. line \in Ways(tree, o)
    BY PathToFacts
  <1> HIDE DEF line
  <1>4. queue \in Seq(Posts) /\ e \in Posts
    BY QueueType DEF IInv, ShapeInv, Posts
  <1>5. e = Showing(o) \/ e = Hiding(o)
    BY DEF Showing, Hiding
  <1> HIDE DEF e
  <1>6. watched \subseteq Objects
    BY DEF IInv, ShapeInv, TypeOK
  <1>7. PICK W : Waits(W)
    BY DEF HeardInv
  <1>8. CASE o \in watched
    <2>1. \A x : Occurs(queue', x) <=> Occurs(queue, x) \/ x = e
      <3>1. \A x : Occurs(Append(queue, e), x) <=> Occurs(queue, x) \/ x = e
        BY <1>4, AppendMembers
      <3> QED BY <1>1, <1>8, <3>1
    <2>2. ~Quiet(queue', o)
      BY <1>5, <2>1 DEF Quiet
    <2>3. \A x : Quiet(queue', x) => Quiet(queue, x)
      BY <2>1 DEF Quiet
    <2>4. Deaf' = Deaf
      BY <1>1, <1>8 DEF Deaf
    <2>5. Waits(W)'
      BY <1>1, <1>7, <2>4 DEF Waits
    <2>6. \A x \in watched' : x \in hidden' \ missed' /\ Quiet(queue', x) => up'[x] \in {Hide, None}
      BY <1>1, <1>8, <2>2, <2>3 DEF HeardInv
    <2> QED BY <1>1, <1>2, <2>5, <2>6 DEF HeardInv
  <1>9. CASE o \notin watched
    <2>1. \A x \in watched' : x \in hidden' \ missed' /\ Quiet(queue', x) => up'[x] \in {Hide, None}
      BY <1>1, <1>9 DEF HeardInv
    <2>2. Deaf' \subseteq Deaf \cup {o}
      BY <1>1, <1>9 DEF Deaf
    <2>3. \E U : Waits(U)'
      <3>1. CASE up[Head(line)] \in {Root, Hide}
        <4> DEFINE P == {line[i] : i \in 1..Len(line)}
                   U == W \ P
        <4>1. /\ line \in Seq(Objects) /\ Len(line) \in Nat /\ Len(line) > 0
              /\ Head(line) = line[1] /\ line[Len(line)] = o
              /\ \A i \in 2..Len(line) : up[line[i]] = line[i - 1]
          BY <1>3 DEF Ways, tree
        <4>2. o \in P
          <5>1. Len(line) \in 1..Len(line)
            BY <4>1
          <5> QED BY <4>1, <5>1
        <4>3. \A x \in P : up[x] \in P \/ up[x] \in {Root, Hide}
          <5> SUFFICES ASSUME NEW i \in 1..Len(line) PROVE up[line[i]] \in P \/ up[line[i]] \in {Root, Hide}
            OBVIOUS
          <5>1. CASE i = 1
            BY <3>1, <4>1, <5>1
          <5>2. CASE i # 1
            <6>1. i \in 2..Len(line) /\ i - 1 \in 1..Len(line)
              BY <4>1, <5>2
            <6> QED BY <4>1, <6>1
          <5> QED BY <5>1, <5>2
        <4>4. P \subseteq Objects
          BY <4>1
        <4> HIDE DEF P
        <4>5. U \in SUBSET (Objects \ Deaf')
          BY <1>7, <2>2, <4>2 DEF Waits
        <4>6. \A x \in Objects : up[x] = NoAdd \/ up[x] \in U => x \in U
          <5>1. W \subseteq Objects /\ \A x \in Objects : up[x] = NoAdd \/ up[x] \in W => x \in W
            BY <1>7 DEF Waits
          <5>2. /\ NoAdd \notin Objects /\ Root \notin Objects /\ Hide \notin Objects
                /\ NoAdd # Root /\ NoAdd # Hide
            BY NodeFacts
          <5>3. \A x \in P : up[x] # NoAdd /\ up[x] \notin U
            BY <4>3, <4>4, <5>1, <5>2
          <5> QED BY <5>1, <5>3
        <4>7. PICK Z : Z = U
          OBVIOUS
        <4>8. Waits(Z)'
          BY <1>1, <4>5, <4>6, <4>7 DEF Waits
        <4> QED BY <4>8
      <3>2. CASE up[Head(line)] \notin {Root, Hide}
        <4>1. Deaf' \subseteq Deaf
          BY <1>1, <1>9, <2>2, <3>2 DEF Deaf
        <4>2. Waits(W)'
          BY <1>1, <1>7, <4>1 DEF Waits
        <4> QED BY <4>2
      <3> QED BY <3>1, <3>2
    <2> QED BY <1>1, <1>2, <2>1, <2>3 DEF HeardInv
  <1> QED BY <1>8, <1>9

\* Every step keeps this.
LEMMA HeardKeeps ==
  ASSUME IInv, IInv', ComeInv, HeardInv, [Next]_vars
  PROVE  HeardInv'
  <1>1. watched \subseteq Objects
    BY DEF IInv, ShapeInv, TypeOK
  <1>2. ASSUME UNCHANGED <<up, hidden, missed, watched, linked, queue>>, job'.kind # "reveal"
        PROVE  HeardInv'
    BY <1>1, <1>2, HeardStays
  <1>3. ASSUME NEW o \in Objects, Make(o) \/ Announce(o) \/ Rename(o) \/ \E w \in Weights : ChangeWeight(o, w)
        PROVE  HeardInv'
    <2>1. /\ UNCHANGED <<up, hidden, missed, watched, linked, queue>> /\ job = Idle
          /\ job' = job \/ job' = [kind |-> "announce", list |-> <<o>>, of |-> None]
      BY <1>3 DEF Make, Announce, Rename, ChangeWeight, StartAnnounce
    <2>2. job'.kind # "reveal"
      BY <2>1 DEF Idle
    <2> QED BY <1>2, <2>1, <2>2
  <1>4. CASE StartFlush
    <2>1. TypeOK /\ kids[NoAdd] \in Seq(Objects)
      BY NodeFacts DEF IInv, ShapeInv, TypeOK
    <2>2. job'.kind = "flush"
      BY <1>4, <2>1 DEF StartFlush, TypeOK
    <2>3. UNCHANGED <<up, hidden, missed, watched, linked, queue>>
      BY <1>4 DEF StartFlush
    <2> QED BY <1>2, <2>2, <2>3
  <1>5. CASE EndFlush \/ EndDestroy
    <2>1. UNCHANGED <<up, hidden, missed, watched, linked, queue>> /\ job' = Idle
      BY <1>5 DEF EndFlush, EndDestroy
    <2>2. job'.kind # "reveal"
      BY <2>1 DEF Idle
    <2> QED BY <1>2, <2>1, <2>2
  <1>6. CASE HideObject
    <2>1. PICK o : o = Head(queue).obj
      OBVIOUS
    <2>2. /\ queue # <<>> /\ queue' = Tail(queue) /\ UNCHANGED <<hidden, missed>> /\ job' = Idle
      BY <1>6 DEF HideObject, Delivers
    <2>3. /\ o \in Objects /\ Departs(o, {})
          /\ \A x \in Objects : up'[x] = IF x = o THEN Hide ELSE up[x]
      BY <1>6, <2>1, HideObjectMoves
    <2>4. watched' = watched /\ linked' \subseteq linked
      <3>1. watched' = watched \cup {}
        BY <2>3 DEF Departs
      <3>2. linked' \subseteq linked
        BY <2>3 DEF Departs
      <3> QED BY <3>1, <3>2
    <2>5. \A e : Occurs(queue, e) <=> e = Head(queue) \/ Occurs(queue', e)
      BY <2>2, DeliveredPosts
    <2>6. \A x : x # o /\ Quiet(queue', x) => Quiet(queue, x)
      <3>1. \A x : Showing(x).obj = x /\ Hiding(x).obj = x
        BY DEF Showing, Hiding
      <3> QED BY <2>1, <2>5, <3>1 DEF Quiet
    <2>7. \A x \in watched : Quiet(queue', x) => Quiet(queue, x) \/ up'[x] \in {Hide, None}
      BY <1>1, <2>3, <2>6
    <2>8. job'.kind # "reveal" /\ \A x \in Objects : up'[x] = up[x] \/ up'[x] \in {Hide, None}
      BY <2>2, <2>3 DEF Idle
    <2> QED BY <1>1, <2>2, <2>4, <2>7, <2>8, HeardStays
  <1>7. CASE StartDestroy
    <2>1. /\ queue # <<>> /\ Head(queue).call = "delete" /\ queue' = Tail(queue)
          /\ UNCHANGED <<up, hidden, missed, watched, linked>> /\ job'.kind # "reveal"
      BY <1>7 DEF StartDestroy, Delivers
    <2>2. \A e : Occurs(queue, e) <=> e = Head(queue) \/ Occurs(queue', e)
      BY <2>1, DeliveredPosts
    <2>3. \A x : Quiet(queue', x) => Quiet(queue, x)
      <3>1. \A x : Showing(x).call # "delete" /\ Hiding(x).call # "delete"
        BY DEF Showing, Hiding
      <3> QED BY <2>1, <2>2, <3>1 DEF Quiet
    <2> QED BY <1>1, <2>1, <2>3, HeardStays
  <1>8. CASE DestroyStep
    <2>1. PICK o : o = Head(job.list)
      OBVIOUS
    <2>2. /\ \A e : Occurs(queue', e) <=> Occurs(queue, e) /\ e.obj # o
          /\ job'.kind # "reveal" /\ UNCHANGED <<hidden, missed>>
      BY <1>8, <2>1, DestroyLists
    <2>3. /\ o \in Objects /\ Departs(o, {})
          /\ \A x \in Objects : up'[x] = IF x = o \/ up[x] = o THEN None ELSE up[x]
      BY <1>8, <2>1, DestroyMoves
    <2>4. watched' = watched /\ linked' \subseteq linked
      <3>1. watched' = watched \cup {}
        BY <2>3 DEF Departs
      <3>2. linked' \subseteq linked
        BY <2>3 DEF Departs
      <3> QED BY <3>1, <3>2
    <2>5. \A x : x # o /\ Quiet(queue', x) => Quiet(queue, x)
      <3>1. \A x : Showing(x).obj = x /\ Hiding(x).obj = x
        BY DEF Showing, Hiding
      <3> QED BY <2>2, <3>1 DEF Quiet
    <2>6. \A x \in watched : Quiet(queue', x) => Quiet(queue, x) \/ up'[x] \in {Hide, None}
      BY <1>1, <2>3, <2>5
    <2>7. \A x \in Objects : up'[x] = up[x] \/ up'[x] \in {Hide, None}
      BY <2>3
    <2> QED BY <1>1, <2>2, <2>4, <2>6, <2>7, HeardStays
  <1>9. ASSUME NEW o \in Objects, Withdraw(o) PROVE HeardInv'
    <2>1. /\ job' = Idle /\ UNCHANGED <<hidden, missed>>
          /\ queue' = Append(queue, [call |-> "delete", obj |-> o])
      BY <1>9 DEF Withdraw
    <2>2. Departs(o, {}) /\ \A x \in Objects : up'[x] = up[x] \/ (x = o /\ up'[x] = None)
      BY <1>9, WithdrawMoves
    <2>3. watched' = watched /\ linked' \subseteq linked
      <3>1. watched' = watched \cup {}
        BY <2>2 DEF Departs
      <3>2. linked' \subseteq linked
        BY <2>2 DEF Departs
      <3> QED BY <3>1, <3>2
    <2>4. \A e : Occurs(queue, e) => Occurs(queue', e)
      <3>1. queue \in Seq(Posts) /\ [call |-> "delete", obj |-> o] \in Posts
        BY QueueType DEF IInv, ShapeInv, Posts
      <3> QED BY <2>1, <3>1, AppendMembers
    <2>5. \A x : Quiet(queue', x) => Quiet(queue, x)
      BY <2>4 DEF Quiet
    <2>6. job'.kind # "reveal"
      BY <2>1 DEF Idle
    <2> QED BY <1>1, <2>1, <2>2, <2>3, <2>5, <2>6, HeardStays
  <1>10. CASE UNCHANGED vars
    <2>1. HeardInv' <=> HeardInv
      BY <1>10 DEF vars, HeardInv, Waits, Looks, Deaf
    <2> QED BY <2>1
  <1>11. ASSUME NEW o \in Objects, ChangeVisible(o) PROVE HeardInv'
    BY <1>11, ChangeVisibleHeard
  <1>12. CASE AnnounceStep \/ FlushStep \/ StartReveal \/ RevealStep \/ EndReveal
    BY <1>12, AnnounceStepHeard, FlushHeard, StartRevealHeard, RevealStepHeard, EndRevealHeard
  <1>13. Deliver => HideObject \/ StartReveal \/ StartDestroy
    BY DEF Deliver
  <1>14. JobStep => AnnounceStep \/ StartFlush \/ FlushStep \/ EndFlush
                   \/ RevealStep \/ EndReveal \/ DestroyStep \/ EndDestroy
    BY DEF JobStep
  <1>15. CASE Next
    BY ONLY <1>3, <1>4, <1>5, <1>6, <1>7, <1>8, <1>9, <1>11, <1>12, <1>13, <1>14, <1>15 DEF Next
  <1> QED BY <1>10, <1>15

\* Nothing is watched and nothing waits at the start.
LEMMA HeardStarts == ASSUME Init PROVE HeardInv
  <1>1. /\ linked = {Root} /\ watched = {} /\ job.kind = "idle" /\ \A x \in Objects : up[x] = None
    BY DEF Init, Idle
  <1>2. Waits({})
    BY <1>1, NodeFacts DEF Waits
  <1> QED BY <1>1, <1>2, NodeFacts DEF HeardInv

\* Who hears of what holds of every state.
LEMMA HeardHold == Spec => [](IInv /\ ComeInv /\ HeardInv)
  <1>1. IInv /\ ComeInv /\ HeardInv /\ [Next]_vars => IInv' /\ ComeInv' /\ HeardInv'
    BY NextKeeps, ComeKeeps, HeardKeeps
  <1> QED BY InitInv, ComeStarts, HeardStarts, <1>1, PTL DEF Spec

\* When everything posted is handled, no hidden object is in the tree below the root but one
\* that was hidden while it, or what it is below, waited for a parent: what comes into the
\* tree is watched with all below it, and onVisible(true) looks below what comes back.
THEOREM HiddenAlwaysLeaves == Spec => []HiddenLeaves
  <1>1. ASSUME IInv, HeardInv PROVE HiddenLeaves
    <2> SUFFICES ASSUME queue = <<>>, NEW o \in hidden \cap linked, o \notin missed PROVE FALSE
      BY DEF HiddenLeaves
    <2>1. o \in Objects /\ o \in watched
      BY <1>1 DEF HeardInv, IInv, ShapeInv, TypeOK
    <2>2. Quiet(queue, o)
      BY DEF Quiet, Occurs
    <2>3. up[o] \in {Hide, None}
      BY <1>1, <2>1, <2>2 DEF HeardInv
    <2>4. up[o] \in Objects \cup {Root}
      BY <1>1, <2>1 DEF IInv, LinkInv
    <2> QED BY <2>3, <2>4, NodeFacts
  <1> QED BY <1>1, HeardHold, PTL

-----------------------------------------------------------------------------
(* Whether the loops of the handlers end.                                   *)

\* The names form no circle: every object is deeper than the objects it may be put into.
NamesDescend ==
  \E d \in [Objects -> Nat] : \A o \in Objects : \A p \in Named(o) \cap Objects : d[p] < d[o]

\* Where names form no circle an object is less deep than what is below it.
LEMMA Deeper ==
  ASSUME NEW t \in Trees, Agree(t), NEW d \in [Objects -> Nat],
         \A x \in Objects : t.up[x] \in Objects => d[t.up[x]] < d[x], NEW o \in Objects
  PROVE  \A x \in Below(t, o) : x = o \/ d[o] < d[x]
  <1> DEFINE W == {x \in Objects : x = o \/ d[o] < d[x]}
  <1>1. o \in W /\ W \in SUBSET Objects
    OBVIOUS
  <1>2. ASSUME NEW x \in Objects, t.up[x] \in W PROVE x \in W
    <2>1. d[t.up[x]] < d[x] /\ t.up[x] \in Objects
      BY <1>2
    <2>2. d[o] \in Nat /\ d[x] \in Nat /\ d[t.up[x]] \in Nat
      BY <2>1
    <2> QED BY <1>2, <2>1, <2>2
  <1> HIDE DEF W
  <1>3. Below(t, o) \subseteq W
    BY <1>1, <1>2, BelowLeast
  <1> QED BY <1>3 DEF W

\* The subtrees of the children of an object are parts of its subtree, without it, and have
\* nothing in common.
LEMMA ChildrenApart ==
  ASSUME NEW t \in Trees, Agree(t), NEW d \in [Objects -> Nat],
         \A x \in Objects : t.up[x] \in Objects => d[t.up[x]] < d[x],
         NEW o \in Objects, NEW k \in Objects, t.up[k] = o
  PROVE  /\ Below(t, k) \subseteq Below(t, o) \ {o}
         /\ \A l \in Objects : t.up[l] = o /\ l # k => Below(t, k) \cap Below(t, l) = {}
  <1>1. d[o] < d[k] /\ d[o] \in Nat /\ d[k] \in Nat
    OBVIOUS
  <1>2. Below(t, k) \subseteq Below(t, o)
    <2> DEFINE B == Below(t, o)
    <2>1. /\ o \in B /\ B \in SUBSET Objects /\ \A x \in Objects : t.up[x] \in B => x \in B
      BY BelowUp
    <2>2. k \in B
      BY <2>1
    <2> HIDE DEF B
    <2>3. Below(t, k) \subseteq B
      BY <2>1, <2>2, BelowLeast
    <2> QED BY <2>3 DEF B
  <1>3. o \notin Below(t, k)
    <2>1. \A x \in Below(t, k) : x = k \/ d[k] < d[x]
      BY Deeper
    <2> QED BY <1>1, <2>1
  <1>4. ASSUME NEW l \in Objects, t.up[l] = o, l # k
        PROVE  Below(t, k) \cap Below(t, l) = {}
    <2> DEFINE B == Below(t, k)
               W == {x \in Objects : x \notin B /\ d[o] < d[x]}
    <2>1. /\ k \in B /\ B \subseteq Objects /\ \A x \in Objects : t.up[x] \in B => x \in B
          /\ \A x \in B : x # k => t.up[x] \in B
      BY BelowUp
    <2> HIDE DEF B
    <2>2. l \in W /\ W \in SUBSET Objects
      <3>1. d[o] < d[l]
        BY <1>4
      <3>2. l \notin B
        BY <1>3, <1>4, <2>1 DEF B
      <3> QED BY <3>1, <3>2
    <2>3. ASSUME NEW x \in Objects, t.up[x] \in W PROVE x \in W
      <3>1. d[t.up[x]] < d[x] /\ t.up[x] \in Objects /\ d[o] < d[t.up[x]] /\ t.up[x] \notin B
        BY <2>3
      <3>2. d[o] \in Nat /\ d[x] \in Nat /\ d[t.up[x]] \in Nat
        BY <3>1
      <3>3. d[o] < d[x] /\ t.up[x] # o
        BY <3>1, <3>2
      <3>4. x \notin B
        BY <2>1, <3>1, <3>3
      <3> QED BY <3>3, <3>4
    <2> HIDE DEF W
    <2>4. Below(t, l) \subseteq W
      BY <1>4, <2>2, <2>3, BelowLeast
    <2> QED BY <2>4 DEF B, W
  <1> QED BY <1>2, <1>3, <1>4

-----------------------------------------------------------------------------
\* What onVisible(true) has before it, as the rank counts it.
Seen(t, s) == {p \in (DOMAIN s) \X Objects : p[2] \in ToSet(Subtree(t, s[p[1]]))}

\* These are the subtrees of the objects in its list.
LEMMA SeenPlaces ==
  ASSUME NEW t \in Trees, NEW s \in Seq(Objects)
  PROVE  Seen(t, s) = Places(Objects, s, [x \in Objects |-> Below(t, x)])
  <1>1. DOMAIN s = 1..Len(s) /\ \A i \in 1..Len(s) : s[i] \in Objects
    OBVIOUS
  <1>2. \A x \in Objects : ToSet(Subtree(t, x)) = Below(t, x)
    BY BelowSet
  <1> DEFINE B == [x \in Objects |-> Below(t, x)]
  <1>3. \A p \in (1..Len(s)) \X Objects : p[1] \in 1..Len(s) /\ B[s[p[1]]] = ToSet(Subtree(t, s[p[1]]))
    BY <1>1, <1>2
  <1> HIDE DEF B
  <1> QED BY <1>1, <1>3 DEF Seen, Places, B

\* Going on to the children of the first object of the list, or taking it and all below it out
\* of the tree, leaves less to look at.
LEMMA FewerSeen ==
  ASSUME NEW t \in Trees, Agree(t), NEW d \in [Objects -> Nat],
         \A x \in Objects : t.up[x] \in Objects => d[t.up[x]] < d[x],
         NEW u \in Trees, Agree(u), \A x \in Objects : u.up[x] \in Objects => u.up[x] = t.up[x],
         NEW s \in Seq(Objects), s # <<>>, NEW c \in Seq(Objects), Distinct(c),
         \A x \in Objects : Occurs(c, x) => u.up[x] = Head(s)
  PROVE  LET new == Cardinality(Seen(u, Tail(s) \o c))
             old == Cardinality(Seen(t, s))
         IN new < old /\ new \in Nat /\ old \in Nat
  <1>1. PICK o \in Objects : o = Head(s)
    OBVIOUS
  <1>2. Tail(s) \in Seq(Objects) /\ Tail(s) \o c \in Seq(Objects)
    BY HeadTailProperties, ConcatProperties
  <1>3. ASSUME NEW x \in Objects PROVE Below(u, x) \subseteq Below(t, x)
    <2> DEFINE W == Below(t, x)
    <2>1. x \in W /\ W \in SUBSET Objects /\ \A y \in Objects : t.up[y] \in W => y \in W
      BY BelowUp
    <2> HIDE DEF W
    <2>2. \A y \in Objects : u.up[y] \in W => y \in W
      BY <2>1
    <2>3. Below(u, x) \subseteq W
      BY <2>1, <2>2, BelowLeast
    <2> QED BY <2>3 DEF W
  <1>4. ASSUME NEW k \in Objects, Occurs(c, k)
        PROVE  /\ Below(u, k) \subseteq Below(t, o) \ {o}
               /\ \A l \in Objects : Occurs(c, l) /\ l # k => Below(u, k) \cap Below(u, l) = {}
    <2>1. \A l \in Objects : Occurs(c, l) => t.up[l] = o
      BY <1>1
    <2>2. /\ Below(t, k) \subseteq Below(t, o) \ {o}
          /\ \A l \in Objects : t.up[l] = o /\ l # k => Below(t, k) \cap Below(t, l) = {}
      BY <1>4, <2>1, ChildrenApart
    <2>3. /\ Below(u, k) \subseteq Below(t, k) /\ \A l \in Objects : Below(u, l) \subseteq Below(t, l)
      BY <1>3
    <2> QED BY <2>1, <2>2, <2>3
  <1>5. PICK A \in [Objects -> SUBSET Objects] : A = [x \in Objects |-> Below(t, x)]
    BY BelowUp
  <1>6. PICK B \in [Objects -> SUBSET Objects] : B = [x \in Objects |-> Below(u, x)]
    BY BelowUp
  <1>7. (\A x \in Objects : A[x] = Below(t, x) /\ x \in A[x]) /\ \A x \in Objects : B[x] = Below(u, x)
    BY <1>5, <1>6, BelowUp
  <1>8. /\ \A k \in Objects : B[k] \subseteq A[k]
        /\ Head(s) \in A[Head(s)]
        /\ \A k \in Objects : Occurs(c, k) => B[k] \subseteq A[Head(s)] \ {Head(s)}
        /\ \A k, l \in Objects : Occurs(c, k) /\ Occurs(c, l) /\ k # l => B[k] \cap B[l] = {}
    BY <1>1, <1>3, <1>4, <1>7
  <1>9. Seen(u, Tail(s) \o c) = Places(Objects, Tail(s) \o c, B) /\ Seen(t, s) = Places(Objects, s, A)
    BY <1>2, <1>5, <1>6, SeenPlaces
  <1>10. LET new == Cardinality(Places(Objects, Tail(s) \o c, B))
             old == Cardinality(Places(Objects, s, A))
         IN new < old /\ new \in Nat /\ old \in Nat
    <2>1. /\ Distinct(c) /\ s # <<>> /\ A \in [Objects -> SUBSET Objects]
          /\ B \in [Objects -> SUBSET Objects] /\ s \in Seq(Objects) /\ c \in Seq(Objects)
      OBVIOUS
    <2> QED BY ONLY <1>8, <2>1, FinitelyMany, FewerPlaces, ZenonT(60)
  <1> QED BY <1>9, <1>10

-----------------------------------------------------------------------------
(* What a destruction has before it.                                        *)

\* The posted deletion of an object.
Deleting(o) == [call |-> "delete", obj |-> o]

\* What is posted for deletion is on its way out; what a destruction has in its list lives, and
\* is there once: it was let go, or its owner has been destroyed.
DoomedInv ==
  /\ \A o \in Objects : Occurs(queue, Deleting(o)) => status[o] = "leaving"
  /\ job.kind = "destroy" =>
       /\ Distinct(job.list)
       /\ \A o \in Objects : Occurs(job.list, o) =>
            o \in Alive /\ (status[o] = "leaving" \/ (Owner[o] \in Objects /\ status[Owner[o]] = "dead"))

\* A step that posts no deletion and destroys nothing.
LEMMA DoomedStays ==
  ASSUME DoomedInv, job'.kind # "destroy", \A x \in Objects : status[x] = "leaving" => status'[x] = "leaving",
         \A x \in Objects : Occurs(queue', Deleting(x)) => Occurs(queue, Deleting(x))
  PROVE  DoomedInv'
  BY DEF DoomedInv

\* An object destroyed leaves the list; what it owned and nobody let go comes in.
LEMMA DestroyDoomed ==
  ASSUME IInv, DoomedInv, DestroyStep
  PROVE  /\ DoomedInv'
         /\ \E o \in Alive : Alive' = Alive \ {o}
  <1>1. PICK o : o = Head(job.list)
    OBVIOUS
  <1>2. /\ \A e : Occurs(queue', e) <=> Occurs(queue, e) /\ e.obj # o
        /\ \A x \in Objects : status'[x] = IF x = o THEN "dead" ELSE status[x]
        /\ job.kind = "destroy" /\ job'.kind = "destroy"
    BY <1>1, DestroyLists
  <1>3. o \in Objects /\ Occurs(job.list, o)
    BY <1>1, DestroyMoves
  <1> DEFINE C == {c \in Objects : Owner[c] = o /\ status[c] \in {"made", "known"}}
  <1>4. job.list # <<>> /\ job'.list = Tail(job.list) \o Listed(C)
    <2>1. \A l : [job EXCEPT !.list = l].list = l
      BY DEF IInv, ShapeInv, TypeOK
    <2> QED BY <1>1, <2>1 DEF DestroyStep
  <1>5. /\ o \in Alive /\ Distinct(job.list)
        /\ \A x \in Objects : Occurs(job.list, x) =>
             x \in Alive /\ (status[x] = "leaving" \/ (Owner[x] \in Objects /\ status[Owner[x]] = "dead"))
    BY <1>2, <1>3 DEF DoomedInv
  <1>6. \A x \in Objects : x \in Alive' <=> x \in Alive /\ x # o
    BY <1>2 DEF Alive
  <1>7. /\ Listed(C) \in Seq(Objects) /\ Distinct(Listed(C)) /\ \A x : Occurs(Listed(C), x) <=> x \in C
    <2>1. C \subseteq Objects
      OBVIOUS
    <2> HIDE DEF C
    <2>2. Listed(C) \in Seq(C) /\ Distinct(Listed(C)) /\ \A x : Occurs(Listed(C), x) <=> x \in C
      BY <2>1, ListedFacts
    <2> QED BY <2>1, <2>2
  <1>8. /\ Tail(job.list) \in Seq(Objects) /\ Distinct(Tail(job.list)) /\ ~Occurs(Tail(job.list), o)
        /\ \A x : Occurs(Tail(job.list), x) => Occurs(job.list, x)
    <2>1. job.list \in Seq(Objects)
      BY DEF IInv, ShapeInv, TypeOK
    <2> QED BY <1>1, <1>4, <1>5, <2>1, TailFacts
  <1>9. \A x : ~(Occurs(Tail(job.list), x) /\ Occurs(Listed(C), x))
    <2> SUFFICES ASSUME NEW x \in C, Occurs(Tail(job.list), x) PROVE FALSE
      BY <1>7
    <2>1. x \in Objects /\ Owner[x] = o /\ status[x] \in {"made", "known"} /\ Occurs(job.list, x)
      BY <1>8
    <2>2. status[o] = "dead"
      BY <1>5, <2>1
    <2> QED BY <1>5, <2>2 DEF Alive
  <1>10. \A x \in C : x \in Alive /\ x # o /\ Owner[x] = o
    <2> SUFFICES ASSUME NEW x \in C PROVE x \in Alive /\ x # o /\ Owner[x] = o
      OBVIOUS
    <2>1. x \in Objects /\ Owner[x] = o /\ status[x] \in {"made", "known"}
      OBVIOUS
    <2>2. ASSUME x = o PROVE FALSE
      <3>1. status[Owner[o]] = "dead" /\ Owner[o] = o
        BY <1>3, <1>5, <2>1, <2>2
      <3> QED BY <2>1, <2>2, <3>1
    <2> QED BY <2>1, <2>2 DEF Alive
  <1> HIDE DEF C
  <1>11. Distinct(job'.list) /\ \A x : Occurs(job'.list, x) <=> Occurs(Tail(job.list), x) \/ x \in C
    <2>1. PICK r \in Seq(Objects) : r = Tail(job.list)
      BY <1>8
    <2>2. PICK l \in Seq(Objects) : l = Listed(C)
      BY <1>7
    <2>3. Distinct(r) /\ Distinct(l) /\ \A x : ~(Occurs(r, x) /\ Occurs(l, x))
      BY <1>7, <1>8, <1>9, <2>1, <2>2
    <2>4. Distinct(r \o l) /\ \A x : Occurs(r \o l, x) <=> Occurs(r, x) \/ Occurs(l, x)
      BY <2>3, ConcatDistinct, OccursInConcat
    <2> QED BY <1>4, <1>7, <2>1, <2>2, <2>4
  <1>12. ASSUME NEW x \in Objects, Occurs(job'.list, x)
         PROVE  x \in Alive' /\ (status'[x] = "leaving" \/ (Owner[x] \in Objects /\ status'[Owner[x]] = "dead"))
    <2>1. CASE x \in C
      BY <1>2, <1>3, <1>6, <1>10, <2>1
    <2>2. CASE Occurs(Tail(job.list), x)
      <3>1. x # o /\ x \in Alive /\ (status[x] = "leaving" \/ (Owner[x] \in Objects /\ status[Owner[x]] = "dead"))
        BY <1>5, <1>8, <2>2
      <3> QED BY <1>2, <1>6, <3>1
    <2> QED BY <1>11, <1>12, <2>1, <2>2
  <1>13. \A x \in Objects : Occurs(queue', Deleting(x)) => status'[x] = "leaving"
    <2>1. \A x : Deleting(x).obj = x
      BY DEF Deleting
    <2> QED BY <1>2, <2>1 DEF DoomedInv
  <1>14. Alive' = Alive \ {o}
    BY <1>6 DEF Alive
  <1> QED BY <1>5, <1>11, <1>12, <1>13, <1>14 DEF DoomedInv

\* Every step keeps this.
LEMMA DoomedKeeps ==
  ASSUME IInv, IInv', DoomedInv, [Next]_vars
  PROVE  DoomedInv'
  <1>2. /\ status \in [Objects -> {"unborn", "made", "known", "leaving", "dead"}] /\ queue \in Seq(Posts)
        /\ \A l : [job EXCEPT !.list = l].kind = job.kind
    BY QueueType DEF IInv, ShapeInv, TypeOK
  <1>3. ASSUME UNCHANGED <<status, queue>>, job'.kind # "destroy" PROVE DoomedInv'
    BY <1>3, DoomedStays
  <1>4. ASSUME NEW o \in Objects, Announce(o) \/ Rename(o) \/ \E w \in Weights : ChangeWeight(o, w)
        PROVE  DoomedInv'
    BY <1>3, <1>4 DEF Announce, Rename, ChangeWeight, StartAnnounce, Idle
  <1>5. ASSUME NEW o \in Objects, Make(o) PROVE DoomedInv'
    <2>1. /\ status[o] = "unborn" /\ status' = [status EXCEPT ![o] = "made"] /\ queue' = queue
          /\ job'.kind # "destroy"
      BY <1>5 DEF Make, StartAnnounce, Idle
    <2> QED BY <1>2, <2>1, DoomedStays
  <1>6. ASSUME NEW o \in Objects, ChangeVisible(o) PROVE DoomedInv'
    <2> DEFINE e == [call |-> IF o \in hidden THEN "show" ELSE "hide", obj |-> o]
    <2>1. job'.kind # "destroy" /\ status' = status /\ (queue' = queue \/ queue' = Append(queue, e))
      BY <1>6 DEF ChangeVisible, Idle
    <2>2. e \in Posts /\ \A x : Deleting(x) # e
      <3>1. e.call # "delete" /\ \A x : Deleting(x).call = "delete"
        BY DEF Deleting
      <3> QED BY <3>1 DEF Posts
    <2> HIDE DEF e
    <2>3. \A x : Occurs(Append(queue, e), x) <=> Occurs(queue, x) \/ x = e
      BY <1>2, <2>2, AppendMembers
    <2>4. \A x \in Objects : Occurs(queue', Deleting(x)) => Occurs(queue, Deleting(x))
      BY <2>1, <2>2, <2>3
    <2> QED BY <2>1, <2>4, DoomedStays
  <1>7. ASSUME NEW o \in Objects, Withdraw(o) PROVE DoomedInv'
    <2>1. /\ job' = job /\ job = Idle /\ status' = [status EXCEPT ![o] = "leaving"]
          /\ queue' = Append(queue, Deleting(o))
      BY <1>7 DEF Withdraw, Deleting
    <2>2. Deleting(o) \in Posts /\ \A x : Deleting(x) = Deleting(o) => x = o
      <3>1. \A x : Deleting(x).obj = x
        BY DEF Deleting
      <3> QED BY <3>1 DEF Deleting, Posts
    <2>3. \A x : Occurs(queue', x) <=> Occurs(queue, x) \/ x = Deleting(o)
      BY <1>2, <2>1, <2>2, AppendMembers
    <2>4. \A x \in Objects : Occurs(queue', Deleting(x)) => status'[x] = "leaving"
      BY <1>2, <2>1, <2>2, <2>3 DEF DoomedInv
    <2>5. job'.kind # "destroy"
      BY <2>1 DEF Idle
    <2> QED BY <2>4, <2>5 DEF DoomedInv
  <1>8. CASE HideObject \/ StartReveal
    <2>1. queue # <<>> /\ queue' = Tail(queue) /\ status' = status /\ job'.kind # "destroy"
      <3>1. CASE HideObject
        <4>1. job' = job /\ job = Idle
          BY <3>1 DEF HideObject, Delivers
        <4>2. queue # <<>> /\ queue' = Tail(queue) /\ status' = status
          BY <3>1 DEF HideObject, Delivers
        <4> QED BY <4>1, <4>2 DEF Idle
      <3>2. CASE StartReveal
        BY <3>2 DEF StartReveal, Delivers, Idle
      <3> QED BY <1>8, <3>1, <3>2
    <2>2. \A e : Occurs(queue', e) => Occurs(queue, e)
      BY <2>1, DeliveredPosts
    <2> QED BY <2>1, <2>2, DoomedStays
  <1>9. CASE StartDestroy
    <2>1. PICK o : o = Head(queue).obj
      OBVIOUS
    <2>2. /\ queue # <<>> /\ queue' = Tail(queue) /\ status' = status /\ Head(queue).call = "delete"
          /\ job'.kind = "destroy" /\ job'.list = <<o>>
      BY <1>9, <2>1 DEF StartDestroy, Delivers
    <2>3. Head(queue) \in Posts /\ \A e : Occurs(queue, e) <=> e = Head(queue) \/ Occurs(queue', e)
      BY <2>2, DeliveredPosts
    <2>4. o \in Objects /\ Head(queue) = Deleting(o)
      BY <2>1, <2>2, <2>3 DEF Posts, Deleting
    <2>5. status[o] = "leaving"
      BY <2>3, <2>4 DEF DoomedInv
    <2>6. Distinct(job'.list) /\ \A x : Occurs(job'.list, x) <=> x = o
      BY <2>2, <2>4, Single
    <2> QED BY <2>2, <2>3, <2>4, <2>5, <2>6 DEF DoomedInv, Alive
  <1>10. CASE AnnounceStep
    <2>1. PICK o : o = Head(job.list)
      OBVIOUS
    <2>2. o \in Objects /\ status[o] = "made"
      BY <1>10, <2>1, AnnounceMoves
    <2>3. status' = [status EXCEPT ![o] = "known"] /\ queue' = queue /\ job'.kind = "announce"
      BY <1>2, <1>10, <2>1 DEF AnnounceStep
    <2> QED BY <1>2, <2>2, <2>3, DoomedStays
  <1>11. CASE StartFlush \/ FlushStep \/ EndFlush \/ RevealStep \/ EndReveal \/ EndDestroy
    <2>1. CASE StartFlush
      <3>1. \A l : [job EXCEPT !.kind = "flush", !.list = l].kind = "flush"
        BY DEF IInv, ShapeInv, TypeOK
      <3> QED BY <1>3, <2>1, <3>1 DEF StartFlush
    <2>2. CASE FlushStep \/ RevealStep
      <3>1. job.kind # "destroy" /\ UNCHANGED <<status, queue>> /\ \E l : job' = [job EXCEPT !.list = l]
        BY <2>2 DEF FlushStep, RevealStep
      <3> QED BY <1>2, <1>3, <3>1
    <2>3. CASE EndFlush \/ EndReveal \/ EndDestroy
      BY <1>3, <2>3 DEF EndFlush, EndReveal, EndDestroy, Idle
    <2> QED BY <1>11, <2>1, <2>2, <2>3
  <1>12. CASE DestroyStep
    BY <1>12, DestroyDoomed
  <1>13. CASE UNCHANGED vars
    BY <1>13 DEF vars, DoomedInv, Alive
  <1>14. Deliver => HideObject \/ StartReveal \/ StartDestroy
    BY DEF Deliver
  <1>15. JobStep => AnnounceStep \/ StartFlush \/ FlushStep \/ EndFlush
                   \/ RevealStep \/ EndReveal \/ DestroyStep \/ EndDestroy
    BY DEF JobStep
  <1>16. CASE Next
    BY ONLY <1>4, <1>5, <1>6, <1>7, <1>8, <1>9, <1>10, <1>11, <1>12, <1>14, <1>15, <1>16 DEF Next
  <1> QED BY <1>13, <1>16

\* Nothing is posted at the start.
LEMMA DoomedStarts == ASSUME Init PROVE DoomedInv
  BY DEF Init, DoomedInv, Idle, Occurs

LEMMA DoomedHold == Spec => [](IInv /\ DoomedInv)
  <1>1. IInv /\ DoomedInv /\ [Next]_vars => IInv' /\ DoomedInv'
    BY NextKeeps, DoomedKeeps
  <1> QED BY InitInv, DoomedStarts, <1>1, PTL DEF Spec
-----------------------------------------------------------------------------
(* Every round of a loop leaves less.                                       *)

\* What the handler that is going on has before it.
Ahead == Rank(tree, job, status)

\* What the rank counts is finite.
LEMMA LessToAnnounce ==
  ASSUME NEW o \in Objects, status[o] = "made", \A x \in Objects : status'[x] = IF x = o THEN "known" ELSE status[x]
  PROVE  Cardinality({x \in Objects : status'[x] = "made"}) < Cardinality({x \in Objects : status[x] = "made"})
  <1>1. PICK M : M = {x \in Objects : status[x] = "made"}
    OBVIOUS
  <1>2. IsFiniteSet(M) /\ o \in M
    BY <1>1, FinitelyMany, FS_Subset
  <1>3. {x \in Objects : status'[x] = "made"} = M \ {o}
    BY <1>1
  <1> QED BY <1>1, <1>2, <1>3, OneLess

\* addObject announces one object after the other.
LEMMA AnnounceRound ==
  ASSUME IInv, IInv', AnnounceStep
  PROVE  Ahead' < Ahead
  <1>1. PICK o : o = Head(job.list)
    OBVIOUS
  <1>2. o \in Objects /\ status[o] = "made"
    BY <1>1, AnnounceMoves
  <1>3. /\ status \in [Objects -> {"unborn", "made", "known", "leaving", "dead"}]
        /\ \A l : [job EXCEPT !.list = l].kind = job.kind
    BY DEF IInv, ShapeInv, TypeOK
  <1>4. status' = [status EXCEPT ![o] = "known"] /\ job.kind = "announce" /\ job'.kind = "announce"
    BY <1>1, <1>3 DEF AnnounceStep
  <1>5. \A x \in Objects : status'[x] = IF x = o THEN "known" ELSE status[x]
    BY <1>2, <1>3, <1>4
  <1>6. Cardinality({x \in Objects : status'[x] = "made"}) < Cardinality({x \in Objects : status[x] = "made"})
    BY <1>2, <1>5, LessToAnnounce
  <1> QED BY <1>4, <1>6 DEF Ahead, Rank

\* The flush: an object that goes to its parent waits no more, which outweighs that the loop
\* starts again with all that wait.
LEMMA FlushRound ==
  ASSUME IInv, IInv', FlushStep
  PROVE  Ahead' < Ahead
  <1>1. PICK o : o = Head(job.list)
    OBVIOUS
  <1>2. job.kind = "flush" /\ job.list # <<>>
    BY DEF FlushStep
  <1>3. /\ job.list \in Seq(Objects) /\ kids[NoAdd] \in Seq(Objects) /\ kids'[NoAdd] \in Seq(Objects)
        /\ \A l : [job EXCEPT !.list = l].kind = job.kind /\ [job EXCEPT !.list = l].list = l
    BY NodeFacts DEF IInv, ShapeInv, TypeOK
  <1>4. PICK n : n = Cardinality(Objects)
    OBVIOUS
  <1>5. /\ n \in Nat /\ Len(job.list) \in Nat /\ Len(job.list) > 0
        /\ Len(kids[NoAdd]) \in Nat /\ Len(kids'[NoAdd]) \in Nat
    BY <1>2, <1>3, <1>4, FinitelyMany, FS_CardinalityType
  <1>6. CASE UNCHANGED kids /\ job' = [job EXCEPT !.list = Tail(job.list)]
    <2>1. Len(job'.list) = Len(job.list) - 1 /\ job'.kind = "flush"
      BY <1>2, <1>3, <1>6, HeadTailProperties
    <2>2. PICK k \in Nat, l \in Nat : k = Len(kids[NoAdd]) /\ l = Len(job.list)
      BY <1>5
    <2>3. PICK m \in Nat : m = k * (n + 1)
      <3>1. \A a, b \in Nat : a * (b + 1) \in Nat
        OBVIOUS
      <3> QED BY <1>5, <3>1
    <2>4. Ahead = m + l /\ Ahead' = m + (l - 1)
      BY <1>2, <1>4, <1>6, <2>1, <2>2, <2>3 DEF Ahead, Rank, tree
    <2>5. m + (l - 1) < m + l
      OBVIOUS
    <2> QED BY <2>4, <2>5
  <1>7. CASE /\ up'[o] \in Objects \cup {Root} /\ \A x \in Objects \ {o} : up'[x] = up[x]
             /\ job' = [job EXCEPT !.list = kids'[NoAdd]]
    <2>1. job'.list = kids'[NoAdd] /\ job'.kind = "flush"
      BY <1>2, <1>3, <1>7
    <2>2. o \in Objects /\ up[o] = NoAdd
      BY <1>1, FlushMoves
    <2>3. /\ Distinct(kids'[NoAdd])
          /\ \A x \in Objects : /\ Occurs(kids[NoAdd], x) <=> up[x] = NoAdd
                                /\ Occurs(kids'[NoAdd], x) <=> up'[x] = NoAdd
      <3>1. Agree(tree) /\ Agree(tree)' /\ tree.kids = kids /\ tree.up = up
        BY TreeType DEF IInv, ShapeInv, TreeInv
      <3>2. tree'.kids = kids' /\ tree'.up = up'
        BY DEF tree
      <3> QED BY <3>1, <3>2, NodeFacts DEF Agree
    <2>4. Len(kids'[NoAdd]) < Len(kids[NoAdd])
      <3>1. Occurs(kids[NoAdd], o) /\ up'[o] # NoAdd
        BY <1>7, <2>2, <2>3, NodeFacts
      <3>2. \A x \in Objects : Occurs(kids'[NoAdd], x) => Occurs(kids[NoAdd], x) /\ x # o
        BY <1>7, <2>3, <3>1
      <3> QED BY <1>3, <2>3, <3>1, <3>2, ShorterList
    <2>5. Len(kids'[NoAdd]) <= n
      BY <1>3, <1>4, <2>3, FinitelyMany, DistinctShort
    <2>6. PICK k \in Nat, j \in Nat : k = Len(kids'[NoAdd]) /\ Len(kids[NoAdd]) = k + 1 + j
      <3>1. \A a, b \in Nat : a < b => \E j \in Nat : b = a + 1 + j
        <4> SUFFICES ASSUME NEW a \in Nat, NEW b \in Nat, a < b PROVE \E j \in Nat : b = a + 1 + j
          OBVIOUS
        <4>1. b - a - 1 \in Nat /\ b = a + 1 + (b - a - 1)
          OBVIOUS
        <4> QED BY <4>1
      <3> QED BY <1>5, <2>4, <3>1
    <2>7. (k + 1 + j) * (n + 1) = k * (n + 1) + (n + 1) + j * (n + 1)
      BY <1>5
    <2>8. PICK a \in Nat, b \in Nat : a = k * (n + 1) /\ b = j * (n + 1)
      BY <1>5
    <2>9. PICK l \in Nat : l = Len(job.list)
      BY <1>5
    <2>10. Ahead = a + (n + 1) + b + l /\ Ahead' = a + k
      BY <1>2, <1>4, <2>1, <2>6, <2>7, <2>8, <2>9 DEF Ahead, Rank, tree
    <2>11. a + k < a + (n + 1) + b + l
      BY <1>5, <2>5, <2>6
    <2> QED BY <2>10, <2>11
  <1> QED BY <1>1, <1>6, <1>7, FlushMoves

\* onVisible(true): what it looks at is looked at once, and what it hides is out of its way.
LEMMA RevealRound ==
  ASSUME NamesDescend, IInv, IInv', RevealStep
  PROVE  Ahead' < Ahead
  <1>1. PICK o : o = Head(job.list)
    OBVIOUS
  <1>2. job.kind = "reveal" /\ job.list # <<>>
    BY DEF RevealStep
  <1>3. /\ job.list \in Seq(Objects) /\ kids \in [Nodes -> Seq(Objects)]
        /\ \A l : [job EXCEPT !.list = l].kind = job.kind /\ [job EXCEPT !.list = l].list = l
    BY DEF IInv, ShapeInv, TypeOK
  <1>4. /\ tree \in Trees /\ Agree(tree) /\ tree.kids = kids /\ tree.up = up
    BY TreeType DEF IInv, ShapeInv, TreeInv
  <1>5. /\ tree' \in Trees /\ Agree(tree') /\ tree'.up = up'
    <2>1. TypeOK' => tree' \in Trees
      BY DEF TypeOK, tree, Trees
    <2>2. tree'.up = up' /\ TypeOK' /\ Agree(tree')
      BY DEF tree, IInv, ShapeInv, TreeInv
    <2> QED BY <2>1, <2>2
  <1>6. PICK d \in [Objects -> Nat] : \A x \in Objects : \A p \in Named(x) \cap Objects : d[p] < d[x]
    BY DEF NamesDescend
  <1>7. \A x \in Objects : tree.up[x] \in Objects => d[tree.up[x]] < d[x]
    BY <1>4, <1>6 DEF IInv, PlaceInv
  <1>8. ASSUME job'.kind = "reveal"
        PROVE  Ahead = Cardinality(Seen(tree, job.list)) /\ Ahead' = Cardinality(Seen(tree', job'.list))
    BY <1>2, <1>8 DEF Ahead, Rank, Seen
  <1>9. CASE UNCHANGED <<kids, up, rec>> /\ job' = [job EXCEPT !.list = Tail(job.list) \o kids[o]]
    <2>1. job'.list = Tail(job.list) \o kids[o] /\ job'.kind = "reveal" /\ tree' = tree
      BY <1>2, <1>3, <1>9 DEF tree
    <2>2. o \in Objects /\ o \in Nodes
      BY <1>1, RevealStepMoves, NodeFacts
    <2>3. /\ kids[o] \in Seq(Objects) /\ Distinct(kids[o])
          /\ \A x \in Objects : Occurs(kids[o], x) => tree.up[x] = Head(job.list)
      BY <1>1, <1>3, <1>4, <2>2 DEF Agree
    <2>4. LET new == Cardinality(Seen(tree, Tail(job.list) \o kids[o]))
              old == Cardinality(Seen(tree, job.list))
          IN new < old /\ new \in Nat /\ old \in Nat
      BY ONLY <1>2, <1>3, <1>4, <1>6, <1>7, <2>3, FewerSeen
    <2> QED BY <1>8, <2>1, <2>4
  <1>10. CASE /\ \A x \in Objects : up'[x] = IF x = o THEN Hide ELSE up[x]
              /\ job' = [job EXCEPT !.list = Tail(job.list)]
    <2>1. job'.list = Tail(job.list) /\ job'.kind = "reveal"
      BY <1>2, <1>3, <1>10
    <2>2. \A x \in Objects : tree'.up[x] \in Objects => tree'.up[x] = tree.up[x]
      BY <1>4, <1>5, <1>10, NodeFacts
    <2>3. PICK c \in Seq(Objects) : c = <<>>
      BY EmptySeq
    <2>4. Distinct(c) /\ \A x \in Objects : Occurs(c, x) => tree'.up[x] = Head(job.list)
      BY <2>3 DEF Distinct, Occurs
    <2>5. Tail(job.list) \o c = Tail(job.list)
      BY <1>2, <1>3, <2>3, HeadTailProperties, ConcatEmptySeq
    <2>6. LET new == Cardinality(Seen(tree', Tail(job.list) \o c))
              old == Cardinality(Seen(tree, job.list))
          IN new < old /\ new \in Nat /\ old \in Nat
      BY ONLY <1>2, <1>3, <1>4, <1>5, <1>6, <1>7, <2>2, <2>4, FewerSeen
    <2> QED BY <1>8, <2>1, <2>5, <2>6
  <1> QED BY <1>1, <1>9, <1>10, RevealStepMoves

\* A destruction: what has been destroyed is not destroyed again.
LEMMA DestroyRound ==
  ASSUME IInv, DoomedInv, DestroyStep
  PROVE  Ahead' < Ahead
  <1>1. PICK o \in Alive : Alive' = Alive \ {o}
    BY DestroyDoomed
  <1>2. IsFiniteSet(Alive)
    BY FinitelyMany, FS_Subset DEF Alive
  <1>3. job.kind = "destroy" /\ job'.kind = "destroy"
    <2>1. \A l : [job EXCEPT !.list = l].kind = job.kind
      BY DEF IInv, ShapeInv, TypeOK
    <2> QED BY <2>1 DEF DestroyStep
  <1>4. Ahead = Cardinality(Alive) /\ Ahead' = Cardinality(Alive')
    BY <1>3 DEF Ahead, Rank, Alive
  <1> QED BY <1>1, <1>2, <1>4, OneLess

\* While no names form a circle every loop of the handlers ends: addObject with what it brings,
\* the flush that starts again after each object that found its parent, onVisible(true) with what
\* it takes in while it goes on, and the destruction of what is owned.
THEOREM LoopsAlwaysEnd == NamesDescend => (Spec => LoopsEnd)
  <1> SUFFICES ASSUME NamesDescend PROVE Spec => LoopsEnd
    OBVIOUS
  <1>1. ASSUME IInv, IInv', DoomedInv, [Next]_vars
        PROVE  [job # Idle /\ job'.kind = job.kind
                => Rank(tree', job', status') < Rank(tree, job, status)]_vars
    <2> SUFFICES ASSUME Next, job # Idle, job'.kind = job.kind PROVE Ahead' < Ahead
      BY <1>1 DEF Ahead, Rank
    <2>1. JobStep
      BY DEF Next, Make, Announce, Withdraw, ChangeVisible, Rename, ChangeWeight, Deliver, HideObject,
             StartReveal, StartDestroy, Delivers
    <2>2. CASE StartFlush
      <3>1. \A l : [job EXCEPT !.kind = "flush", !.list = l].kind = "flush"
        BY <1>1 DEF IInv, ShapeInv, TypeOK
      <3> QED BY <2>2, <3>1 DEF StartFlush
    <2>3. CASE EndFlush \/ EndReveal \/ EndDestroy
      BY <2>3 DEF EndFlush, EndReveal, EndDestroy, Idle
    <2> QED BY <1>1, <2>1, <2>2, <2>3, AnnounceRound, FlushRound, RevealRound, DestroyRound DEF JobStep
  <1> QED BY <1>1, DoomedHold, PTL DEF LoopsEnd, Spec
=============================================================================
