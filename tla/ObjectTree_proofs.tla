-------------------------- MODULE ObjectTree_proofs --------------------------
(***************************************************************************)
(* What holds of the object tree for any objects, names, owners, weights   *)
(* and number of changes.                                                  *)
(***************************************************************************)
EXTENDS ObjectTree, ObjectTreeFacts
LOCAL INSTANCE SequencesExt

-----------------------------------------------------------------------------
(* The inductive invariant.                                                 *)

\* A batch of the search is open exactly while addObject runs.
ShapeInv ==
  /\ TypeOK
  /\ IsModel(search)
  /\ search.depth = IF job.kind \in {"announce", "flush"} THEN 1 ELSE 0

\* m_parent and m_children agree, and the children are in the order of their weights.
TreeInv == Agree(tree) /\ InWeight(tree, weight)

\* What is in a list has been announced and lives; the parent of what is in the tree is
\* the one that is recommended, by the name wanted.
PlaceInv ==
  \A o \in Objects :
    /\ status[o] \in {"unborn", "made", "dead"} => up[o] = None
    /\ up[o] \in Objects \cup {Root} => rec[o] = up[o] /\ up[o] \in Named(o)
    /\ up[o] = NoParent => ParentName[o] = None

\* The linked nodes are what is below the root.
LinkInv ==
  /\ Root \in linked /\ linked \subseteq Objects \cup {Root}
  /\ \A o \in Objects : o \in linked <=> up[o] \in linked

\* The objects to announce are in no list yet, each once, and none brings another of them;
\* the objects the flush looks at wait; those onVisible(true) looks at live and name a parent.
JobInv ==
  /\ job.kind = "announce" =>
       /\ Distinct(job.list)
       /\ \A o \in Objects : Occurs(job.list, o) =>
            status[o] = "made" /\ (Owner[o] = None \/ status[Owner[o]] # "made")
  /\ job.kind = "flush" => \A o \in Objects : Occurs(job.list, o) => up[o] = NoAdd
  /\ job.kind = "reveal" => \A o \in Objects : Occurs(job.list, o) =>
       status[o] \notin {"unborn", "made", "dead"} /\ ParentName[o] # None

\* The other change of visibility.
Opposite(e) == [call |-> IF e.call = "show" THEN "hide" ELSE "show", obj |-> e.obj]

\* The changes posted for an object take turns, and the last one is what the object is now.
Alternates(q, h) ==
  \A i \in 1..Len(q) : q[i].call # "delete" =>
    /\ \A j \in 1..Len(q) : i < j /\ q[j] = q[i] =>
         \E k \in 1..Len(q) : i < k /\ k < j /\ q[k] = Opposite(q[i])
    /\ (q[i].call = "show" <=> q[i].obj \in h) => \E k \in 1..Len(q) : i < k /\ q[k] = Opposite(q[i])

\* The manager takes an object for hidden: the next it hears is that it was shown, or it
\* hears nothing and the object is hidden.
SeenHidden(q, h, o) ==
  LET show == [call |-> "show", obj |-> o]
      hide == [call |-> "hide", obj |-> o]
  IN \/ \E i \in 1..Len(q) : q[i] = show /\ \A j \in 1..Len(q) : j < i => q[j] # hide
     \/ o \in h /\ \A i \in 1..Len(q) : q[i] # show /\ q[i] # hide

QueueInv ==
  /\ Alternates(queue, hidden)
  /\ \A i \in 1..Len(queue) :
       /\ queue[i].call # "delete" => queue[i].obj \in watched
       /\ status[queue[i].obj] \notin {"unborn", "dead"}

\* What the manager takes for hidden does not wait for a parent: it would be put there a
\* second time when it is shown.
SeenInv ==
  /\ \A o \in watched : /\ ParentName[o] # None /\ status[o] \notin {"unborn", "made"}
                        /\ SeenHidden(queue, hidden, o) => up[o] # NoAdd
  /\ job.kind = "reveal" =>
       /\ job.of \in watched /\ status[job.of] # "dead"
       /\ up[job.of] # NoAdd /\ ~SeenHidden(queue, hidden, job.of)

\* The parents, the recommended parents, what has arrived and the owners of living objects
\* live; an owner that does not is being destroyed with what it owns.
LivingInv ==
  /\ \A o \in Objects : up[o] \in Objects => up[o] \in Alive
  /\ \A o \in Objects : rec[o] \in Objects => rec[o] \in Alive
  /\ \A i \in 1..Len(objMap) : objMap[i] \in Alive
  /\ \A o \in Objects : status[o] \in {"made", "known"} =>
       \/ Owner[o] = None \/ Owner[o] \in Alive
       \/ job.kind = "destroy" /\ Occurs(job.list, o)

IInv ==
  /\ ShapeInv /\ TreeInv /\ PlaceInv /\ LinkInv /\ JobInv /\ QueueInv /\ SeenInv /\ LivingInv

-----------------------------------------------------------------------------
(* What the parts say of the tree.                                          *)

\* The tree is one.
LEMMA TreeType ==
  ASSUME TypeOK
  PROVE  tree \in Trees /\ tree.kids = kids /\ tree.up = up /\ tree.rec = rec
  BY DEF TypeOK, tree, Trees

\* A tree the variables become.
LEMMA TreeBecomes ==
  ASSUME NEW t \in Trees, kids' = t.kids, up' = t.up, rec' = t.rec
  PROVE  tree' = t
  BY DEF tree, Trees

\* The invariant at the start.
LEMMA InitInv == ASSUME Init PROVE IInv
  <1> USE DEF Init, Idle
  <1>1. /\ kids \in [Nodes -> Seq(Objects)] /\ up \in [Objects -> Nodes \cup {None}]
        /\ rec \in [Objects -> Nodes \cup {None}] /\ \A n \in Nodes : kids[n] = <<>>
        /\ \A o \in Objects : up[o] = None /\ rec[o] = None /\ status[o] = "unborn"
    OBVIOUS
  <1>2. Len(<<>>) = 0 /\ Distinct(<<>>) /\ (\A w : InOrder(<<>>, w)) /\ \A x : ~Occurs(<<>>, x)
    BY DEF Distinct, InOrder, Occurs
  <1>3. IsModel(search) /\ search.depth = 0
    <2>1. search \in Models({}) /\ search.depth = 0
      BY DEF EmptyModel, Models
    <2> QED BY <2>1 DEF IsModel
  <1>4. TypeOK
    BY <1>1, <1>3, WeightAssumption, NodeFacts DEF TypeOK
  <1>5. ShapeInv
    BY <1>3, <1>4 DEF ShapeInv
  <1>6. TreeInv
    BY <1>1, <1>2, NodeFacts DEF TreeInv, tree, Agree, InWeight
  <1>7. PlaceInv
    BY <1>1, NodeFacts DEF PlaceInv, Nodes, Own
  <1>8. LinkInv
    BY <1>1, NodeFacts DEF LinkInv
  <1>9. JobInv /\ QueueInv /\ SeenInv
    BY <1>2 DEF JobInv, QueueInv, SeenInv, Alternates
  <1>10. LivingInv
    BY <1>1, <1>2, NodeFacts DEF LivingInv, Nodes
  <1> QED BY <1>5, <1>6, <1>7, <1>8, <1>9, <1>10 DEF IInv

\* The actions that leave the variables alone.
LEMMA StutterKeeps ==
  ASSUME IInv, UNCHANGED vars
  PROVE  IInv'
  <1> USE DEF vars
  <1>1. ShapeInv' BY DEF IInv, ShapeInv, TypeOK
  <1>2. TreeInv' BY DEF IInv, TreeInv, tree, Agree, InWeight
  <1>3. PlaceInv' BY DEF IInv, PlaceInv
  <1>4. LinkInv' BY DEF IInv, LinkInv
  <1>5. JobInv' BY DEF IInv, JobInv
  <1>6. QueueInv' BY DEF IInv, QueueInv
  <1>7. SeenInv' BY DEF IInv, SeenInv
  <1>8. LivingInv' BY DEF IInv, LivingInv, Alive
  <1> QED BY <1>1, <1>2, <1>3, <1>4, <1>5, <1>6, <1>7, <1>8 DEF IInv
-----------------------------------------------------------------------------
(* Objects that come to a node and leave one.                               *)

\* The list of what is below an object, as a set.
LEMMA BelowSet ==
  ASSUME NEW t \in Trees, NEW o \in Objects
  PROVE  ToSet(Subtree(t, o)) = Below(t, o)
  <1>1. Subtree(t, o) \in Seq(Objects)
    BY SubtreeFacts
  <1> DEFINE s == Subtree(t, o)
  <1>2. DOMAIN s = 1..Len(s) /\ \A k \in 1..Len(s) : s[k] \in Objects
    BY <1>1
  <1>3. ToSet(s) = {s[i] : i \in DOMAIN s}
    BY DEF ToSet
  <1>4. Below(t, o) = {x \in Objects : \E k \in 1..Len(s) : s[k] = x}
    BY DEF Below, Occurs
  <1> HIDE DEF s
  <1>5. ToSet(s) = {x \in Objects : \E k \in 1..Len(s) : s[k] = x}
    BY <1>2, <1>3
  <1> QED BY <1>4, <1>5 DEF s

\* What is below an object and not the object has its parent there; the children are there.
LEMMA BelowUp ==
  ASSUME NEW t \in Trees, NEW o \in Objects, Agree(t)
  PROVE  /\ o \in Below(t, o) /\ Below(t, o) \subseteq Objects
         /\ \A x \in Objects : t.up[x] \in Below(t, o) => x \in Below(t, o)
         /\ \A x \in Below(t, o) : x # o => t.up[x] \in Below(t, o)
  <1>1. /\ o \in Below(t, o) /\ Below(t, o) \subseteq Objects /\ KidsIn(t, Below(t, o))
        /\ \A x \in Below(t, o) : x = o \/ \E y \in Below(t, o) : Occurs(t.kids[y], x)
    BY SubtreeFacts DEF Below
  <1>2. \A x, y \in Objects : Occurs(t.kids[y], x) <=> t.up[x] = y
    BY NodeFacts DEF Agree
  <1> QED BY <1>1, <1>2 DEF KidsIn

\* The tree, what is linked and the search when an object has come to a node.
LEMMA ComesFacts ==
  ASSUME NEW t \in Trees, NEW o \in Objects, NEW extra \in SUBSET Objects, Agree(t),
         TypeOK, IsModel(search), LinkInv, Comes(t, o, extra),
         \A x \in Objects \ {o} : t.up[x] = up[x],
         t.up[o] = up[o] \/ up[o] \notin Objects \cup {Root}
  PROVE  /\ tree' = t /\ kids' = t.kids /\ up' = t.up /\ rec' = t.rec
         /\ IsModel(search') /\ search'.depth = search.depth
         /\ watched \cup extra \subseteq watched' /\ watched' \subseteq Objects
         /\ \A x \in watched' : x \in watched \/ x \in extra \/ t.up[x] \in Objects \cup {Root}
         /\ LinkInv'
  <1> DEFINE new == t.up[o] # up[o] /\ t.up[o] \in linked
             B == Below(t, o)
             s == Subtree(t, o)
  <1>1. /\ kids' = t.kids /\ up' = t.up /\ rec' = t.rec
        /\ linked' = IF new THEN linked \cup B ELSE linked
        /\ watched' = watched \cup extra \cup (IF new THEN B ELSE {})
        /\ IF new THEN SearchAdds(t, s) ELSE SearchStays
    BY BelowSet DEF Comes
  <1>2. tree' = t
    BY <1>1, TreeBecomes
  <1>3. IsModel(search') /\ search'.depth = search.depth
    <2>1. CASE new
      <3>1. s \in Seq(Objects)
        BY SubtreeFacts
      <3>2. IsList(Entries(t, s)) /\ search' = AddSearchData(search, Entries(t, s))
        BY <1>1, <2>1, <3>1, EntriesFacts DEF SearchAdds
      <3> QED BY <3>2, ModelFacts
    <2>2. CASE ~new
      BY <1>1, <2>2 DEF SearchStays
    <2> QED BY <2>1, <2>2
  <1>4. /\ o \in B /\ B \subseteq Objects
        /\ \A x \in Objects : t.up[x] \in B => x \in B
        /\ \A x \in B : x # o => t.up[x] \in B
    BY BelowUp
  <1>5. Root \in linked /\ linked \subseteq Objects \cup {Root} /\ \A x \in Objects : x \in linked <=> up[x] \in linked
    BY DEF LinkInv
  <1> HIDE DEF B, s
  <1>6. watched \cup extra \subseteq watched' /\ watched' \subseteq Objects
    BY <1>1, <1>4 DEF TypeOK
  <1>7. ASSUME NEW x \in watched', x \notin watched, x \notin extra
        PROVE  t.up[x] \in Objects \cup {Root}
    BY <1>1, <1>4, <1>5, <1>7
  <1>8. LinkInv'
    <2>1. Root \in linked' /\ linked' \subseteq Objects \cup {Root}
      BY <1>1, <1>4, <1>5
    <2>2. ASSUME NEW x \in Objects
          PROVE  x \in linked' <=> t.up[x] \in linked'
      <3>1. CASE ~new
        BY <1>1, <1>5, <3>1
      <3>2. CASE new
        BY <1>1, <1>4, <1>5, <3>2
      <3> QED BY <3>1, <3>2
    <2> QED BY <1>1, <2>1, <2>2 DEF LinkInv
  <1> QED BY <1>1, <1>2, <1>3, <1>6, <1>7, <1>8

\* The same when an object has left a node: it has gone to Hide, or nowhere, with or without
\* its children being let go.
LEMMA LeavesFacts ==
  ASSUME NEW t \in Trees, NEW o \in Objects, NEW extra \in SUBSET Objects, Agree(tree),
         TypeOK, IsModel(search), LinkInv, Leaves(t, o, extra),
         t.up = up \/ t.up[o] \in {None, Hide},
         \A x \in Objects \ {o} : t.up[x] = up[x] \/ (up[x] = o /\ t.up[x] = None)
  PROVE  /\ tree' = t /\ kids' = t.kids /\ up' = t.up /\ rec' = t.rec
         /\ IsModel(search') /\ search'.depth = search.depth
         /\ watched' = watched \cup extra
         /\ LinkInv'
  <1> DEFINE gone == up[o] # t.up[o] /\ up[o] \in linked
             B == Below(tree, o)
  <1>1. /\ kids' = t.kids /\ up' = t.up /\ rec' = t.rec
        /\ linked' = IF gone THEN linked \ B ELSE linked
        /\ watched' = watched \cup extra
        /\ IF gone THEN SearchDrops(B) ELSE SearchStays
    BY BelowSet, TreeType DEF Leaves
  <1>2. tree' = t
    BY <1>1, TreeBecomes
  <1>3. IsModel(search') /\ search'.depth = search.depth
    <2>1. CASE gone
      <3>1. search' = RemoveSearchData(search, B)
        BY <1>1, <2>1 DEF SearchDrops
      <3>2. \A objs : IsModel(RemoveSearchData(search, objs)) /\ RemoveSearchData(search, objs).depth = search.depth
        BY ModelFacts
      <3> HIDE DEF B
      <3> QED BY <3>1, <3>2
    <2>2. CASE ~gone
      BY <1>1, <2>2 DEF SearchStays
    <2> QED BY <2>1, <2>2
  <1>4. /\ o \in B /\ B \subseteq Objects
        /\ \A x \in Objects : up[x] \in B => x \in B
        /\ \A x \in B : x # o => up[x] \in B
    BY BelowUp, TreeType
  <1>5. Root \in linked /\ linked \subseteq Objects \cup {Root} /\ \A x \in Objects : x \in linked <=> up[x] \in linked
    BY DEF LinkInv
  <1>6. None \notin linked /\ Hide \notin linked /\ Root \notin Objects
    BY <1>5, NodeFacts
  <1> HIDE DEF B
  <1>8. LinkInv'
    <2>1. Root \in linked' /\ linked' \subseteq Objects \cup {Root}
      BY <1>1, <1>4, <1>5, <1>6
    <2>2. ASSUME NEW x \in Objects
          PROVE  x \in linked' <=> t.up[x] \in linked'
      <3>1. CASE ~gone
        BY <1>1, <1>5, <1>6, <3>1
      <3>2. CASE gone
        <4>1. t.up[o] \notin linked
          BY <1>6, <3>2
        <4>2. t.up[x] \in linked => t.up[x] = up[x]
          BY <1>6, <4>1
        <4>3. t.up[x] # up[x] => x \in B
          BY <1>4
        <4> QED BY <1>1, <1>4, <1>5, <1>6, <3>2, <4>1, <4>2, <4>3
      <3> QED BY <3>1, <3>2
    <2> QED BY <1>1, <2>1, <2>2 DEF LinkInv
  <1> QED BY <1>1, <1>2, <1>3, <1>8

-----------------------------------------------------------------------------
(* The actions that leave the tree alone.                                   *)

\* What is posted.
Posts == [call : {"show", "hide", "delete"}, obj : Objects]

\* The types of what is posted.
LEMMA QueueType ==
  ASSUME TypeOK
  PROVE  /\ queue \in Seq(Posts) /\ Len(queue) \in Nat
         /\ \A i \in 1..Len(queue) :
              /\ queue[i] \in Posts /\ queue[i].obj \in Objects
              /\ queue[i].call \in {"show", "hide", "delete"}
              /\ queue[i] = [call |-> queue[i].call, obj |-> queue[i].obj]
  <1>1. queue \in Seq(Posts) /\ Len(queue) \in Nat
    BY DEF TypeOK, Posts
  <1>2. \A i \in 1..Len(queue) : queue[i] \in Posts
    BY <1>1
  <1>3. \A e \in Posts : e.obj \in Objects /\ e.call \in {"show", "hide", "delete"} /\ e = [call |-> e.call, obj |-> e.obj]
    BY DEF Posts
  <1> QED BY <1>1, <1>2, <1>3

\* The engine makes an object.
LEMMA MakeKeeps ==
  ASSUME IInv, NEW o \in Objects, Make(o)
  PROVE  IInv'
  <1>1. /\ job = Idle /\ status[o] = "unborn"
        /\ Owner[o] # None => status[Owner[o]] \in {"made", "known"}
        /\ status' = [status EXCEPT ![o] = "made"]
        /\ rec' = [rec EXCEPT ![o] = Owner[o]]
        /\ UNCHANGED <<objMap, kids, up, hidden, weight, watched, linked, queue, changes, missed, orphans,
                       renamed>>
    BY DEF Make
  <1>2. IF Owner[o] \in Known
        THEN job' = [kind |-> "announce", list |-> <<o>>, of |-> None] /\ search' = BeginBatch(search)
        ELSE job' = job /\ search' = search
    BY DEF Make, StartAnnounce
  <1>3. TypeOK /\ job.kind = "idle"
    BY <1>1 DEF IInv, ShapeInv, Idle
  <1>4. Owner[o] \in Objects \cup {None} /\ Objects \subseteq Nodes /\ None \notin Objects
    BY ObjectAssumption, NodeFacts
  <1>5. \A x \in Objects : status'[x] = IF x = o THEN "made" ELSE status[x]
    BY <1>1, <1>3 DEF TypeOK
  <1>6. \A x \in Objects : rec'[x] = IF x = o THEN Owner[o] ELSE rec[x]
    BY <1>1, <1>3 DEF TypeOK
  <1>7. ShapeInv'
    <2>1. IsModel(search') /\ search'.depth = IF Owner[o] \in Known THEN 1 ELSE 0
      BY <1>2, <1>3, ModelFacts DEF IInv, ShapeInv
    <2>2. job' \in [kind : {"idle", "announce", "flush", "reveal", "destroy"}, list : Seq(Objects),
                    of : Objects \cup {None}]
      <3>1. CASE Owner[o] \in Known
        <4>1. <<o>> \in Seq(Objects) /\ job' = [kind |-> "announce", list |-> <<o>>, of |-> None]
          BY <1>2, <3>1, Single
        <4> QED BY ONLY <4>1
      <3>2. CASE Owner[o] \notin Known
        BY <1>2, <1>3, <3>2 DEF TypeOK
      <3> QED BY <3>1, <3>2
    <2>3. TypeOK'
      BY <1>1, <1>3, <1>4, <2>1, <2>2 DEF TypeOK
    <2> QED BY <1>2, <1>3, <2>1, <2>3 DEF ShapeInv
  <1>8. TreeInv'
    BY <1>1 DEF IInv, TreeInv, tree, Agree, InWeight
  <1>9. PlaceInv'
    BY <1>1, <1>5, <1>6, NodeFacts DEF IInv, PlaceInv
  <1>10. LinkInv'
    BY <1>1 DEF IInv, LinkInv
  <1>11. JobInv'
    <2>1. CASE Owner[o] \in Known
      <3>1. Owner[o] \in Objects /\ status[Owner[o]] # "unborn" /\ status[Owner[o]] # "made"
        BY <2>1 DEF Known
      <3>2. status'[o] = "made" /\ status'[Owner[o]] # "made"
        BY <1>1, <1>5, <3>1
      <3> QED BY <1>2, <2>1, <3>2, Single DEF JobInv
    <2>2. CASE Owner[o] \notin Known
      BY <1>2, <1>3, <2>2 DEF JobInv
    <2> QED BY <2>1, <2>2
  <1>12. QueueInv'
    BY <1>1, <1>3, <1>5, QueueType DEF IInv, QueueInv
  <1>13. SeenInv'
    <2>1. watched \subseteq Objects /\ job'.kind # "reveal"
      BY <1>2, <1>3 DEF TypeOK
    <2> QED BY <1>1, <1>5, <2>1 DEF IInv, SeenInv
  <1>14. LivingInv'
    <2>1. Alive \subseteq Alive'
      BY <1>1, <1>5 DEF Alive
    <2>2. \A x \in Objects : status'[x] \in {"made", "known"} => Owner[x] = None \/ Owner[x] \in Alive'
      <3>1. Owner[o] # None => Owner[o] \in Alive
        BY <1>1, <1>4 DEF Alive
      <3> QED BY <1>3, <1>5, <2>1, <3>1 DEF IInv, LivingInv
    <2>3. \A x \in Objects : rec'[x] \in Objects => rec'[x] \in Alive'
      <3>1. Owner[o] \in Objects => Owner[o] \in Alive
        BY <1>1, <1>4 DEF Alive
      <3> QED BY <1>6, <2>1, <3>1 DEF IInv, LivingInv
    <2> QED BY <1>1, <2>1, <2>2, <2>3 DEF IInv, LivingInv
  <1> QED BY <1>7, <1>8, <1>9, <1>10, <1>11, <1>12, <1>13, <1>14 DEF IInv

\* The plugin manager announces an object.
LEMMA AnnounceKeeps ==
  ASSUME IInv, NEW o \in Objects, Announce(o)
  PROVE  IInv'
  <1>1. /\ job = Idle /\ status[o] = "made" /\ Owner[o] = None
        /\ job' = [kind |-> "announce", list |-> <<o>>, of |-> None] /\ search' = BeginBatch(search)
        /\ UNCHANGED <<status, objMap, kids, up, rec, hidden, weight, watched, linked, queue, changes,
                       missed, orphans, renamed>>
    BY DEF Announce, StartAnnounce
  <1>2. TypeOK /\ job.kind = "idle" /\ job'.kind = "announce" /\ job'.list = <<o>>
    BY <1>1 DEF IInv, ShapeInv, Idle
  <1>3. ShapeInv'
    <2>1. IsModel(search') /\ search'.depth = 1
      BY <1>1, <1>2, ModelFacts DEF IInv, ShapeInv
    <2>2. TypeOK'
      BY <1>1, <1>2, <2>1, Single DEF TypeOK
    <2> QED BY <1>2, <2>1, <2>2 DEF ShapeInv
  <1>4. TreeInv' /\ PlaceInv' /\ LinkInv' /\ QueueInv'
    BY <1>1 DEF IInv, TreeInv, tree, Agree, InWeight, PlaceInv, LinkInv, QueueInv
  <1>5. JobInv'
    BY <1>1, <1>2, Single DEF JobInv
  <1>6. SeenInv'
    BY <1>1, <1>2 DEF IInv, SeenInv
  <1>7. LivingInv'
    BY <1>1, <1>2 DEF IInv, LivingInv, Alive
  <1> QED BY <1>3, <1>4, <1>5, <1>6, <1>7 DEF IInv

\* addObject turns to what waits.
LEMMA StartFlushKeeps ==
  ASSUME IInv, StartFlush
  PROVE  IInv'
  <1>1. /\ job.kind = "announce" /\ job' = [job EXCEPT !.kind = "flush", !.list = kids[NoAdd]]
        /\ UNCHANGED <<status, objMap, kids, up, rec, hidden, weight, watched, linked, search, queue,
                       changes, missed, orphans, renamed>>
    BY DEF StartFlush
  <1>2. TypeOK
    BY DEF IInv, ShapeInv
  <1>3. /\ job'.kind = "flush" /\ job'.list = kids[NoAdd] /\ kids[NoAdd] \in Seq(Objects)
        /\ job' \in [kind : {"idle", "announce", "flush", "reveal", "destroy"}, list : Seq(Objects),
                     of : Objects \cup {None}]
    BY <1>1, <1>2, NodeFacts DEF TypeOK
  <1>4. ShapeInv'
    <2>1. TypeOK'
      BY <1>1, <1>2, <1>3 DEF TypeOK
    <2> QED BY <1>1, <1>3, <2>1 DEF IInv, ShapeInv
  <1>5. TreeInv' /\ PlaceInv' /\ LinkInv' /\ QueueInv'
    BY <1>1 DEF IInv, TreeInv, tree, Agree, InWeight, PlaceInv, LinkInv, QueueInv
  <1>6. JobInv'
    <2>1. \A o \in Objects : Occurs(kids[NoAdd], o) => up[o] = NoAdd
      BY NodeFacts DEF IInv, TreeInv, tree, Agree
    <2> QED BY <1>1, <1>3, <2>1 DEF JobInv
  <1>7. SeenInv'
    BY <1>1, <1>3 DEF IInv, SeenInv
  <1>8. LivingInv'
    BY <1>1, <1>3 DEF IInv, LivingInv, Alive
  <1> QED BY <1>4, <1>5, <1>6, <1>7, <1>8 DEF IInv

\* addObject ends.
LEMMA EndFlushKeeps ==
  ASSUME IInv, EndFlush
  PROVE  IInv'
  <1>1. /\ job.kind = "flush" /\ job' = Idle /\ search' = EndBatch(search)
        /\ UNCHANGED <<status, objMap, kids, up, rec, hidden, weight, watched, linked, queue, changes,
                       missed, orphans, renamed>>
    BY DEF EndFlush
  <1>2. TypeOK /\ job'.kind = "idle" /\ job'.list = <<>> /\ job'.of = None
    BY <1>1 DEF IInv, ShapeInv, Idle
  <1>3. ShapeInv'
    <2>1. IsModel(search') /\ search'.depth = 0
      BY <1>1, ModelFacts DEF IInv, ShapeInv
    <2>2. TypeOK'
      BY <1>1, <1>2, <2>1 DEF TypeOK, Idle
    <2> QED BY <1>2, <2>1, <2>2 DEF ShapeInv
  <1>5. TreeInv' /\ PlaceInv' /\ LinkInv' /\ QueueInv'
    BY <1>1 DEF IInv, TreeInv, tree, Agree, InWeight, PlaceInv, LinkInv, QueueInv
  <1>6. JobInv' /\ SeenInv'
    BY <1>1, <1>2 DEF JobInv, IInv, SeenInv
  <1>7. LivingInv'
    BY <1>1, <1>2 DEF IInv, LivingInv, Alive
  <1> QED BY <1>3, <1>5, <1>6, <1>7 DEF IInv

\* A destruction ends.
LEMMA EndDestroyKeeps ==
  ASSUME IInv, EndDestroy
  PROVE  IInv'
  <1>1. /\ job.kind = "destroy" /\ job.list = <<>> /\ job' = Idle
        /\ UNCHANGED <<status, objMap, kids, up, rec, hidden, weight, watched, linked, search, queue,
                       changes, missed, orphans, renamed>>
    BY DEF EndDestroy
  <1>2. TypeOK /\ job'.kind = "idle" /\ job'.list = <<>> /\ job'.of = None
    BY <1>1 DEF IInv, ShapeInv, Idle
  <1>3. ShapeInv'
    <2>2. TypeOK'
      BY <1>1, <1>2 DEF TypeOK, Idle
    <2> QED BY <1>1, <1>2, <2>2 DEF IInv, ShapeInv
  <1>5. TreeInv' /\ PlaceInv' /\ LinkInv' /\ QueueInv'
    BY <1>1 DEF IInv, TreeInv, tree, Agree, InWeight, PlaceInv, LinkInv, QueueInv
  <1>6. JobInv' /\ SeenInv'
    BY <1>1, <1>2 DEF JobInv, IInv, SeenInv
  <1>7. LivingInv'
    <2>1. \A x : ~Occurs(job.list, x)
      BY <1>1 DEF Occurs
    <2> QED BY <1>1, <2>1 DEF IInv, LivingInv, Alive
  <1> QED BY <1>3, <1>5, <1>6, <1>7 DEF IInv

-----------------------------------------------------------------------------
(* What is posted.                                                          *)

\* Another change of visibility is posted.
LEMMA AppendPost ==
  ASSUME NEW q \in Seq(Posts), NEW h, NEW g, NEW o \in Objects, Alternates(q, h),
         o \in g <=> o \notin h, \A x \in Objects : x # o => (x \in g <=> x \in h)
  PROVE  LET r == Append(q, [call |-> IF o \in h THEN "show" ELSE "hide", obj |-> o])
         IN Alternates(r, g) /\ \A x \in Objects : SeenHidden(r, g, x) <=> SeenHidden(q, h, x)
  <1> DEFINE e == [call |-> IF o \in h THEN "show" ELSE "hide", obj |-> o]
             r == Append(q, e)
             n == Len(q)
  <1>1. /\ n \in Nat /\ Len(r) = n + 1 /\ r[n + 1] = e /\ \A i \in 1..n : r[i] = q[i] /\ q[i] \in Posts
        /\ \A i \in 1..(n + 1) : i = n + 1 \/ i \in 1..n
        /\ \A i \in 1..n : i < n + 1 /\ i \in 1..(n + 1)
    <2>1. e \in Posts
      BY DEF Posts
    <2> HIDE DEF e
    <2> QED BY <2>1
  <1>2. e.obj = o /\ e.call = IF o \in h THEN "show" ELSE "hide"
    OBVIOUS
  <1>3. \A p \in Posts : /\ p.obj \in Objects /\ p.call \in {"show", "hide", "delete"}
                         /\ p.call # "delete" /\ p.obj = o /\ p.call # e.call => Opposite(p) = e
    BY <1>2 DEF Posts, Opposite
  <1>4. \A p \in Posts : p.call = e.call /\ p.obj = o => p = e
    BY <1>2 DEF Posts
  <1>5. Alternates(r, g)
    <2>1. ASSUME NEW i \in 1..n, q[i].call # "delete", NEW j \in 1..(n + 1), i < j, r[j] = r[i]
          PROVE  \E k \in 1..(n + 1) : i < k /\ k < j /\ r[k] = Opposite(r[i])
      <3>1. CASE j \in 1..n
        <4>1. PICK k \in 1..n : i < k /\ k < j /\ q[k] = Opposite(q[i])
          BY <1>1, <2>1, <3>1 DEF Alternates
        <4> QED BY <1>1, <4>1
      <3>2. CASE j = n + 1
        <4>1. q[i] = e
          BY <1>1, <2>1, <3>2
        <4>2. PICK k \in 1..n : i < k /\ q[k] = Opposite(q[i])
          BY <1>2, <2>1, <4>1, SMTT(30) DEF Alternates
        <4>3. k < n + 1
          BY <1>1
        <4> QED BY <1>1, <3>2, <4>2, <4>3
      <3> QED BY <1>1, <3>1, <3>2
    <2>2. ASSUME NEW i \in 1..n, q[i].call # "delete", q[i].call = "show" <=> q[i].obj \in g
          PROVE  \E k \in 1..(n + 1) : i < k /\ r[k] = Opposite(r[i])
      <3>1. CASE q[i].obj = o
        <4>1. Opposite(q[i]) = e
          BY <1>1, <1>2, <1>3, <2>2, <3>1
        <4> QED BY <1>1, <4>1
      <3>2. CASE q[i].obj # o
        <4>1. PICK k \in 1..n : i < k /\ q[k] = Opposite(q[i])
          BY <1>1, <1>3, <2>2, <3>2 DEF Alternates
        <4> QED BY <1>1, <4>1
      <3> QED BY <3>1, <3>2
    <2>3. \A j \in 1..(n + 1) : ~(n + 1 < j)
      BY <1>1
    <2>4. ~(e.call = "show" <=> e.obj \in g)
      BY <1>2
    <2> HIDE DEF e, r, n
    <2> QED BY <1>1, <2>1, <2>2, <2>3, <2>4 DEF Alternates
  <1>6. ASSUME NEW x \in Objects
        PROVE  SeenHidden(r, g, x) <=> SeenHidden(q, h, x)
    <2> DEFINE show == [call |-> "show", obj |-> x]
               hide == [call |-> "hide", obj |-> x]
    <2>1. e \in {show, hide} <=> x = o
      BY <1>2
    <2>2. (e = show /\ x = o => x \in h) /\ (e = hide /\ x = o => x \notin h)
      BY <1>2
    <2>3. show # hide
      OBVIOUS
    <2> HIDE DEF e, r, n, show, hide
    <2>4. ASSUME SeenHidden(q, h, x) PROVE SeenHidden(r, g, x)
      <3>1. CASE \E i \in 1..n : q[i] = show /\ \A j \in 1..n : j < i => q[j] # hide
        <4>1. PICK i \in 1..n : q[i] = show /\ \A j \in 1..n : j < i => q[j] # hide
          BY <3>1
        <4>2. r[i] = show /\ i \in 1..Len(r) /\ \A j \in 1..Len(r) : j < i => r[j] # hide
          BY <1>1, <4>1
        <4> QED BY <4>2 DEF SeenHidden, show, hide
      <3>2. CASE x \in h /\ \A i \in 1..n : q[i] # show /\ q[i] # hide
        <4>1. CASE x = o
          <5>1. r[n + 1] = show /\ n + 1 \in 1..Len(r) /\ \A j \in 1..Len(r) : j < n + 1 => r[j] # hide
            BY <1>1, <2>1, <2>2, <3>2, <4>1
          <5> QED BY <5>1 DEF SeenHidden, show, hide
        <4>2. CASE x # o
          <5>1. x \in g /\ \A i \in 1..Len(r) : r[i] # show /\ r[i] # hide
            BY <1>1, <2>1, <3>2, <4>2
          <5> QED BY <5>1 DEF SeenHidden, show, hide
        <4> QED BY <4>1, <4>2
      <3> QED BY <2>4, <3>1, <3>2 DEF SeenHidden, show, hide, n
    <2>5. ASSUME SeenHidden(r, g, x) PROVE SeenHidden(q, h, x)
      <3>1. CASE \E i \in 1..Len(r) : r[i] = show /\ \A j \in 1..Len(r) : j < i => r[j] # hide
        <4>1. PICK i \in 1..Len(r) : r[i] = show /\ \A j \in 1..Len(r) : j < i => r[j] # hide
          BY <3>1
        <4>2. CASE i \in 1..n
          <5>1. q[i] = show /\ \A j \in 1..n : j < i => q[j] # hide
            BY <1>1, <4>1, <4>2
          <5> QED BY <4>2, <5>1 DEF SeenHidden, show, hide, n
        <4>3. CASE i = n + 1
          <5>1. x = o /\ x \in h /\ \A j \in 1..n : q[j] # hide
            BY <1>1, <2>1, <2>2, <4>1, <4>3
          <5>2. CASE \E j \in 1..n : q[j] = show
            BY <5>1, <5>2 DEF SeenHidden, show, hide, n
          <5>3. CASE \A j \in 1..n : q[j] # show
            BY <5>1, <5>3 DEF SeenHidden, show, hide, n
          <5> QED BY <5>2, <5>3
        <4> QED BY <1>1, <4>1, <4>2, <4>3
      <3>2. CASE x \in g /\ \A i \in 1..Len(r) : r[i] # show /\ r[i] # hide
        <4>1. x # o
          BY <1>1, <2>1, <3>2
        <4>2. x \in h /\ \A i \in 1..n : q[i] # show /\ q[i] # hide
          BY <1>1, <3>2, <4>1
        <4> QED BY <4>2 DEF SeenHidden, show, hide, n
      <3> QED BY <2>5, <3>1, <3>2 DEF SeenHidden, show, hide
    <2> QED BY <2>4, <2>5
  <1> QED BY <1>5, <1>6

\* What is posted is a call, or a deletion that changes nothing of what is seen.
LEMMA AppendDelete ==
  ASSUME NEW q \in Seq(Posts), NEW h, NEW o \in Objects, Alternates(q, h)
  PROVE  LET r == Append(q, [call |-> "delete", obj |-> o])
         IN Alternates(r, h) /\ \A x \in Objects : SeenHidden(r, h, x) <=> SeenHidden(q, h, x)
  <1> DEFINE e == [call |-> "delete", obj |-> o]
             r == Append(q, e)
             n == Len(q)
  <1>1. /\ n \in Nat /\ Len(r) = n + 1 /\ r[n + 1] = e /\ \A i \in 1..n : r[i] = q[i] /\ q[i] \in Posts
        /\ \A i \in 1..(n + 1) : i = n + 1 \/ i \in 1..n
        /\ \A i \in 1..n : i < n + 1 /\ i \in 1..(n + 1)
    <2>1. e \in Posts
      BY DEF Posts
    <2> HIDE DEF e
    <2> QED BY <2>1
  <1>2. e.call = "delete" /\ \A p : p.call # "delete" => p # e
    OBVIOUS
  <1>3. \A x : e # [call |-> "show", obj |-> x] /\ e # [call |-> "hide", obj |-> x]
    OBVIOUS
  <1> HIDE DEF e, r, n
  <1>4. Alternates(r, h)
    <2>1. ASSUME NEW i \in 1..n, q[i].call # "delete", NEW j \in 1..(n + 1), i < j, r[j] = r[i]
          PROVE  \E k \in 1..(n + 1) : i < k /\ k < j /\ r[k] = Opposite(r[i])
      <3>1. j \in 1..n
        BY <1>1, <1>2, <2>1
      <3>2. PICK k \in 1..n : i < k /\ k < j /\ q[k] = Opposite(q[i])
        BY <1>1, <2>1, <3>1 DEF Alternates, n
      <3> QED BY <1>1, <3>2
    <2>2. ASSUME NEW i \in 1..n, q[i].call # "delete", q[i].call = "show" <=> q[i].obj \in h
          PROVE  \E k \in 1..(n + 1) : i < k /\ r[k] = Opposite(r[i])
      <3>1. PICK k \in 1..n : i < k /\ q[k] = Opposite(q[i])
        BY <2>2 DEF Alternates, n
      <3> QED BY <1>1, <3>1
    <2> QED BY <1>1, <1>2, <2>1, <2>2 DEF Alternates
  <1>5. ASSUME NEW x \in Objects
        PROVE  SeenHidden(r, h, x) <=> SeenHidden(q, h, x)
    <2> DEFINE show == [call |-> "show", obj |-> x]
               hide == [call |-> "hide", obj |-> x]
    <2>1. e # show /\ e # hide
      BY <1>3
    <2> HIDE DEF show, hide
    <2>2. (\E i \in 1..Len(r) : r[i] = show /\ \A j \in 1..Len(r) : j < i => r[j] # hide)
           <=> \E i \in 1..n : q[i] = show /\ \A j \in 1..n : j < i => q[j] # hide
      BY <1>1, <2>1
    <2>3. (\A i \in 1..Len(r) : r[i] # show /\ r[i] # hide) <=> \A i \in 1..n : q[i] # show /\ q[i] # hide
      BY <1>1, <2>1
    <2> QED BY <2>2, <2>3 DEF SeenHidden, show, hide, n
  <1> QED BY <1>4, <1>5 DEF r, e

\* The first post is delivered.
LEMMA TailPost ==
  ASSUME NEW q \in Seq(Posts), NEW h, q # <<>>, Alternates(q, h)
  PROVE  /\ Tail(q) \in Seq(Posts) /\ Head(q) \in Posts /\ Alternates(Tail(q), h)
         /\ \A i \in 1..Len(Tail(q)) : \E j \in 1..Len(q) : Tail(q)[i] = q[j]
         /\ Head(q) = q[1] /\ 1 \in 1..Len(q)
         /\ \A x \in Objects : Head(q).obj # x \/ Head(q).call = "delete" =>
              (SeenHidden(Tail(q), h, x) <=> SeenHidden(q, h, x))
         /\ Head(q).call = "show" => ~SeenHidden(Tail(q), h, Head(q).obj)
  <1> DEFINE r == Tail(q)
             n == Len(r)
             e == q[1]
  <1>1. /\ n \in Nat /\ Len(q) = n + 1 /\ r \in Seq(Posts) /\ Head(q) = e
        /\ \A i \in 1..n : r[i] = q[i + 1] /\ i + 1 \in 1..(n + 1)
        /\ \A j \in 1..(n + 1) : q[j] \in Posts /\ (j = 1 \/ (j - 1 \in 1..n /\ r[j - 1] = q[j]))
        /\ 1 \in 1..(n + 1)
    OBVIOUS
  <1>2. \A p \in Posts : p.obj \in Objects /\ p = [call |-> p.call, obj |-> p.obj]
    BY DEF Posts
  <1> HIDE DEF r, n, e
  <1>3. Alternates(r, h)
    <2>1. ASSUME NEW i \in 1..n, r[i].call # "delete", NEW j \in 1..n, i < j, r[j] = r[i]
          PROVE  \E k \in 1..n : i < k /\ k < j /\ r[k] = Opposite(r[i])
      <3>1. i + 1 \in 1..Len(q) /\ j + 1 \in 1..Len(q) /\ i + 1 < j + 1
        <4>1. i + 1 \in 1..Len(q) /\ j + 1 \in 1..Len(q)
          BY <1>1
        <4>2. i \in Nat /\ j \in Nat /\ i < j
          BY <2>1
        <4> QED BY <4>1, <4>2
      <3>2. PICK k \in 1..Len(q) : i + 1 < k /\ k < j + 1 /\ q[k] = Opposite(r[i])
        BY <1>1, <2>1, <3>1 DEF Alternates
      <3>3. k - 1 \in 1..n /\ i < k - 1 /\ k - 1 < j /\ r[k - 1] = q[k]
        BY <1>1, <3>2
      <3> QED BY <3>2, <3>3
    <2>2. ASSUME NEW i \in 1..n, r[i].call # "delete", r[i].call = "show" <=> r[i].obj \in h
          PROVE  \E k \in 1..n : i < k /\ r[k] = Opposite(r[i])
      <3>1. PICK k \in 1..Len(q) : i + 1 < k /\ q[k] = Opposite(r[i])
        BY <1>1, <2>2 DEF Alternates
      <3>2. k - 1 \in 1..n /\ i < k - 1 /\ r[k - 1] = q[k]
        BY <1>1, <3>1
      <3> QED BY <3>1, <3>2
    <2> QED BY <2>1, <2>2 DEF Alternates, n
  <1>4. ASSUME NEW x \in Objects, e.obj # x \/ e.call = "delete"
        PROVE  SeenHidden(r, h, x) <=> SeenHidden(q, h, x)
    <2> DEFINE show == [call |-> "show", obj |-> x]
               hide == [call |-> "hide", obj |-> x]
    <2>1. e # show /\ e # hide
      BY <1>4
    <2> HIDE DEF show, hide
    <2>2. ASSUME NEW i \in 1..n, r[i] = show, \A j \in 1..n : j < i => r[j] # hide
          PROVE  \E k \in 1..Len(q) : q[k] = show /\ \A j \in 1..Len(q) : j < k => q[j] # hide
      <3>1. i + 1 \in 1..Len(q) /\ q[i + 1] = show
        BY <1>1, <2>2
      <3>2. \A j \in 1..Len(q) : j < i + 1 => q[j] # hide
        <4> TAKE j \in 1..Len(q)
        <4>1. CASE j = 1
          BY <2>1, <4>1 DEF e
        <4>2. CASE j # 1
          <5>1. j - 1 \in 1..n /\ r[j - 1] = q[j] /\ (j < i + 1 => j - 1 < i)
            BY <1>1, <4>2
          <5> QED BY <2>2, <5>1
        <4> QED BY <4>1, <4>2
      <3> QED BY <3>1, <3>2
    <2>3. ASSUME NEW k \in 1..Len(q), q[k] = show, \A j \in 1..Len(q) : j < k => q[j] # hide
          PROVE  \E i \in 1..n : r[i] = show /\ \A j \in 1..n : j < i => r[j] # hide
      <3>1. k - 1 \in 1..n /\ r[k - 1] = show
        BY <1>1, <2>1, <2>3 DEF e
      <3>2. \A j \in 1..n : j < k - 1 => r[j] # hide
        <4> TAKE j \in 1..n
        <4>1. j + 1 \in 1..Len(q) /\ r[j] = q[j + 1]
          BY <1>1
        <4>2. k \in Nat /\ j \in Nat /\ (j < k - 1 => j + 1 < k)
          OBVIOUS
        <4> QED BY <2>3, <4>1, <4>2
      <3> QED BY <3>1, <3>2
    <2>4. (\A i \in 1..n : r[i] # show /\ r[i] # hide) <=> \A i \in 1..Len(q) : q[i] # show /\ q[i] # hide
      BY <1>1, <2>1, SMTT(30) DEF e
    <2> QED BY <2>2, <2>3, <2>4 DEF SeenHidden, show, hide, n
  <1>5. ASSUME e.call = "show" PROVE ~SeenHidden(r, h, e.obj)
    <2> DEFINE show == [call |-> "show", obj |-> e.obj]
               hide == [call |-> "hide", obj |-> e.obj]
    <2>1. e = show /\ Opposite(e) = hide
      BY <1>1, <1>2, <1>5 DEF e, Opposite
    <2> HIDE DEF show, hide
    <2>2. ASSUME NEW i \in 1..n, r[i] = show, \A j \in 1..n : j < i => r[j] # hide
          PROVE  FALSE
      <3>1. PICK k \in 1..Len(q) : 1 < k /\ k < i + 1 /\ q[k] = hide
        <4>1. i + 1 \in 1..Len(q) /\ q[i + 1] = q[1] /\ 1 < i + 1 /\ q[1].call # "delete"
          BY <1>1, <1>5, <2>1, <2>2 DEF e
        <4> QED BY <1>1, <2>1, <4>1 DEF Alternates, e
      <3>2. k - 1 \in 1..n /\ r[k - 1] = hide /\ k - 1 < i
        BY <1>1, <3>1
      <3> QED BY <2>2, <3>2
    <2>3. ASSUME e.obj \in h, \A i \in 1..n : r[i] # show /\ r[i] # hide
          PROVE  FALSE
      <3>1. PICK k \in 1..Len(q) : 1 < k /\ q[k] = hide
        BY <1>1, <1>5, <2>1, <2>3 DEF Alternates, e
      <3>2. k - 1 \in 1..n /\ r[k - 1] = hide
        BY <1>1, <3>1
      <3> QED BY <2>3, <3>2
    <2> QED BY <2>2, <2>3 DEF SeenHidden, show, hide, n
  <1>6. \A i \in 1..Len(r) : \E j \in 1..Len(q) : r[i] = q[j]
    BY <1>1 DEF n
  <1> QED BY <1>1, <1>3, <1>4, <1>5, <1>6 DEF r

\* What was posted for one object is taken out.
LEMMA WithoutPost ==
  ASSUME NEW q \in Seq(Posts), NEW h, NEW o \in Objects, Alternates(q, h)
  PROVE  LET r == Without(q, {o})
         IN /\ r \in Seq(Posts) /\ Alternates(r, h)
            /\ \A i \in 1..Len(r) : r[i].obj # o /\ \E j \in 1..Len(q) : r[i] = q[j]
            /\ \A x \in Objects : x # o => (SeenHidden(r, h, x) <=> SeenHidden(q, h, x))
  <1> DEFINE P == {i \in DOMAIN q : q[i].obj \notin {o}}
             r == Without(q, {o})
             n == Len(r)
  <1>1. P \subseteq 1..Len(q) /\ r = Kept(q, P) /\ \A i \in 1..Len(q) : i \in P <=> q[i].obj # o
    BY DEF Without
  <1> HIDE DEF P, r
  <1>2. r \in Seq(Posts) /\ \E idx : Selects(idx, r, q, P)
    BY <1>1, KeptFacts
  <1>3. PICK idx : Selects(idx, r, q, P)
    BY <1>2
  <1>4. n \in Nat /\ Len(q) \in Nat /\ \A i \in 1..Len(q) : q[i] \in Posts
    BY <1>2
  <1> HIDE DEF n
  <1>5. /\ \A i \in 1..n : idx[i] \in P /\ idx[i] \in 1..Len(q) /\ r[i] = q[idx[i]] /\ q[idx[i]].obj # o
        /\ \A j, k \in 1..n : j < k => idx[j] < idx[k]
        /\ \A i \in P : \E k \in 1..n : idx[k] = i
    BY <1>1, <1>3 DEF Selects, n
  <1>6. \A j, k \in 1..n : idx[j] < idx[k] => j < k
    <2> TAKE j, k \in 1..n
    <2>1. j = k => idx[j] = idx[k]
      OBVIOUS
    <2>2. k < j => idx[k] < idx[j]
      BY <1>5
    <2>3. idx[j] \in Nat /\ idx[k] \in Nat /\ j \in Nat /\ k \in Nat
      BY <1>4, <1>5
    <2> QED BY <2>1, <2>2, <2>3
  <1>7. \A p : Opposite(p).obj = p.obj
    BY DEF Opposite
  <1>8. Alternates(r, h)
    <2>1. ASSUME NEW i \in 1..n, r[i].call # "delete", NEW j \in 1..n, i < j, r[j] = r[i]
          PROVE  \E k \in 1..n : i < k /\ k < j /\ r[k] = Opposite(r[i])
      <3> DEFINE a == idx[i]
                 b == idx[j]
      <3>4. /\ a \in 1..Len(q) /\ b \in 1..Len(q) /\ a < b
            /\ q[a] = r[i] /\ q[b] = q[a] /\ q[a].call # "delete"
        BY <1>5, <2>1
      <3> HIDE DEF a, b
      <3>5. \E m \in 1..Len(q) : a < m /\ m < b /\ q[m] = Opposite(q[a])
        BY <3>4 DEF Alternates
      <3>1. PICK m \in 1..Len(q) : idx[i] < m /\ m < idx[j] /\ q[m] = Opposite(r[i])
        BY <3>4, <3>5 DEF a, b
      <3>2. m \in P
        BY <1>1, <1>5, <1>7, <3>1
      <3>3. PICK k \in 1..n : idx[k] = m
        BY <1>5, <3>2
      <3> QED BY <1>5, <1>6, <3>1, <3>3
    <2>2. ASSUME NEW i \in 1..n, r[i].call # "delete", r[i].call = "show" <=> r[i].obj \in h
          PROVE  \E k \in 1..n : i < k /\ r[k] = Opposite(r[i])
      <3> DEFINE a == idx[i]
      <3>4. a \in 1..Len(q) /\ q[a] = r[i] /\ q[a].call # "delete" /\ (q[a].call = "show" <=> q[a].obj \in h)
        BY <1>5, <2>2
      <3> HIDE DEF a
      <3>5. \E m \in 1..Len(q) : a < m /\ q[m] = Opposite(q[a])
        BY <3>4 DEF Alternates
      <3>1. PICK m \in 1..Len(q) : idx[i] < m /\ q[m] = Opposite(r[i])
        BY <3>4, <3>5 DEF a
      <3>2. m \in P
        BY <1>1, <1>5, <1>7, <3>1
      <3>3. PICK k \in 1..n : idx[k] = m
        BY <1>5, <3>2
      <3> QED BY <1>5, <1>6, <3>1, <3>3
    <2> QED BY <2>1, <2>2 DEF Alternates, n
  <1>9. ASSUME NEW x \in Objects, x # o
        PROVE  SeenHidden(r, h, x) <=> SeenHidden(q, h, x)
    <2> DEFINE show == [call |-> "show", obj |-> x]
               hide == [call |-> "hide", obj |-> x]
    <2>1. \A m \in 1..Len(q) : q[m] \in {show, hide} => \E k \in 1..n : idx[k] = m
      <3>1. show.obj = x /\ hide.obj = x
        OBVIOUS
      <3> HIDE DEF show, hide
      <3> QED BY <1>1, <1>5, <1>9, <3>1
    <2> HIDE DEF show, hide
    <2>2. ASSUME NEW i \in 1..n, r[i] = show, \A j \in 1..n : j < i => r[j] # hide
          PROVE  \E k \in 1..Len(q) : q[k] = show /\ \A j \in 1..Len(q) : j < k => q[j] # hide
      <3>1. ASSUME NEW j \in 1..Len(q), j < idx[i], q[j] = hide
            PROVE  FALSE
        <4>1. PICK k \in 1..n : idx[k] = j
          BY <2>1, <3>1
        <4> QED BY <1>5, <1>6, <2>2, <3>1, <4>1
      <3> QED BY <1>5, <2>2, <3>1
    <2>3. ASSUME NEW m \in 1..Len(q), q[m] = show, \A j \in 1..Len(q) : j < m => q[j] # hide
          PROVE  \E i \in 1..n : r[i] = show /\ \A j \in 1..n : j < i => r[j] # hide
      <3>1. PICK k \in 1..n : idx[k] = m
        BY <2>1, <2>3
      <3> QED BY <1>5, <2>3, <3>1
    <2>4. (\A i \in 1..n : r[i] # show /\ r[i] # hide) <=> \A i \in 1..Len(q) : q[i] # show /\ q[i] # hide
      BY <1>5, <2>1
    <2> QED BY <2>2, <2>3, <2>4 DEF SeenHidden, show, hide, n
  <1> QED BY <1>2, <1>5, <1>8, <1>9 DEF r, n

-----------------------------------------------------------------------------
(* The actions that post, deliver and change an object.                     *)

\* A child of an object is alive and names a parent.
LEMMA ChildOf ==
  ASSUME IInv, NEW o \in Objects, NEW n \in Objects \cup {Root}, up[o] = n
  PROVE  status[o] \notin {"unborn", "made", "dead"} /\ ParentName[o] # None /\ rec[o] = n /\ n \in Named(o)
  <1>1. n \in Nodes /\ n # None
    BY NodeFacts
  <1>2. /\ status[o] \in {"unborn", "made", "dead"} => up[o] = None
        /\ up[o] \in Objects \cup {Root} => rec[o] = up[o] /\ up[o] \in Named(o)
    BY DEF IInv, PlaceInv
  <1> QED BY <1>1, <1>2, NamedFacts

\* The visibility of an object changes.
LEMMA ChangeVisibleKeeps ==
  ASSUME IInv, NEW o \in Objects, ChangeVisible(o)
  PROVE  IInv'
  <1> DEFINE e == [call |-> IF o \in hidden THEN "show" ELSE "hide", obj |-> o]
  <1>1. /\ job = Idle /\ status[o] \in {"made", "known"} /\ changes < MaxChanges /\ changes' = changes + 1
        /\ hidden' = IF o \in hidden THEN hidden \ {o} ELSE hidden \cup {o}
        /\ IF o \in watched THEN queue' = Append(queue, e) ELSE queue' = queue
        /\ missed' \subseteq missed \cup {o}
        /\ UNCHANGED <<status, objMap, kids, up, rec, weight, watched, linked, search, job, orphans, renamed>>
    BY DEF ChangeVisible
  <1>2. TypeOK /\ job.kind = "idle"
    BY <1>1 DEF IInv, ShapeInv, Idle
  <1>3. queue' \in Seq(Posts)
    <2>1. e \in Posts
      BY DEF Posts
    <2> HIDE DEF e
    <2> QED BY <1>1, <1>2, <2>1, QueueType
  <1>4. ShapeInv'
    <2>1. changes' \in 0..MaxChanges
      BY <1>1, <1>2, WeightAssumption DEF TypeOK
    <2>2. hidden' \subseteq Objects /\ missed' \subseteq Objects
      BY <1>1, <1>2 DEF TypeOK
    <2>3. TypeOK'
      BY <1>1, <1>2, <1>3, <2>1, <2>2 DEF TypeOK, Posts
    <2> QED BY <1>1, <2>3 DEF IInv, ShapeInv
  <1>5. TreeInv' /\ PlaceInv' /\ LinkInv' /\ JobInv' /\ LivingInv'
    BY <1>1 DEF IInv, TreeInv, tree, Agree, InWeight, PlaceInv, LinkInv, JobInv, LivingInv, Alive
  <1>6. \A x \in Objects : x \in hidden' <=> IF x = o THEN x \notin hidden ELSE x \in hidden
    BY <1>1
  <1>7. /\ Alternates(queue', hidden')
        /\ \A x \in watched : SeenHidden(queue', hidden', x) <=> SeenHidden(queue, hidden, x)
    <2>1. Alternates(queue, hidden) /\ queue \in Seq(Posts) /\ watched \subseteq Objects
      BY <1>2, QueueType DEF IInv, QueueInv, TypeOK
    <2>2. CASE o \in watched
      <3>1. o \in hidden' <=> o \notin hidden
        BY <1>6
      <3>2. \A x \in Objects : x # o => (x \in hidden' <=> x \in hidden)
        BY <1>6
      <3>3. queue' = Append(queue, e)
        BY <1>1, <2>2
      <3>4. /\ Alternates(Append(queue, e), hidden')
            /\ \A x \in Objects : SeenHidden(Append(queue, e), hidden', x) <=> SeenHidden(queue, hidden, x)
        BY <2>1, <3>1, <3>2, AppendPost
      <3> HIDE DEF e
      <3> QED BY <2>1, <3>3, <3>4
    <2>3. CASE o \notin watched
      <3>1. \A i \in 1..Len(queue) : /\ queue[i].call # "delete" => queue[i].obj # o
                                     /\ queue[i].obj \in Objects
        BY <1>2, <2>3, QueueType DEF IInv, QueueInv
      <3>2. Alternates(queue, hidden')
        BY <1>6, <2>1, <3>1 DEF Alternates
      <3>3. \A x \in watched : x \in hidden' <=> x \in hidden
        BY <1>6, <2>1, <2>3
      <3> QED BY <1>1, <2>3, <3>2, <3>3 DEF SeenHidden
    <2> QED BY <2>2, <2>3
  <1>8. QueueInv'
    <2>1. CASE o \in watched
      <3>1. /\ Len(queue) \in Nat /\ Len(queue') = Len(queue) + 1 /\ queue'[Len(queue) + 1] = e
            /\ \A i \in 1..Len(queue) : queue'[i] = queue[i]
            /\ \A i \in 1..(Len(queue) + 1) : i = Len(queue) + 1 \/ i \in 1..Len(queue)
        BY <1>1, <1>2, <2>1, QueueType
      <3>2. e.obj = o
        OBVIOUS
      <3> HIDE DEF e
      <3>3. \A i \in 1..Len(queue') : (queue'[i].call # "delete" => queue'[i].obj \in watched)
                                      /\ status[queue'[i].obj] \notin {"unborn", "dead"}
        BY <1>1, <2>1, <3>1, <3>2 DEF IInv, QueueInv
      <3> QED BY <1>1, <1>7, <3>3 DEF QueueInv
    <2>2. CASE o \notin watched
      BY <1>1, <1>7, <2>2 DEF IInv, QueueInv
    <2> QED BY <2>1, <2>2
  <1>9. SeenInv'
    BY <1>1, <1>2, <1>7 DEF IInv, SeenInv
  <1> QED BY <1>4, <1>5, <1>8, <1>9 DEF IInv

\* What holds of the queue when its first call is delivered and the object is in Hide or
\* its place does not matter.
LEMMA DeliveredQueue ==
  ASSUME IInv, queue # <<>>, queue' = Tail(queue), hidden' = hidden, watched' = watched, status' = status
  PROVE  /\ Head(queue).obj \in Objects /\ QueueInv' /\ queue' \in Seq(Posts)
         /\ status[Head(queue).obj] \notin {"unborn", "dead"}
         /\ Head(queue).call # "delete" => Head(queue).obj \in watched
  <1>1. TypeOK /\ Alternates(queue, hidden) /\ queue \in Seq(Posts)
    BY QueueType DEF IInv, ShapeInv, QueueInv
  <1>2. /\ queue' \in Seq(Posts) /\ Head(queue) = queue[1] /\ 1 \in 1..Len(queue)
        /\ Alternates(queue', hidden)
        /\ \A i \in 1..Len(queue') : \E j \in 1..Len(queue) : queue'[i] = queue[j]
    BY <1>1, TailPost
  <1>3. QueueInv'
    BY <1>2 DEF IInv, QueueInv
  <1> QED BY <1>1, <1>2, <1>3, QueueType DEF IInv, QueueInv

\* onVisible(true) begins.
LEMMA StartRevealKeeps ==
  ASSUME IInv, StartReveal
  PROVE  IInv'
  <1> DEFINE o == Head(queue).obj
  <1>1. /\ job = Idle /\ queue # <<>> /\ Head(queue).call = "show" /\ queue' = Tail(queue)
        /\ job' = [kind |-> "reveal", list |-> kids[o], of |-> o]
        /\ UNCHANGED <<status, objMap, kids, up, rec, hidden, weight, watched, linked, search, changes,
                       missed, orphans, renamed>>
    BY DEF StartReveal, Delivers
  <1>2. TypeOK /\ job.kind = "idle"
    BY <1>1 DEF IInv, ShapeInv, Idle
  <1>3. o \in Objects /\ QueueInv' /\ queue' \in Seq(Posts) /\ o \in watched
    BY <1>1, DeliveredQueue
  <1>4. kids[o] \in Seq(Objects) /\ job'.kind = "reveal" /\ job'.list = kids[o] /\ job'.of = o
    BY <1>1, <1>2, <1>3, NodeFacts DEF TypeOK
  <1>5. /\ \A x \in Objects : x # o => (SeenHidden(queue', hidden, x) <=> SeenHidden(queue, hidden, x))
        /\ ~SeenHidden(queue', hidden, o) /\ SeenHidden(queue, hidden, o)
    <2>1. queue \in Seq(Posts) /\ Alternates(queue, hidden)
      BY <1>2, QueueType DEF IInv, QueueInv
    <2>2. /\ \A x \in Objects : x # o => (SeenHidden(Tail(queue), hidden, x) <=> SeenHidden(queue, hidden, x))
          /\ ~SeenHidden(Tail(queue), hidden, o) /\ Head(queue) = queue[1] /\ 1 \in 1..Len(queue)
      BY <1>1, <2>1, TailPost
    <2>3. queue[1] = [call |-> "show", obj |-> o] /\ \A j \in 1..Len(queue) : ~(j < 1)
      BY <1>1, <1>2, <2>2, QueueType
    <2>4. SeenHidden(queue, hidden, o)
      BY <2>2, <2>3 DEF SeenHidden
    <2> QED BY <1>1, <2>2, <2>4
  <1> HIDE DEF o
  <1>6. ShapeInv'
    <2>1. job' \in [kind : {"idle", "announce", "flush", "reveal", "destroy"}, list : Seq(Objects),
                    of : Objects \cup {None}]
      BY <1>1, <1>3, <1>4
    <2>2. TypeOK'
      BY <1>1, <1>2, <1>3, <2>1 DEF TypeOK, Posts
    <2> QED BY <1>1, <1>2, <1>4, <2>2 DEF IInv, ShapeInv
  <1>7. TreeInv' /\ PlaceInv' /\ LinkInv'
    BY <1>1 DEF IInv, TreeInv, tree, Agree, InWeight, PlaceInv, LinkInv
  <1>8. JobInv'
    <2>1. \A x \in Objects : Occurs(kids[o], x) => up[x] = o
      BY <1>3, NodeFacts DEF IInv, TreeInv, tree, Agree
    <2>2. \A x \in Objects : Occurs(kids[o], x) =>
            status[x] \notin {"unborn", "made", "dead"} /\ ParentName[x] # None
      BY <1>3, <2>1, ChildOf
    <2> QED BY <1>1, <1>4, <2>2 DEF JobInv
  <1>9. SeenInv'
    <2>1. watched \subseteq Objects /\ up[o] # NoAdd /\ status[o] # "dead"
      BY <1>1, <1>2, <1>3, <1>5, DeliveredQueue DEF IInv, SeenInv, TypeOK, o
    <2> QED BY <1>1, <1>3, <1>4, <1>5, <2>1 DEF IInv, SeenInv
  <1>10. LivingInv'
    BY <1>1, <1>2 DEF IInv, LivingInv, Alive
  <1> QED BY <1>3, <1>6, <1>7, <1>8, <1>9, <1>10 DEF IInv

\* A posted deletion begins.
LEMMA StartDestroyKeeps ==
  ASSUME IInv, StartDestroy
  PROVE  IInv'
  <1> DEFINE o == Head(queue).obj
  <1>1. /\ job = Idle /\ queue # <<>> /\ Head(queue).call = "delete" /\ queue' = Tail(queue)
        /\ job' = [kind |-> "destroy", list |-> <<o>>, of |-> None]
        /\ UNCHANGED <<status, objMap, kids, up, rec, hidden, weight, watched, linked, search, changes,
                       missed, orphans, renamed>>
    BY DEF StartDestroy, Delivers
  <1>2. TypeOK /\ job.kind = "idle" /\ job'.kind = "destroy"
    BY <1>1 DEF IInv, ShapeInv, Idle
  <1>3. o \in Objects /\ QueueInv' /\ queue' \in Seq(Posts)
    BY <1>1, DeliveredQueue
  <1>4. \A x \in Objects : SeenHidden(queue', hidden, x) <=> SeenHidden(queue, hidden, x)
    <2>1. queue \in Seq(Posts) /\ Alternates(queue, hidden)
      BY <1>2, QueueType DEF IInv, QueueInv
    <2> QED BY <1>1, <2>1, TailPost
  <1> HIDE DEF o
  <1>5. ShapeInv'
    <2>1. <<o>> \in Seq(Objects)
      BY <1>3, Single
    <2>2. TypeOK'
      BY <1>1, <1>2, <1>3, <2>1 DEF TypeOK, Posts
    <2> QED BY <1>1, <1>2, <2>2 DEF IInv, ShapeInv
  <1>6. TreeInv' /\ PlaceInv' /\ LinkInv'
    BY <1>1 DEF IInv, TreeInv, tree, Agree, InWeight, PlaceInv, LinkInv
  <1>7. JobInv'
    BY <1>2 DEF JobInv
  <1>8. SeenInv'
    <2>1. watched \subseteq Objects
      BY <1>2 DEF TypeOK
    <2> QED BY <1>1, <1>2, <1>4, <2>1 DEF IInv, SeenInv
  <1>9. LivingInv'
    BY <1>1, <1>2 DEF IInv, LivingInv, Alive
  <1> QED BY <1>3, <1>5, <1>6, <1>7, <1>8, <1>9 DEF IInv

\* The search is told of another name.
LEMMA RenameKeeps ==
  ASSUME IInv, NEW o \in Objects, Rename(o)
  PROVE  IInv'
  <1> DEFINE s == Subtree(tree, o)
  <1>1. /\ changes < MaxChanges /\ changes' = changes + 1
        /\ search' = AddSearchData(RemoveSearchData(search, {o}), Entries(tree, s))
        /\ renamed' = renamed \cup (ToSet(s) \ {o})
        /\ UNCHANGED <<status, objMap, kids, up, rec, hidden, weight, watched, linked, queue, job, missed,
                       orphans>>
    BY DEF Rename
  <1>2. TypeOK /\ IsModel(search)
    BY DEF IInv, ShapeInv
  <1>3. s \in Seq(Objects) /\ ToSet(s) \subseteq Objects
    <2>1. tree \in Trees
      BY <1>2, TreeType
    <2>2. s \in Seq(Objects) /\ ToSet(s) = Below(tree, o)
      BY <2>1, SubtreeFacts, BelowSet
    <2> QED BY <2>2 DEF Below
  <1>4. IsModel(search') /\ search'.depth = search.depth
    <2>1. IsList(Entries(tree, s))
      BY <1>3, EntriesFacts
    <2>2. IsModel(RemoveSearchData(search, {o})) /\ RemoveSearchData(search, {o}).depth = search.depth
      BY <1>2, ModelFacts
    <2> HIDE DEF s
    <2> QED BY <1>1, <2>1, <2>2, ModelFacts
  <1> HIDE DEF s
  <1>5. ShapeInv'
    <2>1. changes' \in 0..MaxChanges
      BY <1>1, <1>2, WeightAssumption DEF TypeOK
    <2>2. renamed' \subseteq Objects
      BY <1>1, <1>2, <1>3 DEF TypeOK
    <2>3. TypeOK'
      BY <1>1, <1>2, <1>4, <2>1, <2>2 DEF TypeOK
    <2> QED BY <1>1, <1>4, <2>3 DEF IInv, ShapeInv
  <1>6. TreeInv' /\ PlaceInv' /\ LinkInv' /\ JobInv'
    BY <1>1 DEF IInv, TreeInv, tree, Agree, InWeight, PlaceInv, LinkInv, JobInv
  <1>7. QueueInv' /\ SeenInv' /\ LivingInv'
    BY <1>1 DEF IInv, QueueInv, SeenInv, LivingInv, Alive
  <1> QED BY <1>5, <1>6, <1>7 DEF IInv

\* An object is given another weight.
LEMMA ChangeWeightKeeps ==
  ASSUME IInv, NEW o \in Objects, NEW w \in Weights, ChangeWeight(o, w)
  PROVE  IInv'
  <1>1. /\ changes < MaxChanges /\ changes' = changes + 1
        /\ weight' = [weight EXCEPT ![o] = w]
        /\ kids' = IF up[o] = None THEN kids ELSE [kids EXCEPT ![up[o]] = Repositioned(kids[up[o]], o, w)]
        /\ UNCHANGED <<status, objMap, up, rec, hidden, watched, linked, search, queue, job, missed, orphans,
                       renamed>>
    BY DEF ChangeWeight
  <1>2. TypeOK /\ w \in Nat
    BY WeightAssumption DEF IInv, ShapeInv
  <1>3. /\ kids \in [Nodes -> Seq(Objects)] /\ up[o] \in Nodes \cup {None} /\ weight \in [Objects -> Nat]
        /\ \A n \in Nodes : /\ Distinct(kids[n]) /\ InOrder(kids[n], weight)
                            /\ \A x \in Objects : Occurs(kids[n], x) <=> up[x] = n
    BY <1>2 DEF IInv, TreeInv, tree, Agree, InWeight, TypeOK
  <1>4. kids' \in [Nodes -> Seq(Objects)]
        /\ \A n \in Nodes : /\ Distinct(kids'[n]) /\ InOrder(kids'[n], weight')
                            /\ \A x \in Objects : Occurs(kids'[n], x) <=> up[x] = n
    <2>1. ASSUME NEW n \in Nodes, up[o] # n
          PROVE  InOrder(kids[n], weight')
      <3>1. kids[n] \in Seq(Objects) /\ ~Occurs(kids[n], o)
        BY <1>3, <2>1
      <3>2. \A i \in 1..Len(kids[n]) : kids[n][i] \in Objects /\ kids[n][i] # o
        BY <3>1 DEF Occurs
      <3>3. \A i \in 1..Len(kids[n]) : weight'[kids[n][i]] = weight[kids[n][i]]
        BY <1>1, <1>3, <3>2
      <3> QED BY <1>3, <3>3 DEF InOrder
    <2>2. CASE up[o] = None
      BY <1>1, <1>3, <2>1, <2>2, NodeFacts
    <2>3. CASE up[o] # None
      <3> DEFINE m == up[o]
                 r == Repositioned(kids[m], o, w)
      <3>1. m \in Nodes /\ kids[m] \in Seq(Objects) /\ Occurs(kids[m], o)
        BY <1>3, <2>3
      <3>2. r \in Seq(Objects) /\ Distinct(r) /\ InOrder(r, weight')
            /\ \A x : Occurs(r, x) <=> Occurs(kids[m], x)
        BY <1>1, <1>2, <1>3, <3>1, RepositionedFacts
      <3>3. kids' = [kids EXCEPT ![m] = r]
        BY <1>1, <2>3
      <3> HIDE DEF r
      <3>4. \A n \in Nodes : kids'[n] = IF n = m THEN r ELSE kids[n]
        BY <1>3, <3>3
      <3>5. kids' \in [Nodes -> Seq(Objects)]
        BY <1>3, <3>1, <3>2, <3>3
      <3> QED BY <1>3, <2>1, <3>1, <3>2, <3>4, <3>5
    <2> QED BY <2>2, <2>3
  <1>5. ShapeInv'
    <2>1. changes' \in 0..MaxChanges /\ weight' \in [Objects -> Nat]
      BY <1>1, <1>2, <1>3, WeightAssumption DEF TypeOK
    <2>2. TypeOK'
      BY <1>1, <1>2, <1>4, <2>1 DEF TypeOK
    <2> QED BY <1>1, <2>2 DEF IInv, ShapeInv
  <1>6. TreeInv'
    BY <1>1, <1>4 DEF TreeInv, tree, Agree, InWeight
  <1>7. PlaceInv' /\ LinkInv' /\ JobInv' /\ QueueInv'
    BY <1>1 DEF IInv, PlaceInv, LinkInv, JobInv, QueueInv
  <1>8. SeenInv' /\ LivingInv'
    BY <1>1 DEF IInv, SeenInv, LivingInv, Alive
  <1> QED BY <1>5, <1>6, <1>7, <1>8 DEF IInv

-----------------------------------------------------------------------------
(* What is hidden, and what a repeater lets go of.                          *)

\* The variables the tree is made of keep their types.
LEMMA TreeTypes ==
  ASSUME NEW t \in Trees, kids' = t.kids, up' = t.up, rec' = t.rec
  PROVE  /\ kids' \in [Nodes -> Seq(Objects)]
         /\ up' \in [Objects -> Nodes \cup {None}] /\ rec' \in [Objects -> Nodes \cup {None}]
  BY DEF Trees

\* An object that goes to Hide.
LEMMA GoesToHide ==
  ASSUME IInv, NEW o \in Objects, NEW extra \in SUBSET Objects,
         Leaves(AddChild(Detach(tree, o), Hide, o, FALSE), o, extra),
         UNCHANGED <<status, objMap, weight>>, status[o] \notin {"unborn", "made", "dead"}
  PROVE  /\ TreeInv' /\ PlaceInv' /\ LinkInv' /\ watched' = watched \cup extra
         /\ IsModel(search') /\ search'.depth = search.depth
         /\ kids' \in [Nodes -> Seq(Objects)]
         /\ up' \in [Objects -> Nodes \cup {None}] /\ rec' \in [Objects -> Nodes \cup {None}]
         /\ rec' = rec /\ \A x \in Objects : up'[x] = IF x = o THEN Hide ELSE up[x]
  <1> DEFINE d == Detach(tree, o)
             t == AddChild(d, Hide, o, FALSE)
  <1>1. TypeOK /\ tree \in Trees /\ tree.up = up /\ tree.rec = rec /\ weight \in [Objects -> Nat]
        /\ Agree(tree) /\ InWeight(tree, weight) /\ IsModel(search) /\ LinkInv
        /\ up \in [Objects -> Nodes \cup {None}]
    BY TreeType DEF IInv, ShapeInv, TreeInv, TypeOK
  <1>2. d \in Trees /\ Agree(d) /\ InWeight(d, weight) /\ d.up = [up EXCEPT ![o] = None] /\ d.rec = rec
    BY <1>1, DetachFacts
  <1>3. d.up[o] = None
    BY <1>1, <1>2
  <1> HIDE DEF d
  <1>4. t \in Trees /\ Agree(t) /\ InWeight(t, weight) /\ t.up = [d.up EXCEPT ![o] = Hide] /\ t.rec = rec
    BY <1>1, <1>2, <1>3, NodeFacts, AddChildNew
  <1>5. \A x \in Objects : t.up[x] = IF x = o THEN Hide ELSE up[x]
    BY <1>1, <1>2, <1>4
  <1>6. Leaves(t, o, extra)
    BY DEF d
  <1> HIDE DEF t
  <1>7. /\ tree' = t /\ kids' = t.kids /\ up' = t.up /\ rec' = t.rec
        /\ IsModel(search') /\ search'.depth = search.depth /\ watched' = watched \cup extra
        /\ LinkInv'
    <2>1. t.up[o] \in {None, Hide} /\ \A x \in Objects \ {o} : t.up[x] = up[x] \/ (up[x] = o /\ t.up[x] = None)
      BY <1>5
    <2> QED BY <1>1, <1>4, <1>6, <2>1, LeavesFacts
  <1>8. TreeInv'
    BY <1>4, <1>7 DEF TreeInv
  <1>9. PlaceInv'
    BY <1>4, <1>5, <1>7, NodeFacts DEF IInv, PlaceInv
  <1> QED BY <1>4, <1>5, <1>7, <1>8, <1>9, TreeTypes

\* onVisible(false)
LEMMA HideObjectKeeps ==
  ASSUME IInv, HideObject
  PROVE  IInv'
  <1> DEFINE o == Head(queue).obj
  <1>1. /\ job = Idle /\ queue # <<>> /\ Head(queue).call = "hide" /\ queue' = Tail(queue)
        /\ Leaves(AddChild(Detach(tree, o), Hide, o, FALSE), o, {})
        /\ UNCHANGED <<status, objMap, hidden, weight, job, changes, missed, orphans, renamed>>
    BY DEF HideObject, Delivers
  <1>2. TypeOK /\ job.kind = "idle" /\ watched \subseteq Objects
    BY <1>1 DEF IInv, ShapeInv, Idle, TypeOK
  <1>3. /\ o \in Objects /\ status[o] \notin {"unborn", "made", "dead"}
    <2>1. queue \in Seq(Posts)
      BY <1>2, QueueType
    <2>2. Head(queue) = queue[1] /\ 1 \in 1..Len(queue)
      BY <1>1, <2>1
    <2>3. o \in Objects /\ o \in watched /\ status[o] \notin {"unborn", "dead"}
      BY <1>1, <1>2, <2>2, QueueType DEF IInv, QueueInv
    <2> QED BY <2>3 DEF IInv, SeenInv
  <1> HIDE DEF o
  <1>4. /\ TreeInv' /\ PlaceInv' /\ LinkInv' /\ watched' = watched
        /\ IsModel(search') /\ search'.depth = search.depth
        /\ kids' \in [Nodes -> Seq(Objects)]
        /\ up' \in [Objects -> Nodes \cup {None}] /\ rec' \in [Objects -> Nodes \cup {None}]
        /\ rec' = rec /\ \A x \in Objects : up'[x] = IF x = o THEN Hide ELSE up[x]
    <2>1. watched \cup {} = watched
      OBVIOUS
    <2>2. {} \in SUBSET Objects /\ UNCHANGED <<status, objMap, weight>>
      BY <1>1
    <2>3. Leaves(AddChild(Detach(tree, o), Hide, o, FALSE), o, {})
      BY <1>1 DEF o
    <2> QED BY <1>3, <2>1, <2>2, <2>3, GoesToHide
  <1>5. QueueInv' /\ queue' \in Seq(Posts)
    BY <1>1, <1>4, DeliveredQueue
  <1>6. \A x \in Objects : x # o => (SeenHidden(queue', hidden, x) <=> SeenHidden(queue, hidden, x))
    <2>1. queue \in Seq(Posts) /\ Alternates(queue, hidden)
      BY <1>2, QueueType DEF IInv, QueueInv
    <2> QED BY <1>1, <2>1, TailPost DEF o
  <1>7. ShapeInv'
    <2>1. linked' \subseteq Nodes
      BY <1>4, NodeFacts DEF LinkInv
    <2>2. TypeOK'
      BY <1>1, <1>2, <1>4, <1>5, <2>1 DEF TypeOK, Posts, IInv, ShapeInv
    <2> QED BY <1>1, <1>4, <2>2 DEF IInv, ShapeInv
  <1>8. JobInv'
    BY <1>1, <1>2 DEF JobInv
  <1>9. SeenInv'
    BY <1>1, <1>2, <1>4, <1>6, NodeFacts DEF IInv, SeenInv
  <1>10. LivingInv'
    BY <1>1, <1>2, <1>4, NodeFacts DEF IInv, LivingInv, Alive
  <1> QED BY <1>4, <1>5, <1>7, <1>8, <1>9, <1>10 DEF IInv

\* onVisible(true), before the object itself.
LEMMA RevealStepKeeps ==
  ASSUME IInv, RevealStep
  PROVE  IInv'
  <1> DEFINE o == Head(job.list)
  <1>1. /\ job.kind = "reveal" /\ job.list # <<>>
        /\ missed' \subseteq missed
        /\ UNCHANGED <<status, objMap, hidden, weight, queue, changes, orphans, renamed>>
    BY DEF RevealStep
  <1>2. TypeOK /\ watched \subseteq Objects /\ job.list \in Seq(Objects)
        /\ job \in [kind : {"idle", "announce", "flush", "reveal", "destroy"}, list : Seq(Objects),
                    of : Objects \cup {None}]
    BY DEF IInv, ShapeInv, TypeOK
  <1>3. /\ o \in Objects /\ Tail(job.list) \in Seq(Objects)
        /\ \A x : Occurs(job.list, x) <=> x = o \/ Occurs(Tail(job.list), x)
    BY <1>1, <1>2, TailFacts
  <1>4. \A x \in Objects : x = o \/ Occurs(Tail(job.list), x) =>
          status[x] \notin {"unborn", "made", "dead"} /\ ParentName[x] # None
    BY <1>1, <1>3 DEF IInv, JobInv
  <1>5. CASE o \in hidden
    <2>1. /\ Leaves(AddChild(Detach(tree, o), Hide, o, FALSE), o, {o})
          /\ job' = [job EXCEPT !.list = Tail(job.list)]
      BY <1>5 DEF RevealStep
    <2>2. job'.kind = "reveal" /\ job'.list = Tail(job.list) /\ job'.of = job.of
          /\ job' \in [kind : {"idle", "announce", "flush", "reveal", "destroy"}, list : Seq(Objects),
                       of : Objects \cup {None}]
      BY <1>1, <1>2, <1>3, <2>1
    <2> HIDE DEF o
    <2>3. /\ TreeInv' /\ PlaceInv' /\ LinkInv' /\ watched' = watched \cup {o}
          /\ IsModel(search') /\ search'.depth = search.depth
          /\ kids' \in [Nodes -> Seq(Objects)]
          /\ up' \in [Objects -> Nodes \cup {None}] /\ rec' \in [Objects -> Nodes \cup {None}]
          /\ rec' = rec /\ \A x \in Objects : up'[x] = IF x = o THEN Hide ELSE up[x]
      <3>1. {o} \in SUBSET Objects /\ UNCHANGED <<status, objMap, weight>>
        BY <1>1, <1>3
      <3>2. Leaves(AddChild(Detach(tree, o), Hide, o, FALSE), o, {o})
        BY <2>1 DEF o
      <3>3. status[o] \notin {"unborn", "made", "dead"}
        BY <1>3, <1>4
      <3> QED BY <1>3, <3>1, <3>2, <3>3, GoesToHide
    <2>4. ShapeInv'
      <3>1. linked' \subseteq Nodes
        BY <2>3, NodeFacts DEF LinkInv
      <3>2. TypeOK'
        BY <1>1, <1>2, <1>3, <2>2, <2>3, <3>1 DEF TypeOK, IInv, ShapeInv
      <3> QED BY <1>1, <2>2, <2>3, <3>2 DEF IInv, ShapeInv
    <2>5. JobInv'
      BY <1>1, <1>4, <2>2 DEF JobInv
    <2>6. QueueInv'
      BY <1>1, <2>3 DEF IInv, QueueInv
    <2>7. SeenInv'
      <3>1. \A x \in watched' : ParentName[x] # None /\ status[x] \notin {"unborn", "made"}
        BY <1>2, <1>3, <1>4, <2>3 DEF IInv, SeenInv
      <3>2. \A x \in watched' : SeenHidden(queue, hidden, x) => up'[x] # NoAdd
        BY <1>2, <1>3, <2>3, NodeFacts DEF IInv, SeenInv
      <3>3. job.of \in watched' /\ status[job.of] # "dead" /\ up'[job.of] # NoAdd /\ ~SeenHidden(queue, hidden, job.of)
        BY <1>1, <1>2, <2>3, NodeFacts DEF IInv, SeenInv
      <3> QED BY <1>1, <2>2, <3>1, <3>2, <3>3 DEF SeenInv
    <2>8. LivingInv'
      BY <1>1, <2>2, <2>3, NodeFacts DEF IInv, LivingInv, Alive
    <2> QED BY <2>3, <2>4, <2>5, <2>6, <2>7, <2>8 DEF IInv
  <1>6. CASE o \notin hidden
    <2>1. /\ job' = [job EXCEPT !.list = Tail(job.list) \o kids[o]]
          /\ UNCHANGED <<kids, up, rec, linked, watched, search, plain>>
      BY <1>6 DEF RevealStep
    <2> HIDE DEF o
    <2>2. kids[o] \in Seq(Objects) /\ \A x \in Objects : Occurs(kids[o], x) => up[x] = o
      BY <1>2, <1>3, NodeFacts DEF TypeOK, IInv, TreeInv, tree, Agree
    <2>3. /\ Tail(job.list) \o kids[o] \in Seq(Objects)
          /\ \A x : Occurs(Tail(job.list) \o kids[o], x) <=> Occurs(Tail(job.list), x) \/ Occurs(kids[o], x)
      <3>1. Tail(job.list) \in Seq(Objects) /\ kids[o] \in Seq(Objects)
        BY <1>3, <2>2
      <3>2. ASSUME NEW p \in Seq(Objects), NEW q \in Seq(Objects)
            PROVE  p \o q \in Seq(Objects) /\ \A x : Occurs(p \o q, x) <=> Occurs(p, x) \/ Occurs(q, x)
        BY OccursInConcat, ConcatProperties
      <3> QED BY <3>1, <3>2
    <2>4. job'.kind = "reveal" /\ job'.list = Tail(job.list) \o kids[o] /\ job'.of = job.of
          /\ job' \in [kind : {"idle", "announce", "flush", "reveal", "destroy"}, list : Seq(Objects),
                       of : Objects \cup {None}]
      BY <1>1, <1>2, <2>1, <2>3
    <2>5. ShapeInv'
      <3>1. TypeOK'
        BY <1>1, <1>2, <2>1, <2>4 DEF TypeOK
      <3> QED BY <1>1, <2>1, <2>4, <3>1 DEF IInv, ShapeInv
    <2>6. TreeInv' /\ PlaceInv' /\ LinkInv' /\ QueueInv'
      BY <1>1, <2>1 DEF IInv, TreeInv, tree, Agree, InWeight, PlaceInv, LinkInv, QueueInv
    <2>7. JobInv'
      <3>1. \A x \in Objects : Occurs(kids[o], x) => status[x] \notin {"unborn", "made", "dead"} /\ ParentName[x] # None
        BY <1>3, <2>2, ChildOf
      <3> QED BY <1>1, <1>4, <2>3, <2>4, <3>1 DEF JobInv
    <2>8. SeenInv'
      BY <1>1, <2>1, <2>4 DEF IInv, SeenInv
    <2>9. LivingInv'
      BY <1>1, <2>1, <2>4 DEF IInv, LivingInv, Alive
    <2> QED BY <2>5, <2>6, <2>7, <2>8, <2>9 DEF IInv
  <1> QED BY <1>5, <1>6

\* A repeater lets go of an object.
LEMMA WithdrawKeeps ==
  ASSUME IInv, NEW o \in Objects, Withdraw(o)
  PROVE  IInv'
  <1> DEFINE t == IF rec[o] \in Known THEN Detach(tree, o) ELSE tree
             e == [call |-> "delete", obj |-> o]
  <1>1. /\ job = Idle /\ status[o] \in {"made", "known"} /\ status' = [status EXCEPT ![o] = "leaving"]
        /\ Leaves(t, o, {}) /\ queue' = Append(queue, e)
        /\ UNCHANGED <<objMap, hidden, weight, job, changes, missed, orphans, renamed>>
    BY DEF Withdraw
  <1>2. TypeOK /\ job.kind = "idle" /\ tree \in Trees /\ tree.up = up /\ tree.rec = rec
        /\ Agree(tree) /\ InWeight(tree, weight) /\ IsModel(search) /\ LinkInv
        /\ up \in [Objects -> Nodes \cup {None}] /\ status \in [Objects -> {"unborn", "made", "known", "leaving", "dead"}]
    BY <1>1, TreeType DEF IInv, ShapeInv, TreeInv, Idle, TypeOK
  <1>3. /\ t \in Trees /\ Agree(t) /\ InWeight(t, weight) /\ t.rec = rec
        /\ t.up = up \/ t.up = [up EXCEPT ![o] = None]
    BY <1>2, DetachFacts
  <1>4. t.up = up \/ \A x \in Objects : t.up[x] = IF x = o THEN None ELSE up[x]
    BY <1>2, <1>3
  <1> HIDE DEF t
  <1>5. /\ tree' = t /\ kids' = t.kids /\ up' = t.up /\ rec' = rec
        /\ IsModel(search') /\ search'.depth = search.depth /\ watched' = watched \cup {}
        /\ LinkInv'
    <2>1. t.up = up \/ t.up[o] \in {None, Hide}
      BY <1>4
    <2>2. \A x \in Objects \ {o} : t.up[x] = up[x] \/ (up[x] = o /\ t.up[x] = None)
      BY <1>4
    <2> QED BY <1>1, <1>2, <1>3, <2>1, <2>2, LeavesFacts
  <1>6. \A x \in Objects : up'[x] = up[x] \/ (x = o /\ up'[x] = None)
    BY <1>4, <1>5
  <1>7. \A x \in Objects : status'[x] = IF x = o THEN "leaving" ELSE status[x]
    BY <1>1, <1>2
  <1>8. queue' \in Seq(Posts)
    <2>1. e \in Posts
      BY DEF Posts
    <2> HIDE DEF e
    <2> QED BY <1>1, <1>2, <2>1, QueueType
  <1>9. ShapeInv'
    <2>1. linked' \subseteq Nodes
      BY <1>5, NodeFacts DEF LinkInv
    <2>2. kids' \in [Nodes -> Seq(Objects)] /\ up' \in [Objects -> Nodes \cup {None}]
      BY <1>3, <1>5, TreeTypes
    <2>3. status' \in [Objects -> {"unborn", "made", "known", "leaving", "dead"}]
      BY <1>1, <1>2
    <2>4. TypeOK'
      BY <1>1, <1>2, <1>5, <1>8, <2>1, <2>2, <2>3 DEF TypeOK, Posts
    <2> QED BY <1>1, <1>5, <2>4 DEF IInv, ShapeInv
  <1>10. TreeInv'
    BY <1>1, <1>3, <1>5 DEF TreeInv
  <1>11. PlaceInv'
    BY <1>5, <1>6, <1>7, NodeFacts DEF IInv, PlaceInv, Nodes, Own
  <1>12. JobInv'
    BY <1>1, <1>2 DEF JobInv
  <1>13. /\ Alternates(queue', hidden)
         /\ \A x \in Objects : SeenHidden(queue', hidden, x) <=> SeenHidden(queue, hidden, x)
    <2>1. queue \in Seq(Posts) /\ Alternates(queue, hidden)
      BY <1>2, QueueType DEF IInv, QueueInv
    <2> QED BY <1>1, <2>1, AppendDelete
  <1>14. QueueInv'
    <2>1. /\ Len(queue') = Len(queue) + 1 /\ queue'[Len(queue) + 1] = e
          /\ \A i \in 1..Len(queue) : queue'[i] = queue[i]
          /\ \A i \in 1..(Len(queue) + 1) : i = Len(queue) + 1 \/ i \in 1..Len(queue)
      BY <1>1, <1>2, QueueType
    <2>2. e.obj = o /\ e.call = "delete"
      OBVIOUS
    <2> HIDE DEF e
    <2>3. \A i \in 1..Len(queue) : /\ queue[i].obj \in Objects
                                   /\ queue[i].call # "delete" => queue[i].obj \in watched
                                   /\ status[queue[i].obj] \notin {"unborn", "dead"}
      BY <1>2, QueueType DEF IInv, QueueInv
    <2>4. \A i \in 1..Len(queue') : (queue'[i].call # "delete" => queue'[i].obj \in watched')
                                    /\ status'[queue'[i].obj] \notin {"unborn", "dead"}
      BY <1>5, <1>7, <2>1, <2>2, <2>3
    <2> QED BY <1>1, <1>13, <2>4 DEF QueueInv
  <1>15. SeenInv'
    <2>1. watched' = watched /\ watched \subseteq Objects /\ None # NoAdd
      BY <1>2, <1>5, NodeFacts DEF TypeOK
    <2> QED BY <1>1, <1>2, <1>6, <1>7, <1>13, <2>1 DEF IInv, SeenInv
  <1>16. LivingInv'
    <2>1. Alive' = Alive
      BY <1>1, <1>7 DEF Alive
    <2>2. None \notin Objects
      BY NodeFacts
    <2> QED BY <1>1, <1>2, <1>5, <1>6, <1>7, <2>1, <2>2 DEF IInv, LivingInv
  <1> QED BY <1>5, <1>9, <1>10, <1>11, <1>12, <1>14, <1>15, <1>16 DEF IInv

-----------------------------------------------------------------------------
(* Objects that are put where they belong.                                  *)

\* Outside a destruction the living objects are closed under owners, and what the manager
\* refers to lives.
LEMMA AliveFacts ==
  ASSUME IInv, job.kind # "destroy"
  PROVE  /\ Alive \subseteq Objects /\ objMap \in Seq(Alive)
         /\ \A x \in Alive : Owner[x] = None \/ status[x] = "leaving" \/ Owner[x] \in Alive
         /\ \A x \in Objects : rec[x] \in Objects => rec[x] \in Alive
  <1>1. TypeOK
    BY DEF IInv, ShapeInv
  <1>2. objMap \in Seq(Alive)
    <2>1. Len(objMap) \in Nat /\ objMap = [i \in 1..Len(objMap) |-> objMap[i]]
      BY <1>1 DEF TypeOK
    <2>2. \A i \in 1..Len(objMap) : objMap[i] \in Alive
      BY DEF IInv, LivingInv
    <2>3. objMap \in [1..Len(objMap) -> Alive]
      BY <2>1, <2>2
    <2> QED BY <2>1, <2>3, SeqDef
  <1>3. \A x \in Alive : Owner[x] = None \/ status[x] = "leaving" \/ Owner[x] \in Alive
    BY <1>1 DEF Alive, TypeOK, IInv, LivingInv
  <1> QED BY <1>2, <1>3 DEF Alive, IInv, LivingInv

Put(r, p, o) == IF p = None THEN AddChild(r, NoAdd, o, FALSE) ELSE AddChild(r, p, o, TRUE)

\* A child that goes to its parent, or waits for it, or is there.
LEMMA PutFacts ==
  ASSUME NEW r \in Trees, Agree(r), InWeight(r, weight), weight \in [Objects -> Nat],
         NEW o \in Objects, NEW p \in Objects \cup {Root, None}, r.up[o] = None \/ (r.up[o] = p /\ r.rec[o] = p)
  PROVE  LET t == Put(r, p, o)
         IN /\ t \in Trees /\ Agree(t) /\ InWeight(t, weight)
            /\ \A x \in Objects \ {o} : t.up[x] = r.up[x] /\ t.rec[x] = r.rec[x]
            /\ p = None => t.up[o] = NoAdd /\ t.rec[o] = r.rec[o]
            /\ p # None => t.up[o] = p /\ t.rec[o] = p
            /\ r.up[o] # None => t = r
  <1> DEFINE c == AddChild(r, NoAdd, o, FALSE)
             d == AddChild(r, p, o, TRUE)
  <1> USE DEF Put
  <1>1. r.up \in [Objects -> Nodes \cup {None}] /\ r.rec \in [Objects -> Nodes \cup {None}]
    BY DEF Trees
  <1>2. NoAdd \in Nodes /\ None \notin Nodes /\ Objects \cup {Root} \subseteq Nodes
    BY NodeFacts
  <1>3. CASE r.up[o] = None /\ p = None
    <2>1. c \in Trees /\ Agree(c) /\ InWeight(c, weight) /\ c.up = [r.up EXCEPT ![o] = NoAdd] /\ c.rec = r.rec
      <3>1. c \in Trees /\ Agree(c) /\ InWeight(c, weight)
        BY <1>2, <1>3, AddChildNew
      <3>2. ~\E i \in DOMAIN r.kids[NoAdd] : r.kids[NoAdd][i] = o
        <4>1. ~Occurs(r.kids[NoAdd], o) /\ r.kids[NoAdd] \in Seq(Objects)
          BY <1>2, <1>3, NodeFacts DEF Agree, Trees
        <4> QED BY <4>1 DEF Occurs
      <3>3. c.up = [r.up EXCEPT ![o] = NoAdd] /\ c.rec = r.rec
        BY <3>2 DEF AddChild
      <3> QED BY <3>1, <3>3
    <2> HIDE DEF c
    <2>2. /\ \A x \in Objects \ {o} : c.up[x] = r.up[x] /\ c.rec[x] = r.rec[x]
          /\ c.up[o] = NoAdd /\ c.rec[o] = r.rec[o]
      BY <1>1, <2>1
    <2> QED BY <1>3, <2>1, <2>2 DEF c
  <1>4. CASE r.up[o] = None /\ p # None
    <2>1. p \in Nodes
      BY <1>2, <1>4
    <2>2. d \in Trees /\ Agree(d) /\ InWeight(d, weight)
          /\ d.up = [r.up EXCEPT ![o] = p] /\ d.rec = [r.rec EXCEPT ![o] = p]
      <3>1. d \in Trees /\ Agree(d) /\ InWeight(d, weight)
        BY <1>4, <2>1, AddChildNew
      <3>2. ~\E i \in DOMAIN r.kids[p] : r.kids[p][i] = o
        <4>1. ~Occurs(r.kids[p], o) /\ r.kids[p] \in Seq(Objects)
          BY <1>4, <2>1, NodeFacts DEF Agree, Trees
        <4> QED BY <4>1 DEF Occurs
      <3>3. d.up = [r.up EXCEPT ![o] = p] /\ d.rec = [r.rec EXCEPT ![o] = p]
        BY <3>2 DEF AddChild
      <3> QED BY <3>1, <3>3
    <2> HIDE DEF d
    <2>3. /\ \A x \in Objects \ {o} : d.up[x] = r.up[x] /\ d.rec[x] = r.rec[x]
          /\ d.up[o] = p /\ d.rec[o] = p
      BY <1>1, <2>2
    <2> QED BY <1>4, <2>2, <2>3 DEF d
  <1>5. CASE r.up[o] # None
    <2>1. p \in Nodes /\ r.up[o] = p /\ p # None
      BY <1>2, <1>5
    <2>2. d = r
      BY <2>1, AddChildThere
    <2> HIDE DEF d
    <2> QED BY <1>5, <2>1, <2>2 DEF d
  <1> QED BY <1>3, <1>4, <1>5

\* addObjectToParent of an object that is in no list, or where it belongs.
LEMMA BelongsFacts ==
  ASSUME NEW A, A \subseteq Objects, NEW o \in A,
         \A x \in A : Owner[x] = None \/ status[x] = "leaving" \/ Owner[x] \in A,
         NEW r \in Trees, Agree(r), InWeight(r, weight), weight \in [Objects -> Nat],
         NEW map \in Seq(A), r.rec[o] \in Objects => r.rec[o] \in A,
         r.up[o] = None \/ (r.up[o] \in Objects \cup {Root} /\ r.rec[o] = r.up[o] /\ r.up[o] \in Named(o))
  PROVE  LET t == AddToParent(r, map, o)
         IN /\ t \in Trees /\ Agree(t) /\ InWeight(t, weight)
            /\ \A x \in Objects \ {o} : t.up[x] = r.up[x] /\ t.rec[x] = r.rec[x]
            /\ r.up[o] # None => t = r
            /\ \/ t.up[o] = NoAdd /\ t.rec[o] = r.rec[o] /\ FindParent(r, map, o) = None
               \/ /\ t.up[o] \in A \cup {Root} /\ t.up[o] \in Named(o) /\ t.rec[o] = t.up[o]
                  /\ t.up[o] = FindParent(r, map, o)
  <1> DEFINE p == FindParent(r, map, o)
             t == AddToParent(r, map, o)
  <1>1. p = None \/ (p \in Named(o) /\ p \in A \cup {Root})
    BY FindParentFacts
  <1>2. r.rec[o] \in Named(o) => p = r.rec[o]
    BY FindParentFacts
  <1>3. t = Put(r, p, o)
    BY DEF AddToParent, Put
  <1>4. p \in Objects \cup {Root, None} /\ o \in Objects /\ A \subseteq Objects
    BY <1>1
  <1>5. r.up[o] = None \/ (r.up[o] = p /\ r.rec[o] = p)
    BY <1>2
  <1>6. r \in Trees /\ Agree(r) /\ InWeight(r, weight) /\ weight \in [Objects -> Nat]
    OBVIOUS
  <1> HIDE DEF p, t
  <1>7. /\ t \in Trees /\ Agree(t) /\ InWeight(t, weight)
        /\ \A x \in Objects \ {o} : t.up[x] = r.up[x] /\ t.rec[x] = r.rec[x]
        /\ p = None => t.up[o] = NoAdd /\ t.rec[o] = r.rec[o]
        /\ p # None => t.up[o] = p /\ t.rec[o] = p
        /\ r.up[o] # None => t = r
    BY ONLY <1>3, <1>4, <1>5, <1>6, PutFacts
  <1>8. \/ t.up[o] = NoAdd /\ t.rec[o] = r.rec[o] /\ p = None
        \/ t.up[o] \in A \cup {Root} /\ t.up[o] \in Named(o) /\ t.rec[o] = t.up[o] /\ t.up[o] = p
    BY ONLY <1>1, <1>7
  <1> QED BY ONLY <1>7, <1>8 DEF t, p

\* What holds of the tree when an object has come to a node where it may be.
LEMMA ComesKeeps ==
  ASSUME IInv, NEW o \in Objects, NEW t \in Trees, NEW extra \in SUBSET Objects,
         Agree(t), InWeight(t, weight), Comes(t, o, extra), weight' = weight,
         \A x \in Objects \ {o} : t.up[x] = up[x] /\ t.rec[x] = rec[x] /\ status'[x] = status[x],
         t.up[o] = up[o] \/ up[o] \notin Objects \cup {Root},
         status'[o] \notin {"unborn", "made", "dead"},
         t.up[o] \in Objects \cup {Root} => t.rec[o] = t.up[o] /\ t.up[o] \in Named(o),
         t.up[o] = NoParent => ParentName[o] = None
  PROVE  /\ TreeInv' /\ PlaceInv' /\ LinkInv'
         /\ kids' = t.kids /\ up' = t.up /\ rec' = t.rec
         /\ kids' \in [Nodes -> Seq(Objects)]
         /\ up' \in [Objects -> Nodes \cup {None}] /\ rec' \in [Objects -> Nodes \cup {None}]
         /\ IsModel(search') /\ search'.depth = search.depth
         /\ watched \cup extra \subseteq watched' /\ watched' \subseteq Objects /\ linked' \subseteq Nodes
         /\ \A x \in watched' : \/ x \in watched \/ x \in extra
                                \/ /\ ParentName[x] # None /\ status'[x] \notin {"unborn", "made", "dead"}
                                   /\ up'[x] # NoAdd
  <1>1. TypeOK /\ IsModel(search) /\ LinkInv
    BY DEF IInv, ShapeInv
  <1>2. /\ tree' = t /\ kids' = t.kids /\ up' = t.up /\ rec' = t.rec
        /\ IsModel(search') /\ search'.depth = search.depth
        /\ watched \cup extra \subseteq watched' /\ watched' \subseteq Objects
        /\ \A x \in watched' : x \in watched \/ x \in extra \/ t.up[x] \in Objects \cup {Root}
        /\ LinkInv'
    BY <1>1, ComesFacts
  <1>3. TreeInv'
    BY <1>2 DEF TreeInv
  <1>4. PlaceInv'
    BY <1>2 DEF IInv, PlaceInv
  <1>5. linked' \subseteq Nodes
    BY <1>2, NodeFacts DEF LinkInv
  <1>6. ASSUME NEW x \in watched', up'[x] \in Objects \cup {Root}
        PROVE  ParentName[x] # None /\ status'[x] \notin {"unborn", "made", "dead"} /\ up'[x] # NoAdd
    <2>1. up'[x] # None /\ up'[x] # NoAdd /\ x \in Objects
      BY <1>2, <1>6, NodeFacts
    <2>2. up'[x] \in Named(x) /\ status'[x] \notin {"unborn", "made", "dead"}
      BY <1>4, <1>6, <2>1 DEF PlaceInv
    <2> QED BY <2>1, <2>2, NamedFacts
  <1> QED BY <1>2, <1>3, <1>4, <1>5, <1>6, TreeTypes

\* onVisible(true) ends with the object itself.
LEMMA EndRevealKeeps ==
  ASSUME IInv, EndReveal
  PROVE  IInv'
  <1> DEFINE o == job.of
             r == RemoveChild(tree, Hide, o)
             t == AddToParent(r, objMap, o)
  <1>1. /\ job.kind = "reveal" /\ job' = Idle /\ Comes(t, o, {})
        /\ UNCHANGED <<status, objMap, hidden, weight, queue, changes, missed, orphans, renamed>>
    BY DEF EndReveal
  <1>2. /\ TypeOK /\ tree \in Trees /\ tree.up = up /\ tree.rec = rec /\ weight \in [Objects -> Nat]
        /\ Agree(tree) /\ InWeight(tree, weight) /\ watched \subseteq Objects
        /\ up \in [Objects -> Nodes \cup {None}] /\ status \in [Objects -> {"unborn", "made", "known", "leaving", "dead"}]
    BY TreeType DEF IInv, ShapeInv, TreeInv, TypeOK
  <1>3. /\ o \in Objects /\ o \in watched /\ ParentName[o] # None
        /\ status[o] \notin {"unborn", "made", "dead"}
        /\ up[o] # NoAdd /\ ~SeenHidden(queue, hidden, o) /\ o \in Alive
    BY <1>1, <1>2 DEF IInv, SeenInv, Alive
  <1> HIDE DEF o
  <1>4. up[o] \in {None, Hide} \cup Objects \cup {Root}
    BY <1>2, <1>3 DEF IInv, PlaceInv, Nodes, Own
  <1>5. /\ r \in Trees /\ Agree(r) /\ InWeight(r, weight) /\ r.rec = rec
        /\ r.up = IF up[o] = Hide THEN [up EXCEPT ![o] = None] ELSE up
    <2>1. CASE up[o] = Hide
      <3>1. Hide \in Nodes /\ tree.up[o] = Hide /\ o \in Objects /\ tree \in Trees /\ Agree(tree)
        BY <1>2, <1>3, <2>1, NodeFacts
      <3>2. r \in Trees /\ Agree(r) /\ r.rec = tree.rec /\ r.up = [tree.up EXCEPT ![o] = None]
        BY ONLY <3>1, RemoveChildThere
      <3>3. InWeight(r, weight)
        BY <1>2, <1>3, <3>1, RemoveChildThere, ZenonT(60)
      <3> QED BY <1>2, <2>1, <3>2, <3>3
    <2>2. CASE up[o] # Hide
      <3>1. r = tree
        BY <1>2, <1>3, <2>2, NodeFacts, RemoveChildNotThere
      <3> QED BY <1>2, <2>2, <3>1
    <2> QED BY <2>1, <2>2
  <1>6. /\ \A x \in Objects \ {o} : r.up[x] = up[x]
        /\ up[o] \in {None, Hide} => r.up[o] = None
        /\ up[o] \notin {None, Hide} => r.up[o] = up[o]
    BY <1>2, <1>3, <1>5
  <1> HIDE DEF r
  <1>7. r.up[o] = None \/ (r.up[o] \in Objects \cup {Root} /\ r.rec[o] = r.up[o] /\ r.up[o] \in Named(o))
    BY <1>3, <1>4, <1>5, <1>6, ChildOf
  <1>8. /\ t \in Trees /\ Agree(t) /\ InWeight(t, weight)
        /\ \A x \in Objects \ {o} : t.up[x] = r.up[x] /\ t.rec[x] = r.rec[x]
        /\ \/ t.up[o] = NoAdd /\ t.rec[o] = r.rec[o] /\ FindParent(r, objMap, o) = None
           \/ t.up[o] \in Alive \cup {Root} /\ t.up[o] \in Named(o) /\ t.rec[o] = t.up[o]
    <2>1. /\ Alive \subseteq Objects /\ objMap \in Seq(Alive)
          /\ \A x \in Alive : Owner[x] = None \/ status[x] = "leaving" \/ Owner[x] \in Alive
          /\ r.rec[o] \in Objects => r.rec[o] \in Alive
      BY <1>1, <1>3, <1>5, AliveFacts
    <2>2. o \in Alive /\ r \in Trees /\ Agree(r) /\ InWeight(r, weight) /\ weight \in [Objects -> Nat]
      BY <1>2, <1>3, <1>5
    <2> HIDE DEF t
    <2>3. LET c == AddToParent(r, objMap, o)
          IN /\ c \in Trees /\ Agree(c) /\ InWeight(c, weight)
             /\ \A x \in Objects \ {o} : c.up[x] = r.up[x] /\ c.rec[x] = r.rec[x]
             /\ \/ c.up[o] = NoAdd /\ c.rec[o] = r.rec[o] /\ FindParent(r, objMap, o) = None
                \/ c.up[o] \in Alive \cup {Root} /\ c.up[o] \in Named(o) /\ c.rec[o] = c.up[o]
      BY ONLY <1>7, <2>1, <2>2, BelongsFacts, SMTT(30)
    <2> QED BY <2>3 DEF t
  <1>9. Alive \subseteq Objects
    BY DEF Alive
  <1>10. t.up[o] = up[o] \/ up[o] \notin Objects \cup {Root}
    <2>1. CASE up[o] \in {None, Hide}
      BY <2>1, NodeFacts
    <2>2. CASE up[o] \notin {None, Hide}
      <3>1. r.up[o] = up[o] /\ rec[o] = up[o] /\ up[o] \in Named(o) /\ up[o] # None
        BY <1>3, <1>4, <1>5, <1>6, <2>2, ChildOf
      <3>2. FindParent(r, objMap, o) = up[o]
        BY <1>1, <1>3, <1>5, <1>9, <3>1, AliveFacts, FindParentFacts
      <3>3. t = AddChild(r, up[o], o, TRUE) /\ up[o] \in Nodes
        BY <1>2, <1>3, <3>1, <3>2 DEF AddToParent
      <3>4. t = r
        BY <1>3, <1>5, <3>1, <3>3, AddChildThere
      <3> QED BY <3>1, <3>4
    <2> QED BY <2>1, <2>2
  <1> HIDE DEF t
  <1>11. NoAdd \notin Objects \cup {Root} /\ NoAdd # NoParent /\ NoParent \notin Objects \cup {Root}
    BY NodeFacts
  <1>12. /\ TreeInv' /\ PlaceInv' /\ LinkInv'
         /\ up' = t.up /\ rec' = t.rec
         /\ kids' \in [Nodes -> Seq(Objects)]
         /\ up' \in [Objects -> Nodes \cup {None}] /\ rec' \in [Objects -> Nodes \cup {None}]
         /\ IsModel(search') /\ search'.depth = search.depth
         /\ watched \cup {} \subseteq watched' /\ watched' \subseteq Objects /\ linked' \subseteq Nodes
         /\ \A x \in watched' : \/ x \in watched \/ x \in {}
                                \/ /\ ParentName[x] # None /\ status'[x] \notin {"unborn", "made", "dead"}
                                   /\ up'[x] # NoAdd
    <2>1. \A x \in Objects \ {o} : t.up[x] = up[x] /\ t.rec[x] = rec[x] /\ status'[x] = status[x]
      BY <1>1, <1>5, <1>6, <1>8
    <2>2. /\ t.up[o] \in Objects \cup {Root} => t.rec[o] = t.up[o] /\ t.up[o] \in Named(o)
          /\ t.up[o] = NoParent => ParentName[o] = None
      BY <1>8, <1>9, <1>11
    <2>3. {} \in SUBSET Objects /\ weight' = weight /\ status'[o] \notin {"unborn", "made", "dead"}
      BY <1>1, <1>3
    <2> QED BY <1>1, <1>3, <1>8, <1>10, <2>1, <2>2, <2>3, ComesKeeps
  <1>13. ShapeInv'
    <2>1. TypeOK'
      BY <1>1, <1>2, <1>12 DEF TypeOK, Idle, IInv, ShapeInv
    <2> QED BY <1>1, <1>12, <2>1 DEF IInv, ShapeInv, Idle
  <1>14. JobInv'
    BY <1>1 DEF JobInv, Idle
  <1>15. QueueInv'
    BY <1>1, <1>12 DEF IInv, QueueInv
  <1>16. SeenInv'
    <2>1. \A x \in watched : x # o => up'[x] = up[x]
      BY <1>2, <1>6, <1>8, <1>12
    <2> QED BY <1>1, <1>3, <1>12, <2>1 DEF IInv, SeenInv, Idle
  <1>17. LivingInv'
    <2>1. \A x \in Objects : /\ up'[x] \in Objects => up'[x] \in Alive
                             /\ rec'[x] \in Objects => rec'[x] \in Alive
      <3>1. \A x \in Objects \ {o} : up'[x] = up[x] /\ rec'[x] = rec[x]
        BY <1>5, <1>6, <1>8, <1>12
      <3>2. up'[o] \in Objects => up'[o] \in Alive
        BY <1>8, <1>11, <1>12, NodeFacts
      <3>3. rec'[o] \in Objects => rec'[o] \in Alive
        BY <1>3, <1>5, <1>8, <1>11, <1>12, NodeFacts DEF IInv, LivingInv
      <3> QED BY <3>1, <3>2, <3>3 DEF IInv, LivingInv
    <2> QED BY <1>1, <2>1 DEF IInv, LivingInv, Alive, Idle
  <1> QED BY <1>12, <1>13, <1>14, <1>15, <1>16, <1>17 DEF IInv

\* addObject takes one object of those it was given.
LEMMA AnnounceStepKeeps ==
  ASSUME IInv, AnnounceStep
  PROVE  IInv'
  <1> DEFINE o == Head(job.list)
             map == IF Name[o] = None THEN objMap ELSE Append(objMap, o)
             hides == o \in hidden \/ (ParentName[o] # None /\ o \in ConfigHidden)
             t == IF ParentName[o] = None THEN AddChild(tree, NoParent, o, FALSE)
                  ELSE IF hides THEN AddChild(tree, Hide, o, FALSE) ELSE AddToParent(tree, map, o)
             extra == IF ParentName[o] # None /\ hides THEN {o} ELSE {}
  <1>1. /\ job.kind = "announce" /\ job.list # <<>>
        /\ status' = [status EXCEPT ![o] = "known"] /\ objMap' = map
        /\ Comes(t, o, extra)
        /\ hidden' = IF ParentName[o] # None /\ hides THEN hidden \cup {o} ELSE hidden
        /\ missed' = missed \ {o}
        /\ job' = [job EXCEPT !.list = Tail(job.list) \o Owned(o)]
        /\ UNCHANGED <<weight, queue, changes, orphans, renamed>>
    BY DEF AnnounceStep
  <1>2. /\ TypeOK /\ tree \in Trees /\ tree.up = up /\ tree.rec = rec /\ weight \in [Objects -> Nat]
        /\ Agree(tree) /\ InWeight(tree, weight) /\ watched \subseteq Objects
        /\ up \in [Objects -> Nodes \cup {None}] /\ rec \in [Objects -> Nodes \cup {None}]
        /\ status \in [Objects -> {"unborn", "made", "known", "leaving", "dead"}]
        /\ job.list \in Seq(Objects)
        /\ job \in [kind : {"idle", "announce", "flush", "reveal", "destroy"}, list : Seq(Objects),
                    of : Objects \cup {None}]
    BY TreeType DEF IInv, ShapeInv, TreeInv, TypeOK
  <1>3. /\ o \in Objects /\ Tail(job.list) \in Seq(Objects)
        /\ \A x : Occurs(job.list, x) <=> x = o \/ Occurs(Tail(job.list), x)
        /\ Distinct(Tail(job.list)) /\ ~Occurs(Tail(job.list), o)
    BY <1>1, <1>2, TailFacts DEF IInv, JobInv
  <1>4. /\ status[o] = "made" /\ up[o] = None /\ o \notin watched /\ o \in Alive
        /\ Owner[o] = None \/ status[Owner[o]] # "made"
    BY <1>1, <1>3 DEF IInv, JobInv, PlaceInv, SeenInv, Alive
  <1> HIDE DEF o
  <1>5. \A x \in Objects : status'[x] = IF x = o THEN "known" ELSE status[x]
    BY <1>1, <1>2
  <1>6. Alive' = Alive /\ Alive \subseteq Objects
    BY <1>1, <1>4, <1>5 DEF Alive
  <1>7. map \in Seq(Alive)
    BY <1>1, <1>4, AliveFacts
  <1>8. NoAdd \notin Objects \cup {Root} /\ NoAdd # NoParent /\ NoParent \notin Objects \cup {Root}
        /\ Hide \notin Objects \cup {Root} /\ Hide # NoParent /\ None \notin Objects \cup {Root}
        /\ NoParent \in Nodes /\ Hide \in Nodes /\ Hide # NoAdd
    BY NodeFacts
  <1>9. /\ t \in Trees /\ Agree(t) /\ InWeight(t, weight)
        /\ \A x \in Objects \ {o} : t.up[x] = up[x] /\ t.rec[x] = rec[x]
        /\ \/ t.up[o] = NoParent /\ t.rec[o] = rec[o] /\ ParentName[o] = None
           \/ t.up[o] = Hide /\ t.rec[o] = rec[o] /\ ParentName[o] # None
           \/ t.up[o] = NoAdd /\ t.rec[o] = rec[o] /\ extra = {}
           \/ t.up[o] \in Alive \cup {Root} /\ t.up[o] \in Named(o) /\ t.rec[o] = t.up[o] /\ extra = {}
    <2>1. ASSUME NEW n \in {NoParent, Hide}, NEW c, c = AddChild(tree, n, o, FALSE)
          PROVE  /\ c \in Trees /\ Agree(c) /\ InWeight(c, weight)
                 /\ \A x \in Objects \ {o} : c.up[x] = up[x] /\ c.rec[x] = rec[x]
                 /\ c.up[o] = n /\ c.rec[o] = rec[o]
      <3> DEFINE d == AddChild(tree, n, o, FALSE)
      <3>1. n \in Nodes /\ tree.up[o] = None
        BY <1>2, <1>4, <1>8
      <3>2. d \in Trees /\ Agree(d) /\ InWeight(d, weight) /\ d.up = [tree.up EXCEPT ![o] = n] /\ d.rec = tree.rec
        <4>1. d \in Trees /\ Agree(d) /\ InWeight(d, weight)
          BY <1>2, <1>3, <3>1, AddChildNew
        <4>2. ~\E i \in DOMAIN tree.kids[n] : tree.kids[n][i] = o
          <5>1. ~Occurs(tree.kids[n], o) /\ tree.kids[n] \in Seq(Objects)
            BY <1>2, <1>3, <3>1, NodeFacts DEF Agree, Trees
          <5> QED BY <5>1 DEF Occurs
        <4>3. d.up = [tree.up EXCEPT ![o] = n] /\ d.rec = tree.rec
          BY <4>2 DEF AddChild
        <4> QED BY <4>1, <4>3
      <3> HIDE DEF d
      <3>3. c = d
        BY <2>1 DEF d
      <3> QED BY <1>2, <1>3, <3>2, <3>3
    <2>2. CASE ParentName[o] = None
      <3>1. t = AddChild(tree, NoParent, o, FALSE)
        BY <2>2
      <3> HIDE DEF t, extra
      <3> QED BY <2>1, <2>2, <3>1
    <2>3. CASE ParentName[o] # None /\ hides
      <3>1. t = AddChild(tree, Hide, o, FALSE)
        BY <2>3
      <3> HIDE DEF t, extra
      <3> QED BY <2>1, <2>3, <3>1
    <2>4. CASE ParentName[o] # None /\ ~hides
      <3>1. t = AddToParent(tree, map, o) /\ extra = {}
        BY <2>4
      <3> HIDE DEF t, extra, map, hides
      <3>2. /\ \A x \in Alive : Owner[x] = None \/ status[x] = "leaving" \/ Owner[x] \in Alive
            /\ tree.rec[o] \in Objects => tree.rec[o] \in Alive
        BY <1>1, <1>2, <1>3, AliveFacts
      <3>3. tree.up[o] = None /\ tree \in Trees /\ Agree(tree) /\ InWeight(tree, weight) /\ weight \in [Objects -> Nat]
        BY <1>2, <1>4
      <3> DEFINE A == Alive
                 r == tree
      <3>4. /\ A \in SUBSET Objects /\ o \in A
            /\ \A x \in A : Owner[x] = None \/ status[x] = "leaving" \/ Owner[x] \in A
            /\ r \in Trees /\ Agree(r) /\ InWeight(r, weight) /\ weight \in [Objects -> Nat]
            /\ map \in Seq(A) /\ (r.rec[o] \in Objects => r.rec[o] \in A) /\ r.up[o] = None
        BY <1>4, <1>6, <1>7, <3>2, <3>3
      <3>5. \A x \in Objects : r.up[x] = up[x] /\ r.rec[x] = rec[x]
        BY <1>2
      <3> HIDE DEF A, r
      <3> DEFINE c == AddToParent(r, map, o)
      <3>6. /\ c \in Trees /\ Agree(c) /\ InWeight(c, weight)
            /\ \A x \in Objects \ {o} : c.up[x] = r.up[x] /\ c.rec[x] = r.rec[x]
            /\ \/ c.up[o] = NoAdd /\ c.rec[o] = r.rec[o]
               \/ c.up[o] \in A \cup {Root} /\ c.up[o] \in Named(o) /\ c.rec[o] = c.up[o]
        BY ONLY <3>4, BelongsFacts, SMTT(30)
      <3>7. t = c /\ extra = {}
        BY <3>1 DEF r
      <3>8. o \in Objects /\ A = Alive
        BY <1>3 DEF A
      <3> HIDE DEF c
      <3> QED BY ONLY <3>5, <3>6, <3>7, <3>8
    <2> QED BY <2>2, <2>3, <2>4
  <1>10. extra \in SUBSET Objects /\ (extra = {} \/ (extra = {o} /\ ParentName[o] # None /\ t.up[o] = Hide))
    <2>1. CASE ParentName[o] # None /\ hides
      <3>1. extra = {o} /\ ParentName[o] # None
        BY <2>1
      <3> HIDE DEF t, extra
      <3> QED BY <1>3, <1>9, <3>1
    <2>2. CASE ~(ParentName[o] # None /\ hides)
      BY <2>2
    <2> QED BY <2>1, <2>2
  <1>11. \A x \in Objects \ {o} : x \in hidden' <=> x \in hidden
    BY <1>1
  <1>12. hidden' \subseteq Objects
    BY <1>1, <1>2, <1>3 DEF TypeOK
  <1> HIDE DEF t, extra, map, hides
  <1>13. /\ TreeInv' /\ PlaceInv' /\ LinkInv'
         /\ up' = t.up /\ rec' = t.rec
         /\ kids' \in [Nodes -> Seq(Objects)]
         /\ up' \in [Objects -> Nodes \cup {None}] /\ rec' \in [Objects -> Nodes \cup {None}]
         /\ IsModel(search') /\ search'.depth = search.depth
         /\ watched \cup extra \subseteq watched' /\ watched' \subseteq Objects /\ linked' \subseteq Nodes
         /\ \A x \in watched' : \/ x \in watched \/ x \in extra
                                \/ /\ ParentName[x] # None /\ status'[x] \notin {"unborn", "made", "dead"}
                                   /\ up'[x] # NoAdd
    <2>1. \A x \in Objects \ {o} : t.up[x] = up[x] /\ t.rec[x] = rec[x] /\ status'[x] = status[x]
      BY <1>5, <1>9
    <2>2. /\ t.up[o] \in Objects \cup {Root} => t.rec[o] = t.up[o] /\ t.up[o] \in Named(o)
          /\ t.up[o] = NoParent => ParentName[o] = None
      BY <1>6, <1>8, <1>9
    <2>3. weight' = weight /\ status'[o] \notin {"unborn", "made", "dead"} /\ up[o] \notin Objects \cup {Root}
      BY <1>1, <1>3, <1>4, <1>5, <1>8
    <2> QED BY <1>1, <1>3, <1>9, <1>10, <2>1, <2>2, <2>3, ComesKeeps
  <1>14. /\ Owned(o) \in Seq(Objects) /\ Distinct(Owned(o))
         /\ \A x : Occurs(Owned(o), x) <=> x \in Objects /\ Owner[x] = o /\ status[x] = "made"
    <2> DEFINE S == {c \in Objects : Owner[c] = o /\ status[c] = "made"}
    <2>1. S \subseteq Objects /\ Owned(o) = Listed(S)
      BY DEF Owned
    <2>2. /\ Listed(S) \in Seq(S) /\ Distinct(Listed(S))
          /\ \A x : Occurs(Listed(S), x) <=> x \in S
      BY <2>1, ListedFacts
    <2>3. \A x : x \in S <=> x \in Objects /\ Owner[x] = o /\ status[x] = "made"
      OBVIOUS
    <2> HIDE DEF S
    <2>4. Owned(o) \in Seq(Objects)
      BY <2>1, <2>2
    <2> QED BY <2>1, <2>2, <2>3, <2>4
  <1> DEFINE list == Tail(job.list) \o Owned(o)
  <1>15. \A x \in Objects : Occurs(Tail(job.list), x) =>
           status[x] = "made" /\ x # o /\ (Owner[x] = None \/ status[Owner[x]] # "made")
    BY <1>1, <1>3 DEF IInv, JobInv
  <1>16. /\ list \in Seq(Objects) /\ Distinct(list)
         /\ \A x : Occurs(list, x) <=> Occurs(Tail(job.list), x) \/ Occurs(Owned(o), x)
    <2>1. ASSUME NEW p \in Seq(Objects), NEW q \in Seq(Objects)
          PROVE  p \o q \in Seq(Objects) /\ \A x : Occurs(p \o q, x) <=> Occurs(p, x) \/ Occurs(q, x)
      BY OccursInConcat, ConcatProperties
    <2>2. \A x : ~(Occurs(Tail(job.list), x) /\ Occurs(Owned(o), x))
      <3>1. o # None
        BY <1>3, <1>8
      <3> QED BY <1>4, <1>14, <1>15, <3>1
    <2>3. Distinct(list)
      BY <1>3, <1>14, <2>2, ConcatDistinct
    <2> QED BY <1>3, <1>14, <2>1, <2>3
  <1> HIDE DEF list
  <1>17. /\ job'.kind = "announce" /\ job'.list = list
         /\ job' \in [kind : {"idle", "announce", "flush", "reveal", "destroy"}, list : Seq(Objects),
                      of : Objects \cup {None}]
    BY <1>1, <1>2, <1>16 DEF list
  <1>18. ShapeInv'
    <2>1. objMap' \in Seq(Objects)
      BY <1>1, <1>6, <1>7
    <2>2. status' \in [Objects -> {"unborn", "made", "known", "leaving", "dead"}]
      BY <1>1, <1>2
    <2>3. missed' \subseteq Objects
      BY <1>1, <1>2 DEF TypeOK
    <2>4. TypeOK'
      BY <1>1, <1>2, <1>12, <1>13, <1>17, <2>1, <2>2, <2>3 DEF TypeOK, IInv, ShapeInv
    <2> QED BY <1>1, <1>13, <1>17, <2>4 DEF IInv, ShapeInv
  <1>19. JobInv'
    <2>1. ASSUME NEW x \in Objects, Occurs(list, x)
          PROVE  status'[x] = "made" /\ (Owner[x] = None \/ status'[Owner[x]] # "made")
      <3>1. Owner[x] \in Objects \cup {None} /\ None \notin Objects
        BY <1>8, ObjectAssumption
      <3>2. CASE Occurs(Tail(job.list), x)
        BY <1>5, <1>15, <3>1, <3>2
      <3>3. CASE Occurs(Owned(o), x)
        <4>1. Owner[x] = o /\ status[x] = "made" /\ x # o
          BY <1>3, <1>4, <1>8, <1>14, <3>3
        <4> QED BY <1>3, <1>5, <4>1
      <3> QED BY <1>16, <2>1, <3>2, <3>3
    <2> QED BY <1>16, <1>17, <2>1 DEF JobInv
  <1>20. \A i \in 1..Len(queue) : /\ queue[i].obj \in Objects
                                  /\ queue[i].call # "delete" => queue[i].obj \in watched /\ queue[i].obj # o
    BY <1>2, <1>4, QueueType, ZenonT(60) DEF IInv, QueueInv
  <1>21. \A x \in watched : x # o /\ (SeenHidden(queue, hidden', x) <=> SeenHidden(queue, hidden, x))
    BY <1>2, <1>4, <1>11 DEF SeenHidden
  <1>22. QueueInv'
    <2>1. Alternates(queue, hidden')
      BY <1>11, <1>20 DEF Alternates, IInv, QueueInv
    <2>2. \A i \in 1..Len(queue) : /\ queue[i].call # "delete" => queue[i].obj \in watched'
                                   /\ status'[queue[i].obj] \notin {"unborn", "dead"}
      BY <1>5, <1>13, <1>20 DEF IInv, QueueInv
    <2> QED BY <1>1, <2>1, <2>2 DEF QueueInv
  <1>23. SeenInv'
    <2>1. ASSUME NEW x \in watched'
          PROVE  /\ ParentName[x] # None /\ status'[x] \notin {"unborn", "made"}
                 /\ SeenHidden(queue, hidden', x) => up'[x] # NoAdd
      <3>1. CASE x \in watched
        BY <1>2, <1>5, <1>9, <1>13, <1>21, <3>1 DEF IInv, SeenInv
      <3>2. CASE x \in extra
        BY <1>3, <1>5, <1>8, <1>10, <1>13, <3>2
      <3> QED BY <1>13, <3>1, <3>2
    <2> QED BY <1>1, <1>17, <2>1 DEF SeenInv
  <1>24. LivingInv'
    <2>1. \A x \in Objects : up'[x] \in Objects => up'[x] \in Alive
      <3>1. \A x \in Objects : up[x] \in Objects => up[x] \in Alive
        BY DEF IInv, LivingInv
      <3>2. \A x \in Objects : up'[x] = up[x] \/ up'[x] \notin Objects \/ up'[x] \in Alive
        BY <1>2, <1>3, <1>8, <1>9, <1>13, <3>1, NodeFacts
      <3> QED BY <3>1, <3>2
    <2>2. \A x \in Objects : rec'[x] \in Objects => rec'[x] \in Alive
      <3>1. \A x \in Objects : rec[x] \in Objects => rec[x] \in Alive
        BY DEF IInv, LivingInv
      <3>2. \A x \in Objects : rec'[x] = rec[x] \/ rec'[x] \notin Objects \/ rec'[x] \in Alive
        BY <1>2, <1>3, <1>8, <1>9, <1>13, <3>1, NodeFacts
      <3> QED BY <3>1, <3>2
    <2>3. \A i \in 1..Len(objMap') : objMap'[i] \in Alive
      BY <1>1, <1>7
    <2>4. \A x \in Objects : status'[x] \in {"made", "known"} => Owner[x] = None \/ Owner[x] \in Alive
      BY <1>1, <1>4, <1>5 DEF IInv, LivingInv
    <2> QED BY <1>6, <2>1, <2>2, <2>3, <2>4 DEF LivingInv
  <1> QED BY <1>13, <1>18, <1>19, <1>22, <1>23, <1>24 DEF IInv

\* addObject looks at one object that waits.
LEMMA FlushKeeps ==
  ASSUME IInv, FlushStep
  PROVE  IInv'
  <1> DEFINE o == Head(job.list)
             p == FindParent(tree, objMap, o)
             r == RemoveChild(tree, NoAdd, o)
             t == AddChild(r, p, o, TRUE)
  <1>1. /\ job.kind = "flush" /\ job.list # <<>>
        /\ UNCHANGED <<status, objMap, hidden, weight, queue, changes, missed, orphans, renamed>>
    BY DEF FlushStep
  <1>2. /\ TypeOK /\ tree \in Trees /\ tree.up = up /\ tree.rec = rec /\ weight \in [Objects -> Nat]
        /\ Agree(tree) /\ InWeight(tree, weight) /\ watched \subseteq Objects
        /\ up \in [Objects -> Nodes \cup {None}] /\ rec \in [Objects -> Nodes \cup {None}]
        /\ status \in [Objects -> {"unborn", "made", "known", "leaving", "dead"}]
        /\ job.list \in Seq(Objects)
        /\ job \in [kind : {"idle", "announce", "flush", "reveal", "destroy"}, list : Seq(Objects),
                    of : Objects \cup {None}]
    BY TreeType DEF IInv, ShapeInv, TreeInv, TypeOK
  <1>3. /\ o \in Objects /\ Tail(job.list) \in Seq(Objects)
        /\ \A x : Occurs(job.list, x) <=> x = o \/ Occurs(Tail(job.list), x)
    BY <1>1, <1>2, TailFacts
  <1>4. \A x \in Objects : x = o \/ Occurs(Tail(job.list), x) => up[x] = NoAdd
    BY <1>1, <1>3 DEF IInv, JobInv
  <1> HIDE DEF o
  <1>5. CASE p = None
    <2>1. /\ job' = [job EXCEPT !.list = Tail(job.list)]
          /\ UNCHANGED <<kids, up, rec, linked, watched, search, plain>>
      BY <1>5 DEF FlushStep, o
    <2>2. /\ job'.kind = "flush" /\ job'.list = Tail(job.list)
          /\ job' \in [kind : {"idle", "announce", "flush", "reveal", "destroy"}, list : Seq(Objects),
                       of : Objects \cup {None}]
      BY <1>1, <1>2, <1>3, <2>1
    <2>3. ShapeInv'
      <3>1. TypeOK'
        BY <1>1, <1>2, <2>1, <2>2 DEF TypeOK
      <3> QED BY <1>1, <2>1, <2>2, <3>1 DEF IInv, ShapeInv
    <2>4. TreeInv' /\ PlaceInv' /\ LinkInv' /\ QueueInv'
      BY <1>1, <2>1 DEF IInv, TreeInv, tree, Agree, InWeight, PlaceInv, LinkInv, QueueInv
    <2>5. JobInv'
      BY <1>4, <2>1, <2>2 DEF JobInv
    <2>6. SeenInv'
      BY <1>1, <2>1, <2>2 DEF IInv, SeenInv
    <2>7. LivingInv'
      BY <1>1, <2>1, <2>2 DEF IInv, LivingInv, Alive
    <2> QED BY <2>3, <2>4, <2>5, <2>6, <2>7 DEF IInv
  <1>6. CASE p # None
    <2>1. Comes(t, o, {}) /\ job' = [job EXCEPT !.list = t.kids[NoAdd]]
      BY <1>6 DEF FlushStep, o
    <2>2. /\ NoAdd \in Nodes /\ None # NoAdd /\ NoAdd \notin Objects \cup {Root} /\ NoAdd # NoParent
          /\ None \notin Objects \cup {Root} /\ NoParent \notin Objects \cup {Root}
      BY NodeFacts
    <2>3. tree.up[o] = NoAdd /\ status[o] \notin {"unborn", "made", "dead"} /\ o \in Alive
      BY <1>2, <1>3, <1>4, <2>2 DEF IInv, PlaceInv, Alive
    <2>4. /\ Alive \subseteq Objects /\ p \in Named(o) /\ p \in Alive \cup {Root}
      <3>1. /\ Alive \subseteq Objects /\ objMap \in Seq(Alive)
            /\ \A x \in Alive : Owner[x] = None \/ status[x] = "leaving" \/ Owner[x] \in Alive
            /\ tree.rec[o] \in Objects => tree.rec[o] \in Alive
        BY <1>1, <1>2, <1>3, AliveFacts
      <3>2. o \in Alive /\ tree \in Trees
        BY <1>2, <2>3
      <3>3. p = None \/ (p \in Named(o) /\ p \in Alive \cup {Root})
        BY ONLY <3>1, <3>2, FindParentFacts
      <3> QED BY <1>6, <3>1, <3>3
    <2> HIDE DEF p
    <2>5. r \in Trees /\ Agree(r) /\ InWeight(r, weight) /\ r.rec = rec /\ r.up = [up EXCEPT ![o] = None]
      <3>1. NoAdd \in Nodes /\ tree.up[o] = NoAdd /\ o \in Objects /\ tree \in Trees /\ Agree(tree)
        BY <1>2, <1>3, <2>2, <2>3
      <3>2. r \in Trees /\ Agree(r) /\ r.rec = tree.rec /\ r.up = [tree.up EXCEPT ![o] = None]
        BY ONLY <3>1, RemoveChildThere
      <3>3. \A w : InWeight(tree, w) => InWeight(r, w)
        BY ONLY <3>1, RemoveChildThere
      <3> HIDE DEF r
      <3>4. InWeight(r, weight)
        BY <1>2, <3>3
      <3> QED BY <1>2, <3>2, <3>4
    <2>6. r.up[o] = None /\ \A x \in Objects \ {o} : r.up[x] = up[x]
      BY <1>2, <1>3, <2>5
    <2> HIDE DEF r
    <2>7. /\ t \in Trees /\ Agree(t) /\ InWeight(t, weight)
          /\ \A x \in Objects \ {o} : t.up[x] = r.up[x] /\ t.rec[x] = r.rec[x]
          /\ t.up[o] = p /\ t.rec[o] = p
      <3>1. t = Put(r, p, o)
        BY <1>6 DEF Put
      <3>2. p \in Objects \cup {Root, None}
        BY <2>4
      <3> HIDE DEF t
      <3>3. /\ r \in Trees /\ Agree(r) /\ InWeight(r, weight) /\ weight \in [Objects -> Nat]
            /\ o \in Objects /\ p \in Objects \cup {Root, None}
            /\ r.up[o] = None \/ (r.up[o] = p /\ r.rec[o] = p)
        BY <1>2, <1>3, <2>5, <2>6, <3>2
      <3>4. /\ t \in Trees /\ Agree(t) /\ InWeight(t, weight)
            /\ \A x \in Objects \ {o} : t.up[x] = r.up[x] /\ t.rec[x] = r.rec[x]
            /\ p # None => t.up[o] = p /\ t.rec[o] = p
        BY ONLY <3>1, <3>3, PutFacts
      <3> QED BY <1>6, <3>4
    <2> HIDE DEF t
    <2>8. p \in Objects \cup {Root} /\ p \notin {None, NoAdd, NoParent}
      BY <2>2, <2>4
    <2>9. /\ TreeInv' /\ PlaceInv' /\ LinkInv'
          /\ up' = t.up /\ rec' = t.rec
          /\ kids' \in [Nodes -> Seq(Objects)]
          /\ up' \in [Objects -> Nodes \cup {None}] /\ rec' \in [Objects -> Nodes \cup {None}]
          /\ IsModel(search') /\ search'.depth = search.depth
          /\ watched \cup {} \subseteq watched' /\ watched' \subseteq Objects /\ linked' \subseteq Nodes
          /\ \A x \in watched' : \/ x \in watched \/ x \in {}
                                 \/ /\ ParentName[x] # None /\ status'[x] \notin {"unborn", "made", "dead"}
                                    /\ up'[x] # NoAdd
      <3>1. \A x \in Objects \ {o} : t.up[x] = up[x] /\ t.rec[x] = rec[x] /\ status'[x] = status[x]
        BY <1>1, <2>5, <2>6, <2>7
      <3>2. /\ t.up[o] \in Objects \cup {Root} => t.rec[o] = t.up[o] /\ t.up[o] \in Named(o)
            /\ t.up[o] = NoParent => ParentName[o] = None
        BY <2>4, <2>7, <2>8
      <3>3. {} \in SUBSET Objects /\ weight' = weight /\ status'[o] \notin {"unborn", "made", "dead"}
            /\ up[o] \notin Objects \cup {Root}
        BY <1>1, <1>2, <2>2, <2>3
      <3> QED BY <1>3, <2>1, <2>7, <3>1, <3>2, <3>3, ComesKeeps
    <2>10. /\ job'.kind = "flush" /\ job'.list = t.kids[NoAdd] /\ job'.list \in Seq(Objects)
           /\ job' \in [kind : {"idle", "announce", "flush", "reveal", "destroy"}, list : Seq(Objects),
                        of : Objects \cup {None}]
      <3>1. t.kids[NoAdd] \in Seq(Objects)
        BY <2>2, <2>7 DEF Trees
      <3> QED BY <1>1, <1>2, <2>1, <3>1
    <2>11. ShapeInv'
      <3>1. TypeOK'
        BY <1>1, <1>2, <2>9, <2>10 DEF TypeOK, IInv, ShapeInv
      <3> QED BY <1>1, <2>9, <2>10, <3>1 DEF IInv, ShapeInv
    <2>12. JobInv'
      <3>1. \A x \in Objects : Occurs(t.kids[NoAdd], x) => t.up[x] = NoAdd
        BY <2>2, <2>7 DEF Agree
      <3> QED BY <2>9, <2>10, <3>1 DEF JobInv
    <2>13. QueueInv'
      BY <1>1, <2>9 DEF IInv, QueueInv
    <2>14. SeenInv'
      <3>1. \A x \in watched : up'[x] = up[x] \/ up'[x] # NoAdd
        BY <1>2, <2>6, <2>7, <2>8, <2>9
      <3> QED BY <1>1, <2>9, <2>10, <3>1 DEF IInv, SeenInv
    <2>15. LivingInv'
      <3>1. \A x \in Objects : up'[x] = up[x] \/ up'[x] \in Alive \cup {Root}
        BY <2>4, <2>6, <2>7, <2>9
      <3>2. \A x \in Objects : rec'[x] = rec[x] \/ rec'[x] \in Alive \cup {Root}
        BY <2>4, <2>5, <2>7, <2>9
      <3> QED BY <1>1, <2>10, <3>1, <3>2, NodeFacts DEF IInv, LivingInv, Alive
    <2> QED BY <2>9, <2>11, <2>12, <2>13, <2>14, <2>15 DEF IInv
  <1> QED BY <1>5, <1>6

-----------------------------------------------------------------------------
(* Destruction.                                                             *)

\* One object of a destruction.
LEMMA DestroyStepKeeps ==
  ASSUME IInv, DestroyStep
  PROVE  IInv'
  <1> DEFINE o == Head(job.list)
             t == Erase(tree, o)
             S == {c \in Objects : Owner[c] = o /\ status[c] \in {"made", "known"}}
             P == {i \in DOMAIN objMap : objMap[i] # o}
             list == Tail(job.list) \o Listed(S)
  <1>1. /\ job.kind = "destroy" /\ job.list # <<>>
        /\ status' = [status EXCEPT ![o] = "dead"]
        /\ objMap' = Kept(objMap, P)
        /\ Leaves(t, o, {})
        /\ orphans' = orphans \cup {c \in Objects : up[c] = o}
        /\ queue' = Without(queue, {o})
        /\ job' = [job EXCEPT !.list = list]
        /\ UNCHANGED <<hidden, weight, changes, missed, renamed>>
    BY DEF DestroyStep
  <1>2. /\ TypeOK /\ tree \in Trees /\ tree.up = up /\ tree.rec = rec /\ weight \in [Objects -> Nat]
        /\ Agree(tree) /\ InWeight(tree, weight) /\ watched \subseteq Objects
        /\ IsModel(search) /\ LinkInv /\ objMap \in Seq(Objects)
        /\ up \in [Objects -> Nodes \cup {None}] /\ rec \in [Objects -> Nodes \cup {None}]
        /\ status \in [Objects -> {"unborn", "made", "known", "leaving", "dead"}]
        /\ job.list \in Seq(Objects)
        /\ job \in [kind : {"idle", "announce", "flush", "reveal", "destroy"}, list : Seq(Objects),
                    of : Objects \cup {None}]
    BY TreeType DEF IInv, ShapeInv, TreeInv, TypeOK
  <1>3. /\ o \in Objects /\ Tail(job.list) \in Seq(Objects)
        /\ \A x : Occurs(job.list, x) <=> x = o \/ Occurs(Tail(job.list), x)
    BY <1>1, <1>2, TailFacts
  <1> HIDE DEF o
  <1>4. \A x \in Objects : status'[x] = IF x = o THEN "dead" ELSE status[x]
    BY <1>1, <1>2
  <1>5. /\ t \in Trees /\ Agree(t) /\ InWeight(t, weight)
        /\ \A x \in Objects : t.up[x] = IF x = o \/ up[x] = o THEN None ELSE up[x]
        /\ \A x \in Objects : t.rec[x] = IF rec[x] = o THEN None ELSE rec[x]
    <2>1. tree \in Trees /\ Agree(tree) /\ o \in Objects
      BY <1>2, <1>3
    <2>2. /\ t \in Trees /\ Agree(t) /\ \A w : InWeight(tree, w) => InWeight(t, w)
          /\ \A c \in Objects : t.up[c] = IF c = o \/ tree.up[c] = o THEN None ELSE tree.up[c]
          /\ \A c \in Objects : t.rec[c] = IF tree.rec[c] = o THEN None ELSE tree.rec[c]
      BY ONLY <2>1, EraseFacts
    <2> HIDE DEF t
    <2> QED BY <1>2, <2>2
  <1> HIDE DEF t
  <1>6. /\ tree' = t /\ up' = t.up /\ rec' = t.rec
        /\ kids' \in [Nodes -> Seq(Objects)]
        /\ up' \in [Objects -> Nodes \cup {None}] /\ rec' \in [Objects -> Nodes \cup {None}]
        /\ IsModel(search') /\ search'.depth = search.depth
        /\ watched' = watched
        /\ LinkInv'
    <2>1. t.up[o] \in {None, Hide} /\ \A x \in Objects \ {o} : t.up[x] = up[x] \/ (up[x] = o /\ t.up[x] = None)
      BY <1>3, <1>5
    <2>2. {} \in SUBSET Objects /\ watched \cup {} = watched
      OBVIOUS
    <2>3. /\ tree' = t /\ kids' = t.kids /\ up' = t.up /\ rec' = t.rec
          /\ IsModel(search') /\ search'.depth = search.depth
          /\ watched' = watched \cup {}
          /\ LinkInv'
      BY <1>1, <1>2, <1>3, <1>5, <2>1, <2>2, LeavesFacts
    <2> QED BY <1>5, <2>2, <2>3, TreeTypes
  <1>7. /\ objMap' \in Seq(Objects)
        /\ \A i \in 1..Len(objMap') : objMap'[i] # o /\ \E j \in 1..Len(objMap) : objMap'[i] = objMap[j]
    <2>1. P \subseteq 1..Len(objMap) /\ \A i \in P : objMap[i] # o
      BY <1>2
    <2> HIDE DEF P
    <2>2. /\ Kept(objMap, P) \in Seq(Objects)
          /\ \A x : Occurs(Kept(objMap, P), x) <=> \E i \in P : objMap[i] = x
      <3>1. objMap \in Seq(Objects)
        BY <1>2
      <3>2. ASSUME NEW list2 \in Seq(Objects), NEW Q \in SUBSET (1..Len(list2)), NEW x
            PROVE  Kept(list2, Q) \in Seq(Objects) /\ (Occurs(Kept(list2, Q), x) <=> \E i \in Q : list2[i] = x)
        BY ONLY KeptMembers
      <3> QED BY ONLY <2>1, <3>1, <3>2
    <2>3. \A i \in 1..Len(objMap') : Occurs(objMap', objMap'[i])
      BY DEF Occurs
    <2> QED BY <1>1, <2>1, <2>2, <2>3
  <1>8. /\ queue' \in Seq(Posts) /\ Alternates(queue', hidden)
        /\ \A i \in 1..Len(queue') : queue'[i].obj # o /\ \E j \in 1..Len(queue) : queue'[i] = queue[j]
        /\ \A x \in Objects : x # o => (SeenHidden(queue', hidden, x) <=> SeenHidden(queue, hidden, x))
    <2>1. queue \in Seq(Posts) /\ Alternates(queue, hidden)
      BY <1>2, QueueType DEF IInv, QueueInv
    <2> DEFINE q == Without(queue, {o})
    <2>2. /\ q \in Seq(Posts) /\ Alternates(q, hidden)
          /\ \A i \in 1..Len(q) : q[i].obj # o /\ \E j \in 1..Len(queue) : q[i] = queue[j]
          /\ \A x \in Objects : x # o => (SeenHidden(q, hidden, x) <=> SeenHidden(queue, hidden, x))
      BY ONLY <1>3, <2>1, WithoutPost
    <2>3. queue' = q
      BY <1>1
    <2> HIDE DEF q
    <2> QED BY <2>2, <2>3
  <1>9. /\ list \in Seq(Objects)
        /\ \A x : Occurs(list, x) <=> Occurs(Tail(job.list), x) \/ x \in S
    <2>1. S \subseteq Objects
      OBVIOUS
    <2> HIDE DEF S
    <2>2. Listed(S) \in Seq(Objects) /\ \A x : Occurs(Listed(S), x) <=> x \in S
      <3>1. Listed(S) \in Seq(S) /\ \A x : Occurs(Listed(S), x) <=> x \in S
        BY <2>1, ListedFacts
      <3> QED BY <2>1, <3>1
    <2>3. ASSUME NEW p \in Seq(Objects), NEW q \in Seq(Objects)
          PROVE  p \o q \in Seq(Objects) /\ \A x : Occurs(p \o q, x) <=> Occurs(p, x) \/ Occurs(q, x)
      BY OccursInConcat, ConcatProperties
    <2> QED BY <1>3, <2>2, <2>3
  <1> HIDE DEF list, P
  <1>10. /\ job'.kind = "destroy" /\ job'.list = list
         /\ job' \in [kind : {"idle", "announce", "flush", "reveal", "destroy"}, list : Seq(Objects),
                      of : Objects \cup {None}]
    BY <1>1, <1>2, <1>9
  <1>11. ShapeInv'
    <2>1. status' \in [Objects -> {"unborn", "made", "known", "leaving", "dead"}]
      BY <1>1, <1>2
    <2>2. linked' \subseteq Nodes
      BY <1>6, NodeFacts DEF LinkInv
    <2>3. orphans' \subseteq Objects
      BY <1>1, <1>2 DEF TypeOK
    <2>4. TypeOK'
      BY <1>1, <1>2, <1>6, <1>7, <1>8, <1>10, <2>1, <2>2, <2>3 DEF TypeOK, Posts, IInv, ShapeInv
    <2> QED BY <1>1, <1>6, <1>10, <2>4 DEF IInv, ShapeInv
  <1>12. TreeInv'
    BY <1>1, <1>5, <1>6 DEF TreeInv
  <1>13. PlaceInv'
    <2>1. None \notin Objects \cup {Root} /\ None # NoParent /\ o # Root
      BY <1>3, NodeFacts
    <2>2. ASSUME NEW x \in Objects, up'[x] # None
          PROVE  up'[x] = up[x] /\ x # o /\ up[x] # o
      BY <1>5, <1>6, <2>2
    <2>3. ASSUME NEW x \in Objects
          PROVE  /\ status'[x] \in {"unborn", "made", "dead"} => up'[x] = None
                 /\ up'[x] \in Objects \cup {Root} => rec'[x] = up'[x] /\ up'[x] \in Named(x)
                 /\ up'[x] = NoParent => ParentName[x] = None
      <3>1. CASE up'[x] = None
        BY <2>1, <3>1
      <3>2. CASE up'[x] # None
        <4>1. up'[x] = up[x] /\ x # o /\ up[x] # o /\ status'[x] = status[x]
          BY <1>4, <2>2, <3>2
        <4>2. rec[x] = up[x] => rec'[x] = rec[x]
          BY <1>5, <1>6, <4>1
        <4> QED BY <4>1, <4>2 DEF IInv, PlaceInv
      <3> QED BY <3>1, <3>2
    <2> QED BY <2>3 DEF PlaceInv
  <1>14. JobInv'
    BY <1>10 DEF JobInv
  <1>15. QueueInv'
    <2>1. \A j \in 1..Len(queue) : /\ queue[j].obj \in Objects
                                   /\ queue[j].call # "delete" => queue[j].obj \in watched
                                   /\ status[queue[j].obj] \notin {"unborn", "dead"}
      BY <1>2, QueueType DEF IInv, QueueInv
    <2>2. ASSUME NEW i \in 1..Len(queue')
          PROVE  /\ queue'[i].call # "delete" => queue'[i].obj \in watched
                 /\ status'[queue'[i].obj] \notin {"unborn", "dead"}
      BY <1>4, <1>8, <2>1
    <2> QED BY <1>1, <1>6, <1>8, <2>2 DEF QueueInv
  <1>16. SeenInv'
    <2>1. None # NoAdd
      BY NodeFacts
    <2>2. \A x \in watched : up'[x] = None \/ (x # o /\ up'[x] = up[x])
      BY <1>2, <1>5, <1>6
    <2>3. ASSUME NEW x \in watched
          PROVE  /\ ParentName[x] # None /\ status'[x] \notin {"unborn", "made"}
                 /\ SeenHidden(queue', hidden, x) => up'[x] # NoAdd
      <3>1. x \in Objects
        BY <1>2
      <3>2. ParentName[x] # None /\ status'[x] \notin {"unborn", "made"}
        BY <1>4, <3>1 DEF IInv, SeenInv
      <3>3. SeenHidden(queue', hidden, x) => up'[x] # NoAdd
        BY <1>8, <2>1, <2>2, <3>1 DEF IInv, SeenInv
      <3> QED BY <3>2, <3>3
    <2> QED BY <1>1, <1>6, <1>10, <2>3 DEF SeenInv
  <1>17. LivingInv'
    <2>1. \A x : x \in Alive' <=> x \in Alive /\ x # o
      BY <1>4 DEF Alive
    <2>2. None \notin Objects
      BY NodeFacts
    <2>3. \A x \in Objects : up'[x] \in Objects => up'[x] \in Alive'
      BY <1>5, <1>6, <2>1, <2>2 DEF IInv, LivingInv
    <2>4. \A x \in Objects : rec'[x] \in Objects => rec'[x] \in Alive'
      BY <1>5, <1>6, <2>1, <2>2 DEF IInv, LivingInv
    <2>5. \A i \in 1..Len(objMap') : objMap'[i] \in Alive'
      BY <1>7, <2>1 DEF IInv, LivingInv
    <2>6. ASSUME NEW x \in Objects, status'[x] \in {"made", "known"}
          PROVE  Owner[x] = None \/ Owner[x] \in Alive' \/ Occurs(list, x)
      <3>1. x # o /\ status[x] \in {"made", "known"}
        BY <1>4, <2>6
      <3>2. Owner[x] = None \/ Owner[x] \in Alive \/ Occurs(job.list, x)
        BY <3>1 DEF IInv, LivingInv
      <3>3. Owner[x] = o => x \in S
        BY <3>1
      <3> HIDE DEF S
      <3> QED BY <1>3, <1>9, <2>1, <3>1, <3>2, <3>3
    <2> QED BY <1>10, <2>3, <2>4, <2>5, <2>6 DEF LivingInv
  <1> QED BY <1>6, <1>11, <1>12, <1>13, <1>14, <1>15, <1>16, <1>17 DEF IInv

-----------------------------------------------------------------------------
(* The theorems.                                                            *)

\* Every step keeps the invariant.
LEMMA NextKeeps ==
  ASSUME IInv, [Next]_vars
  PROVE  IInv'
  <1>1. ASSUME NEW o \in Objects, Make(o) \/ Announce(o) \/ Withdraw(o)
        PROVE  IInv'
    BY <1>1, MakeKeeps, AnnounceKeeps, WithdrawKeeps
  <1>2. ASSUME NEW o \in Objects, ChangeVisible(o) \/ Rename(o)
        PROVE  IInv'
    BY <1>2, ChangeVisibleKeeps, RenameKeeps
  <1>3. ASSUME NEW o \in Objects, NEW w \in Weights, ChangeWeight(o, w)
        PROVE  IInv'
    BY <1>3, ChangeWeightKeeps
  <1>4. CASE Deliver
    BY <1>4, HideObjectKeeps, StartRevealKeeps, StartDestroyKeeps DEF Deliver
  <1>5. CASE AnnounceStep \/ StartFlush \/ FlushStep \/ EndFlush
    BY <1>5, AnnounceStepKeeps, StartFlushKeeps, FlushKeeps, EndFlushKeeps
  <1>6. CASE RevealStep \/ EndReveal \/ DestroyStep \/ EndDestroy
    BY <1>6, RevealStepKeeps, EndRevealKeeps, DestroyStepKeeps, EndDestroyKeeps
  <1>7. CASE UNCHANGED vars
    BY <1>7, StutterKeeps
  <1>8. JobStep => AnnounceStep \/ StartFlush \/ FlushStep \/ EndFlush
                   \/ RevealStep \/ EndReveal \/ DestroyStep \/ EndDestroy
    BY DEF JobStep
  <1> QED BY <1>1, <1>2, <1>3, <1>4, <1>5, <1>6, <1>7, <1>8 DEF Next

\* The invariant holds of every state the manager reaches.
LEMMA InvHolds == Spec => []IInv
  BY InitInv, NextKeeps, PTL DEF Spec

\* Every reachable state of the manager is well typed: handlers that call one another
\* leave only objects in the lists, in the queue and in what is left to do.
THEOREM TypeCorrect == Spec => []TypeOK
  <1>1. IInv => TypeOK
    BY DEF IInv, ShapeInv
  <1> QED BY <1>1, InvHolds, PTL

\* m_parent and m_children agree, for any number of objects: addChild, which does not take
\* an object out of the list it was in, is only called for objects that are in none.
THEOREM ListsAlwaysAgree == Spec => []ListsAgree
  <1>1. ASSUME IInv PROVE ListsAgree
    <2>1. tree \in Trees /\ tree.kids = kids /\ tree.up = up /\ Agree(tree)
      BY <1>1, TreeType DEF IInv, ShapeInv, TreeInv
    <2>2. \A n \in Nodes : kids[n] \in Seq(Objects) /\ DOMAIN kids[n] = 1..Len(kids[n])
      BY <2>1 DEF Trees
    <2> QED BY <2>1, <2>2 DEF ListsAgree, Agree, Distinct, Occurs
  <1> QED BY <1>1, InvHolds, PTL

\* The children of every node are in the order of their weights, whatever moves they make
\* and whatever weights they are given.
THEOREM KidsAlwaysSorted == Spec => []KidsSorted
  <1>1. ASSUME IInv PROVE KidsSorted
    <2>1. tree \in Trees /\ tree.kids = kids /\ InWeight(tree, weight)
      BY <1>1, TreeType DEF IInv, ShapeInv, TreeInv
    <2>2. \A n \in Nodes : kids[n] \in Seq(Objects) /\ DOMAIN kids[n] = 1..Len(kids[n])
      BY <2>1 DEF Trees
    <2> QED BY <2>1, <2>2 DEF KidsSorted, InWeight, InOrder
  <1> QED BY <1>1, InvHolds, PTL

\* The manager is connected to the lists of exactly the nodes below the root: onObjectAdded
\* and onObjectRemoved walk the whole of the part that comes or goes.
THEOREM LinkedAlwaysInTree == Spec => []LinkedIsInTree
  <1>1. IInv => LinkedIsInTree
    BY DEF IInv, LinkInv, LinkedIsInTree
  <1> QED BY <1>1, InvHolds, PTL

\* Nothing refers to a destroyed object, neither a list of children nor a parent nor the
\* map of names, in whatever order objects and their owners are destroyed.
THEOREM NothingEverDangles == Spec => []NothingDangles
  <1>1. ASSUME IInv, NEW o \in Objects, status[o] = "dead"
        PROVE  /\ up[o] = None /\ kids[o] = <<>>
               /\ \A c \in Objects : up[c] # o /\ rec[c] # o
               /\ \A i \in DOMAIN objMap : objMap[i] # o
    <2>1. /\ tree \in Trees /\ tree.kids = kids /\ tree.up = up /\ Agree(tree)
          /\ objMap \in Seq(Objects) /\ kids[o] \in Seq(Objects)
      BY <1>1, TreeType, NodeFacts DEF IInv, ShapeInv, TreeInv, TypeOK
    <2>2. o \notin Alive
      BY <1>1 DEF Alive
    <2>3. up[o] = None
      BY <1>1 DEF IInv, PlaceInv
    <2>4. \A c \in Objects : up[c] # o /\ rec[c] # o
      BY <1>1, <2>2 DEF IInv, LivingInv
    <2>5. \A i \in DOMAIN objMap : objMap[i] # o
      BY <1>1, <2>1, <2>2 DEF IInv, LivingInv
    <2>6. \A c \in Objects : ~Occurs(kids[o], c)
      BY <2>1, <2>4, NodeFacts DEF Agree
    <2>7. kids[o] = <<>>
      BY <2>1, <2>6 DEF Occurs
    <2> QED BY <2>3, <2>4, <2>5, <2>7
  <1>2. IInv => NothingDangles
    BY <1>1 DEF NothingDangles
  <1> QED BY <1>2, InvHolds, PTL

-----------------------------------------------------------------------------
(* The search and the list it stands for.                                   *)

\* The data of the search with the batch merged is the list that adding each entry at once
\* would have given.
SearchInv == Fits(Entry, search, plain)

\* The entries of the search have weights.
LEMMA EntryWeighted == Weighted(Entry)
  BY DEF Weighted, Entry

\* A record with the fields of a tree.
Shaped(t) == t = [kids |-> t.kids, up |-> t.up, rec |-> t.rec]

\* Giving a tree other lists or other parents leaves it one.
LEMMA ShapedChange ==
  ASSUME NEW t, Shaped(t), NEW k
  PROVE  Shaped([t EXCEPT !.kids = k]) /\ Shaped([t EXCEPT !.up = k])
  <1> DEFINE u == [t EXCEPT !.kids = k]
             v == [t EXCEPT !.up = k]
  <1>1. DOMAIN t = {"kids", "up", "rec"}
    BY DEF Shaped
  <1>2. /\ u = [i \in DOMAIN t |-> IF i = "kids" THEN k ELSE t[i]]
        /\ v = [i \in DOMAIN t |-> IF i = "up" THEN k ELSE t[i]]
    OBVIOUS
  <1>3. u = [kids |-> k, up |-> t.up, rec |-> t.rec] /\ v = [kids |-> t.kids, up |-> k, rec |-> t.rec]
    BY <1>1, <1>2
  <1> HIDE DEF u, v
  <1>4. Shaped(u) /\ Shaped(v)
    BY <1>3 DEF Shaped
  <1> QED BY <1>4 DEF u, v

\* The changes of a tree make one.
LEMMA ShapedFacts ==
  /\ Shaped(tree)
  /\ \A t, n, o, b : Shaped(t) => Shaped(AddChild(t, n, o, b)) /\ Shaped(RemoveChild(t, n, o))
  /\ \A t, map, o : Shaped(t) => Shaped(AddToParent(t, map, o))
  <1>1. \A a, b, c : Shaped([kids |-> a, up |-> b, rec |-> c])
    BY DEF Shaped
  <1>2. Shaped(tree)
    BY <1>1 DEF tree
  <1>3. ASSUME NEW t, NEW n, NEW o, NEW b, Shaped(t)
        PROVE  Shaped(AddChild(t, n, o, b)) /\ Shaped(RemoveChild(t, n, o))
    <2>1. Shaped(AddChild(t, n, o, b))
      BY <1>1, <1>3 DEF AddChild
    <2> DEFINE r == RemoveChild(t, n, o)
    <2>2. r = t \/ \E k, m : r = [[t EXCEPT !.kids = k] EXCEPT !.up = m]
      <3>1. ASSUME NEW k, NEW m
            PROVE  [t EXCEPT !.kids[n] = k, !.up[o] = m]
                     = [[t EXCEPT !.kids = [t.kids EXCEPT ![n] = k]]
                          EXCEPT !.up = [[t EXCEPT !.kids = [t.kids EXCEPT ![n] = k]].up EXCEPT ![o] = m]]
        OBVIOUS
      <3>2. CASE \E i \in DOMAIN t.kids[n] : t.kids[n][i] = o
        <4> DEFINE k == RemoveAt(t.kids[n], CHOOSE i \in DOMAIN t.kids[n] : t.kids[n][i] = o)
        <4>1. r = [t EXCEPT !.kids[n] = k, !.up[o] = None]
          BY <3>2 DEF RemoveChild
        <4> HIDE DEF k, r
        <4> QED BY <3>1, <4>1
      <3> QED BY <3>2 DEF RemoveChild
    <2> HIDE DEF r
    <2>3. Shaped(r)
      BY <1>3, <2>2, ShapedChange, ZenonT(60)
    <2>4. Shaped(RemoveChild(t, n, o))
      BY <2>3 DEF r
    <2> QED BY <2>1, <2>4
  <1>4. \A t, map, o : Shaped(t) => Shaped(AddToParent(t, map, o))
    BY <1>3 DEF AddToParent
  <1> QED BY <1>2, <1>3, <1>4

\* What is below an object in the new tree is added.
LEMMA ComesFits ==
  ASSUME TypeOK, TypeOK', SearchInv, NEW t, Shaped(t), NEW o \in Objects, NEW extra, Comes(t, o, extra)
  PROVE  SearchInv'
  <1> DEFINE s == Subtree(t, o)
             es == Entries(t, s)
  <1>1. CASE SearchStays
    BY <1>1 DEF SearchStays, SearchInv
  <1>2. CASE SearchAdds(t, s)
    <2>1. tree' = t
      BY DEF Comes, Shaped, tree
    <2>2. t \in Trees
      BY <2>1 DEF TypeOK, tree, Trees
    <2>3. s \in Seq(Objects)
      BY <2>2, SubtreeFacts
    <2> HIDE DEF s
    <2>4. es \in Seq(Entry)
      BY <2>3, EntriesType DEF TypeOK
    <2>5. search' = AddSearchData(search, es) /\ plain' = AllPlaced(plain, es)
      BY <1>2 DEF SearchAdds
    <2> HIDE DEF es
    <2>6. Fits(Entry, AddSearchData(search, es), AllPlaced(plain, es))
      BY <2>4, EntryWeighted, FitsAdd DEF SearchInv
    <2> QED BY <2>5, <2>6 DEF SearchInv
  <1> QED BY <1>1, <1>2 DEF Comes

\* What leaves is taken out, while no batch is open.
LEMMA LeavesFits ==
  ASSUME SearchInv, search.depth = 0, NEW t, NEW o, NEW extra, Leaves(t, o, extra)
  PROVE  SearchInv'
  <1> DEFINE objs == ToSet(Subtree(tree, o))
  <1>1. CASE SearchStays
    BY <1>1 DEF SearchStays, SearchInv
  <1>2. CASE SearchDrops(objs)
    <2>1. search' = RemoveSearchData(search, objs) /\ plain' = Without(plain, objs)
      BY <1>2 DEF SearchDrops
    <2> HIDE DEF objs
    <2>2. Fits(Entry, RemoveSearchData(search, objs), Without(plain, objs))
      BY EntryWeighted, FitsDrop DEF SearchInv
    <2> QED BY <2>1, <2>2 DEF SearchInv
  <1> QED BY <1>1, <1>2 DEF Leaves

\* No batch is open when objects leave.
LEMMA NoBatch ==
  ASSUME IInv
  PROVE  /\ TypeOK /\ (job.kind \in {"announce", "flush"} => search.depth = 1)
         /\ job.kind \notin {"announce", "flush"} => search.depth = 0
         /\ Idle.kind \notin {"announce", "flush"}
  BY DEF IInv, ShapeInv, Idle

\* The first of what is left to do is an object.
LEMMA HeadOfJob ==
  ASSUME TypeOK, job.list # <<>>
  PROVE  Head(job.list) \in Objects
  <1>1. job.list \in Seq(Objects)
    BY DEF TypeOK
  <1> QED BY <1>1

\* The steps keep the search what it stands for.
LEMMA SearchKeeps ==
  ASSUME IInv, IInv', SearchInv, [Next]_vars
  PROVE  SearchInv'
  <1>1. TypeOK /\ TypeOK'
    BY DEF IInv, ShapeInv
  <1>2. ASSUME UNCHANGED <<search, plain>>
        PROVE  SearchInv'
    BY <1>2 DEF SearchInv
  <1>3. ASSUME search' = BeginBatch(search), plain' = plain
        PROVE  SearchInv'
    BY <1>3, FitsBegin DEF SearchInv
  <1>4. ASSUME NEW o \in Objects, Make(o) \/ Announce(o)
        PROVE  SearchInv'
    BY <1>2, <1>3, <1>4 DEF Make, Announce, StartAnnounce
  <1>5. ASSUME NEW o \in Objects, Withdraw(o)
        PROVE  SearchInv'
    <2>1. search.depth = 0 /\ \E t : Leaves(t, o, {})
      BY <1>5, NoBatch DEF Withdraw
    <2> QED BY <2>1, LeavesFits
  <1>6. ASSUME NEW o \in Objects, ChangeVisible(o) \/ \E w \in Weights : ChangeWeight(o, w)
        PROVE  SearchInv'
    BY <1>2, <1>6 DEF ChangeVisible, ChangeWeight
  <1>7. ASSUME NEW o \in Objects, Rename(o)
        PROVE  SearchInv'
    <2> DEFINE s == Subtree(tree, o)
               es == Entries(tree, s)
               m == RemoveSearchData(search, {o})
               p == Without(plain, {o})
    <2>1. search.depth = 0
      BY <1>7, NoBatch DEF Rename
    <2>2. tree \in Trees
      BY <1>1, TreeType
    <2>3. s \in Seq(Objects)
      BY <2>2, SubtreeFacts
    <2> HIDE DEF s
    <2>4. es \in Seq(Entry)
      BY <1>1, <2>3, EntriesType DEF TypeOK
    <2>5. search' = AddSearchData(m, es) /\ plain' = AllPlaced(p, es)
      BY <1>7 DEF Rename, s
    <2>6. Fits(Entry, m, p)
      BY <2>1, EntryWeighted, FitsDrop DEF SearchInv
    <2> HIDE DEF es, m, p
    <2>7. Fits(Entry, AddSearchData(m, es), AllPlaced(p, es))
      BY <2>4, <2>6, EntryWeighted, FitsAdd
    <2> QED BY <2>5, <2>7 DEF SearchInv
  <1>8. CASE HideObject
    <2>1. search.depth = 0 /\ \E t, o : Leaves(t, o, {})
      BY <1>8, NoBatch DEF HideObject, Delivers
    <2> QED BY <2>1, LeavesFits
  <1>9. CASE RevealStep
    <2>1. search.depth = 0 /\ (UNCHANGED <<search, plain>> \/ \E t, o, extra : Leaves(t, o, extra))
      BY <1>9, NoBatch DEF RevealStep
    <2> QED BY <1>2, <2>1, LeavesFits
  <1>10. CASE DestroyStep
    <2>1. search.depth = 0 /\ \E t, o : Leaves(t, o, {})
      BY <1>10, NoBatch DEF DestroyStep
    <2> QED BY <2>1, LeavesFits
  <1>11. CASE StartReveal \/ StartDestroy \/ StartFlush \/ EndDestroy
    BY <1>2, <1>11 DEF StartReveal, StartDestroy, StartFlush, EndDestroy
  <1>12. CASE AnnounceStep
    <2> DEFINE o == Head(job.list)
    <2>1. o \in Objects
      BY <1>1, <1>12, HeadOfJob DEF AnnounceStep
    <2>2. \E t, extra : Shaped(t) /\ Comes(t, o, extra)
      <3>1. /\ Shaped(AddChild(tree, NoParent, o, FALSE)) /\ Shaped(AddChild(tree, Hide, o, FALSE))
            /\ \A map : Shaped(AddToParent(tree, map, o))
        BY ShapedFacts
      <3> QED BY <1>12, <3>1 DEF AnnounceStep
    <2> HIDE DEF o
    <2> QED BY <1>1, <2>1, <2>2, ComesFits
  <1>13. CASE FlushStep
    <2> DEFINE o == Head(job.list)
    <2>1. o \in Objects
      BY <1>1, <1>13, HeadOfJob DEF FlushStep
    <2>2. UNCHANGED <<search, plain>> \/ \E t, extra : Shaped(t) /\ Comes(t, o, extra)
      <3>1. \A p : Shaped(AddChild(RemoveChild(tree, NoAdd, o), p, o, TRUE))
        BY ShapedFacts
      <3> QED BY <1>13, <3>1 DEF FlushStep
    <2> HIDE DEF o
    <2> QED BY <1>1, <1>2, <2>1, <2>2, ComesFits
  <1>14. CASE EndFlush
    <2>1. search' = EndBatch(search) /\ plain' = plain /\ search.depth = 1
      BY <1>14, NoBatch DEF EndFlush
    <2>2. Fits(Entry, EndBatch(search), plain)
      BY <2>1, EntryWeighted, FitsEnd DEF SearchInv
    <2> QED BY <2>1, <2>2 DEF SearchInv
  <1>15. CASE EndReveal
    <2> DEFINE o == job.of
    <2>1. o \in Objects
      BY <1>1, <1>15 DEF EndReveal, IInv, SeenInv, TypeOK
    <2>2. Shaped(AddToParent(RemoveChild(tree, Hide, o), objMap, o))
      BY ShapedFacts
    <2>3. \E t, extra : Shaped(t) /\ Comes(t, o, extra)
      BY <1>15, <2>2 DEF EndReveal
    <2> HIDE DEF o
    <2> QED BY <1>1, <2>1, <2>3, ComesFits
  <1>16. CASE UNCHANGED vars
    BY <1>2, <1>16 DEF vars
  <1>17. Deliver => HideObject \/ StartReveal \/ StartDestroy
    BY DEF Deliver
  <1>18. JobStep => AnnounceStep \/ StartFlush \/ FlushStep \/ EndFlush
                    \/ RevealStep \/ EndReveal \/ DestroyStep \/ EndDestroy
    BY DEF JobStep
  <1>19. CASE Next
    BY ONLY <1>4, <1>5, <1>6, <1>7, <1>8, <1>9, <1>10, <1>11, <1>12, <1>13, <1>14, <1>15, <1>17, <1>18, <1>19
       DEF Next
  <1> QED BY <1>16, <1>19

\* The search stands for the list at the start.
LEMMA SearchStarts == ASSUME Init PROVE SearchInv
  <1>1. <<>> \in Seq(Entry) /\ Sorted(<<>>)
    BY DEF Sorted
  <1>2. EmptyModel \in Models(Entry) /\ EmptyModel.data = <<>> /\ EmptyModel.batch = <<>>
    BY <1>1 DEF EmptyModel, Models
  <1>3. Fits(Entry, EmptyModel, <<>>)
    BY <1>1, <1>2, EntryWeighted, FitsSorted
  <1> QED BY <1>3 DEF SearchInv, Init

\* The search is, in every state, what the list stands for.
LEMMA SearchInvHolds == Spec => [](IInv /\ SearchInv)
  <1>1. IInv /\ SearchInv /\ [Next]_vars => IInv' /\ SearchInv'
    BY NextKeeps, SearchKeeps
  <1> QED BY InitInv, SearchStarts, <1>1, PTL DEF Spec

\* However many entries a call of addObject collects, whatever their weights and whatever
\* is equal among them: merging them gives the list that adding each of them at once would
\* have given, equals in the order of arrival, and the list is sorted.
THEOREM BatchNeverSeen == Spec => []BatchUnseen
  <1>1. ASSUME SearchInv PROVE BatchUnseen
    <2>1. Sorted(search.data)
      BY <1>1 DEF SearchInv, Fits
    <2>2. search.depth = 0 => search.data = plain /\ search.batch = <<>>
      BY <1>1, EntryWeighted, FitsUnseen DEF SearchInv
    <2> QED BY <2>1, <2>2 DEF BatchUnseen
  <1> QED BY <1>1, SearchInvHolds, PTL
=============================================================================
