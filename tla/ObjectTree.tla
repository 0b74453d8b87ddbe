---- MODULE ObjectTree ----
(***************************************************************************)
(* The tree of DccObjects that the pages hang in, and the search over it:  *)
(* dccmanager.cpp (addObject, removeObject, findParent, onVisible,         *)
(* onObjectAdded, onObjectRemoved), plugin/dccobject.cpp and the calls     *)
(* plugin/dccrepeater.cpp makes.                                           *)
(*                                                                         *)
(* An object belongs to another one (the QML item it is declared in, or    *)
(* the repeater that makes it) and names its parent in the tree, which may *)
(* be a different one, may not exist yet, and may come and go.  An object  *)
(* is in the list of children of at most one node; the nodes are the       *)
(* objects, the root, and three lists of the manager: Hide for what is not *)
(* visible, NoAdd for what waits for its parent, NoParent for what names   *)
(* none.                                                                   *)
(*                                                                         *)
(* Everything runs on the main thread.  A handler that loops over objects  *)
(* (addObject, onVisible(true), a destruction) is a job: it is begun by an *)
(* action, goes on one object a step, and nothing else happens until it    *)
(* has ended.  Changes of visibility reach onVisible through the event     *)
(* queue, with the value of the time they were made; deletions of repeated *)
(* objects go through the same queue.                                      *)
(***************************************************************************)
EXTENDS SearchModel
LOCAL INSTANCE SequencesExt

CONSTANTS
  Objects,        \* the DccObjects; each is made and destroyed at most once
  Root, Hide, NoAdd, NoParent,   \* m_root, m_hideObjects, m_noAddObjects, m_noParentObjects
  None,
  Name,           \* name of an object and of the root, or None
  ParentName,     \* parentName of an object, or None
  Owner,          \* the object it is declared in or repeated by, or None
  Repeated,       \* the objects a DccRepeater makes
  Searchable,     \* the objects with canSearch and a displayName
  ConfigHidden,   \* the objects the hideModule list hides
  Weight0,        \* the weights the objects are made with
  Weights,        \* the weights they may be given later
  MaxChanges      \* bound: changes of visibility, weight and displayName

Own == {Root, Hide, NoAdd, NoParent}
Nodes == Objects \cup Own

ASSUME FinitelyMany == IsFiniteSet(Objects)
ASSUME DistinctNodes ==
  /\ Cardinality(Own) = 4
  /\ Objects \cap Own = {}
  /\ None \notin Nodes
ASSUME ObjectAssumption ==
  /\ DOMAIN Name = Objects \cup {Root}
  /\ DOMAIN ParentName = Objects
  /\ Owner \in [Objects -> Objects \cup {None}]
  /\ Repeated \subseteq {o \in Objects : Owner[o] # None}
  /\ Searchable \subseteq Objects /\ ConfigHidden \subseteq Objects
ASSUME NamesAssumption ==
  /\ Name[Root] # None
  /\ \A o \in Objects : Name[o] # Name[Root] /\ (ParentName[o] # None => ParentName[o] # Name[o])
  /\ \A o \in Repeated : Name[o] # None
ASSUME WeightAssumption ==
  /\ Weight0 \in [Objects -> Nat] /\ Weights \subseteq Nat /\ MaxChanges \in Nat

VARIABLES
  status,    \* of an object: unborn, made, known (connected to the manager), leaving, dead
  objMap,    \* m_objMap, in the order of arrival
  kids,      \* m_children of a node
  up,        \* m_parent of an object
  rec,       \* m_recommendedParent of an object
  hidden,    \* the objects whose visibleToApp is false
  weight,    \* m_weight of an object
  watched,   \* the objects whose visibleToAppChanged is connected to onVisible
  linked,    \* the nodes whose childAdded and childRemoved reach the manager
  search,    \* the source model of the search
  queue,     \* posted: calls of onVisible and deferred deletions
  job,       \* the handler under way
  changes,   \* counts what MaxChanges bounds
  missed,    \* history: objects that changed visibility while they, or what they are
             \* below, waited for a parent, and that nobody has looked at since
  orphans,   \* history: objects let go by a parent that was destroyed
  renamed,   \* history: objects an ancestor of which was renamed in the tree
  plain      \* history: the search list had there been no batches

vars == <<status, objMap, kids, up, rec, hidden, weight, watched, linked, search, queue, job,
          changes, missed, orphans, renamed, plain>>

-----------------------------------------------------------------------------
(* The lists of children. *)

\* A tree is a record of kids, up and rec.
tree == [kids |-> kids, up |-> up, rec |-> rec]

\* Private::addChild: behind the children that are not heavier; nothing
\* happens if the child is there.  It does not leave any other list.
AddChild(t, n, o, recommend) ==
  IF \E i \in DOMAIN t.kids[n] : t.kids[n][i] = o THEN t
  ELSE [kids |-> [t.kids EXCEPT ![n] =
                    InsertAt(@, 1 + Cardinality({i \in DOMAIN @ : weight[@[i]] <= weight[o]}), o)],
        up   |-> [t.up EXCEPT ![o] = n],
        rec  |-> IF recommend THEN [t.rec EXCEPT ![o] = n] ELSE t.rec]

\* Variant: the child still calls the node its parent.
RemoveChildForgets(t, n, o) ==
  IF \E i \in DOMAIN t.kids[n] : t.kids[n][i] = o
  THEN [t EXCEPT !.kids[n] = RemoveAt(@, CHOOSE i \in DOMAIN @ : @[i] = o)]
  ELSE t

\* Private::removeChild
RemoveChild(t, n, o) ==
  IF \E i \in DOMAIN t.kids[n] : t.kids[n][i] = o
  THEN [t EXCEPT !.kids[n] = RemoveAt(@, CHOOSE i \in DOMAIN @ : @[i] = o), !.up[o] = None]
  ELSE t

\* DccManager::removeObjectFromParent
Detach(t, o) == IF t.up[o] = None THEN t ELSE RemoveChild(t, t.up[o], o)

\* Private::~Private: the object leaves its parent and lets go of its children;
\* a QPointer to it becomes null.
Erase(t, o) ==
  LET u == Detach(t, o)
  IN [kids |-> [u.kids EXCEPT ![o] = <<>>],
      up   |-> [c \in Objects |-> IF u.up[c] = o THEN None ELSE u.up[c]],
      rec  |-> [c \in Objects |-> IF u.rec[c] = o THEN None ELSE u.rec[c]]]

\* The objects of a subtree in the order of the breadth-first loops over
\* getChildren: level by level.
Subtree(t, o) ==
  LET Walk[d \in 0..Cardinality(Objects)] ==
        IF d = 0 THEN [all |-> <<o>>, last |-> <<o>>]
        ELSE LET w == Walk[d - 1]
                 next == FlattenSeq([i \in 1..Len(w.last) |-> t.kids[w.last[i]]])
             IN [all |-> w.all \o next, last |-> next]
  IN Walk[Cardinality(Objects)].all

\* The objects from the top of its part of the tree down to an object.
PathTo(t, o) ==
  LET Line[d \in 0..Cardinality(Objects)] ==
        IF d = 0 THEN <<o>>
        ELSE LET line == Line[d - 1]
                 top == t.up[Head(line)]
             IN IF top \in Objects THEN <<top>> \o line ELSE line
  IN Line[Cardinality(Objects)]

\* The QObject ancestors of an object, the nearest first: its owners, until one
\* was let go.
Ancestors(o) ==
  LET Line[d \in 0..Cardinality(Objects)] ==
        IF d = 0 THEN <<o>>
        ELSE LET line == Line[d - 1]
                 last == line[Len(line)]
             IN IF Owner[last] = None \/ status[last] = "leaving" THEN line
                ELSE Append(line, Owner[last])
  IN Tail(Line[Cardinality(Objects)])

\* The first element of a list that is in a set, or None.
FirstIn(list, S) ==
  LET found == {i \in DOMAIN list : list[i] \in S}
  IN IF found = {} THEN None ELSE list[CHOOSE i \in found : \A j \in found : i <= j]

\* What has the name an object wants its parent to have.
Named(o) == {n \in Objects \cup {Root} : Name[n] # None /\ Name[n] = ParentName[o]}

\* findParent: the recommended parent if its name fits, else an ancestor, else
\* the root or the first object of that name that arrived.
FindParent(t, map, o) ==
  LET above == FirstIn(Ancestors(o), Named(o))
  IN CASE t.rec[o] \in Named(o) -> t.rec[o]
       [] t.rec[o] \notin Named(o) /\ above # None -> above
       [] OTHER -> IF Root \in Named(o) THEN Root ELSE FirstIn(map, Named(o))

\* addObjectToParent, and the list the callers use when it fails.
AddToParent(t, map, o) ==
  LET p == FindParent(t, map, o)
  IN IF p = None THEN AddChild(t, NoAdd, o, FALSE) ELSE AddChild(t, p, o, TRUE)

-----------------------------------------------------------------------------
(* What the manager does when the tree below the root changes. *)

\* SearchData: the weights from the top of the tree down to the object.
WeightPath(t, o) == LET line == PathTo(t, o) IN [i \in DOMAIN line |-> weight[line[i]]]

Entries(t, objs) ==
  LET shown == Kept(objs, {i \in DOMAIN objs : objs[i] \in Searchable})
  IN [i \in DOMAIN shown |-> [obj |-> shown[i], weight |-> WeightPath(t, shown[i])]]

\* Variant: what is below the new object is not added.
SearchAddsTop(t, objs) ==
  /\ search' = AddSearchData(search, Entries(t, <<Head(objs)>>))
  /\ plain' = AllPlaced(plain, Entries(t, <<Head(objs)>>))

SearchAdds(t, objs) ==
  /\ search' = AddSearchData(search, Entries(t, objs))
  /\ plain' = AllPlaced(plain, Entries(t, objs))

SearchDrops(objs) ==
  /\ search' = RemoveSearchData(search, objs)
  /\ plain' = Without(plain, objs)

SearchStays == UNCHANGED <<search, plain>>

\* The tree becomes t, o having come to the node it is now in: onObjectAdded if
\* that node is linked.  extra is what the caller connects to onVisible itself.
Comes(t, o, extra) ==
  LET new == t.up[o] # up[o] /\ t.up[o] \in linked
      below == Subtree(t, o)
  IN /\ kids' = t.kids /\ up' = t.up /\ rec' = t.rec
     /\ linked' = IF new THEN linked \cup ToSet(below) ELSE linked
     /\ watched' = watched \cup extra \cup (IF new THEN ToSet(below) ELSE {})
     /\ IF new THEN SearchAdds(t, below) ELSE SearchStays

\* Variant: only the object itself is disconnected.
LeavesShallow(t, o, extra) ==
  LET below == ToSet(Subtree(tree, o))
      gone == up[o] # t.up[o] /\ up[o] \in linked
  IN /\ kids' = t.kids /\ up' = t.up /\ rec' = t.rec
     /\ linked' = IF gone THEN linked \ {o} ELSE linked
     /\ watched' = watched \cup extra
     /\ IF gone THEN SearchDrops(below) ELSE SearchStays

\* The tree becomes t, o having left the node it was in: onObjectRemoved if that
\* node is linked.  The connection to onVisible is kept.
Leaves(t, o, extra) ==
  LET below == ToSet(Subtree(tree, o))
      gone == up[o] # t.up[o] /\ up[o] \in linked
  IN /\ kids' = t.kids /\ up' = t.up /\ rec' = t.rec
     /\ linked' = IF gone THEN linked \ below ELSE linked
     /\ watched' = watched \cup extra
     /\ IF gone THEN SearchDrops(below) ELSE SearchStays

-----------------------------------------------------------------------------
Idle == [kind |-> "idle", list |-> <<>>, of |-> None]

Init ==
  /\ status = [o \in Objects |-> "unborn"]
  /\ objMap = <<>>
  /\ kids = [n \in Nodes |-> <<>>]
  /\ up = [o \in Objects |-> None]
  /\ rec = [o \in Objects |-> None]
  /\ hidden = {} /\ weight = Weight0
  /\ watched = {} /\ linked = {Root}
  /\ search = EmptyModel
  /\ queue = <<>> /\ job = Idle /\ changes = 0
  /\ missed = {} /\ orphans = {} /\ renamed = {} /\ plain = <<>>

\* The objects whose addObject and removeObject signals are connected.
Known ==
  {o \in Objects :
     status[o] = "known" \/ (status[o] = "leaving" /\ \E i \in DOMAIN objMap : objMap[i] = o)}
Alive == {o \in Objects : status[o] \notin {"unborn", "dead"}}

StartAnnounce(list) ==
  /\ job' = [kind |-> "announce", list |-> list, of |-> None]
  /\ search' = BeginBatch(search)

\* The QML engine makes an object and its owner takes it (Private::addObject).
\* A repeater passes it to the first named object from itself upwards, or keeps
\* it if there is none: Owner stands for that one.
\* If the owner is connected to the manager its addObject signal announces it.
Make(o) ==
  /\ job = Idle /\ status[o] = "unborn"
  /\ Owner[o] # None => status[Owner[o]] \in {"made", "known"}
  /\ status' = [status EXCEPT ![o] = "made"]
  /\ rec' = [rec EXCEPT ![o] = Owner[o]]
  /\ IF Owner[o] \in Known THEN StartAnnounce(<<o>>) ELSE UNCHANGED <<job, search>>
  /\ UNCHANGED <<objMap, kids, up, hidden, weight, watched, linked, queue, changes, missed, orphans,
                 renamed, plain>>

\* The plugin manager announces a module or a main object.
Announce(o) ==
  /\ job = Idle /\ status[o] = "made" /\ Owner[o] = None
  /\ StartAnnounce(<<o>>)
  /\ UNCHANGED <<status, objMap, kids, up, rec, hidden, weight, watched, linked, queue, changes,
                 missed, orphans, renamed, plain>>

\* A set as a list, each element once, in some order.
Listed(S) ==
  CHOOSE s \in [1..Cardinality(S) -> S] : \A i, j \in DOMAIN s : s[i] = s[j] => i = j

\* The objects an object owns, as its m_objects.
Owned(o) == Listed({c \in Objects : Owner[c] = o /\ status[c] = "made"})

\* addObject, the first loop: an object is registered and put where it belongs.
AnnounceStep ==
  LET o == Head(job.list)
      map == IF Name[o] = None THEN objMap ELSE Append(objMap, o)
      hides == o \in hidden \/ (ParentName[o] # None /\ o \in ConfigHidden)
  IN /\ job.kind = "announce" /\ job.list # <<>>
     /\ status' = [status EXCEPT ![o] = "known"]
     /\ objMap' = map
     /\ IF ParentName[o] = None
        THEN Comes(AddChild(tree, NoParent, o, FALSE), o, {}) /\ UNCHANGED hidden
        ELSE IF hides
        THEN Comes(AddChild(tree, Hide, o, FALSE), o, {o}) /\ hidden' = hidden \cup {o}
        ELSE Comes(AddToParent(tree, map, o), o, {}) /\ UNCHANGED hidden
     /\ missed' = missed \ {o}
     /\ job' = [job EXCEPT !.list = Tail(@) \o Owned(o)]
     /\ UNCHANGED <<weight, queue, changes, orphans, renamed>>

\* Variant: what waits is not looked at.
StartFlushNone ==
  /\ job.kind = "announce" /\ job.list = <<>>
  /\ job' = [job EXCEPT !.kind = "flush"]
  /\ UNCHANGED <<status, objMap, kids, up, rec, hidden, weight, watched, linked, search, queue, changes,
                 missed, orphans, renamed, plain>>

\* The second loop goes over what waits for a parent.
StartFlush ==
  /\ job.kind = "announce" /\ job.list = <<>>
  /\ job' = [job EXCEPT !.kind = "flush", !.list = kids[NoAdd]]
  /\ UNCHANGED <<status, objMap, kids, up, rec, hidden, weight, watched, linked, search, queue, changes,
                 missed, orphans, renamed, plain>>

\* Variant: the object is added to its parent and goes on waiting.
FlushStepKeeps ==
  LET o == Head(job.list)
      p == FindParent(tree, objMap, o)
      t == AddChild(tree, p, o, TRUE)
  IN /\ job.kind = "flush" /\ job.list # <<>>
     /\ IF p = None
        THEN /\ job' = [job EXCEPT !.list = Tail(@)]
             /\ UNCHANGED <<kids, up, rec, linked, watched, search, plain>>
        ELSE /\ Comes(t, o, {})
             /\ job' = [job EXCEPT !.list = t.kids[NoAdd]]
     /\ UNCHANGED <<status, objMap, hidden, weight, queue, changes, missed, orphans, renamed>>

\* An object whose parent is there now goes to it, and the loop starts again.
FlushStep ==
  LET o == Head(job.list)
      p == FindParent(tree, objMap, o)
      t == AddChild(RemoveChild(tree, NoAdd, o), p, o, TRUE)
  IN /\ job.kind = "flush" /\ job.list # <<>>
     /\ IF p = None
        THEN /\ job' = [job EXCEPT !.list = Tail(@)]
             /\ UNCHANGED <<kids, up, rec, linked, watched, search, plain>>
        ELSE /\ Comes(t, o, {})
             /\ job' = [job EXCEPT !.list = t.kids[NoAdd]]
     /\ UNCHANGED <<status, objMap, hidden, weight, queue, changes, missed, orphans, renamed>>

EndFlush ==
  /\ job.kind = "flush" /\ job.list = <<>>
  /\ job' = Idle
  /\ search' = EndBatch(search)
  /\ UNCHANGED <<status, objMap, kids, up, rec, hidden, weight, watched, linked, queue, changes, missed,
                 orphans, renamed, plain>>

-----------------------------------------------------------------------------
(* Changes of an object, and what is posted for later. *)

\* visible or the configuration changes visibleToApp (setFlagState): a connected
\* onVisible is posted with the new value.
ChangeVisible(o) ==
  /\ job = Idle /\ status[o] \in {"made", "known"} /\ changes < MaxChanges
  /\ changes' = changes + 1
  /\ hidden' = IF o \in hidden THEN hidden \ {o} ELSE hidden \cup {o}
  /\ IF o \in watched
     THEN /\ queue' = Append(queue, [call |-> IF o \in hidden THEN "show" ELSE "hide", obj |-> o])
          /\ missed' = missed \ {o}
     ELSE /\ missed' = IF up[Head(PathTo(tree, o))] \in {Root, Hide} THEN missed ELSE missed \cup {o}
          /\ UNCHANGED queue
  /\ UNCHANGED <<status, objMap, kids, up, rec, weight, watched, linked, search, job, orphans, renamed,
                 plain>>

\* Variant: in front of the last of them.
RepositionedBefore(list, o, w) ==
  LET rest == RemoveAt(list, CHOOSE i \in DOMAIN list : list[i] = o)
      lighter == {i \in DOMAIN rest : weight[rest[i]] <= w}
  IN InsertAt(rest, IF lighter = {} THEN 1 ELSE CHOOSE i \in lighter : \A j \in lighter : j <= i, o)

\* Private::updatePos: the child goes behind the last of the others that is not
\* heavier.
Repositioned(list, o, w) ==
  LET rest == RemoveAt(list, CHOOSE i \in DOMAIN list : list[i] = o)
      lighter == {i \in DOMAIN rest : weight[rest[i]] <= w}
  IN InsertAt(rest, IF lighter = {} THEN 1 ELSE 1 + CHOOSE i \in lighter : \A j \in lighter : j <= i, o)

ChangeWeight(o, w) ==
  /\ job = Idle /\ status[o] \in {"made", "known"} /\ changes < MaxChanges
  /\ w # weight[o]
  /\ changes' = changes + 1
  /\ weight' = [weight EXCEPT ![o] = w]
  /\ kids' = IF up[o] = None THEN kids ELSE [kids EXCEPT ![up[o]] = Repositioned(@, o, w)]
  /\ UNCHANGED <<status, objMap, up, rec, hidden, watched, linked, search, queue, job, missed, orphans,
                 renamed, plain>>

\* onObjectDisplayChanged: the entry of the object is taken out, and the object
\* is added again with everything below it.
Rename(o) ==
  LET below == Subtree(tree, o)
  IN /\ job = Idle /\ o \in linked /\ changes < MaxChanges
     /\ changes' = changes + 1
     /\ search' = AddSearchData(RemoveSearchData(search, {o}), Entries(tree, below))
     /\ plain' = AllPlaced(Without(plain, {o}), Entries(tree, below))
     /\ renamed' = renamed \cup (ToSet(below) \ {o})
     /\ UNCHANGED <<status, objMap, kids, up, rec, hidden, weight, watched, linked, queue, job, missed,
                    orphans>>

\* A repeater lets go of an object: the signal removeObject of its recommended
\* parent, which takes it out of the tree if the manager is connected to that
\* parent, and a deletion that is posted.  Nothing else forgets it: it stays in
\* the map, and its visibility is still heard.
Withdraw(o) ==
  LET t == IF rec[o] \in Known THEN Detach(tree, o) ELSE tree
  IN /\ job = Idle /\ o \in Repeated /\ status[o] \in {"made", "known"}
     /\ status' = [status EXCEPT ![o] = "leaving"]
     /\ Leaves(t, o, {})
     /\ queue' = Append(queue, [call |-> "delete", obj |-> o])
     /\ UNCHANGED <<objMap, hidden, weight, job, changes, missed, orphans, renamed>>

-----------------------------------------------------------------------------
(* The event loop delivers what was posted. *)

Delivers(call) ==
  /\ job = Idle /\ queue # <<>> /\ Head(queue).call = call
  /\ queue' = Tail(queue)

\* onVisible(false)
HideObject ==
  LET o == Head(queue).obj
  IN /\ Delivers("hide")
     /\ Leaves(AddChild(Detach(tree, o), Hide, o, FALSE), o, {})
     /\ UNCHANGED <<status, objMap, hidden, weight, job, changes, missed, orphans, renamed>>

\* Variant: onVisible(true) does not look below the object.
StartRevealOnly ==
  LET o == Head(queue).obj
  IN /\ Delivers("show")
     /\ job' = [kind |-> "reveal", list |-> <<>>, of |-> o]
     /\ UNCHANGED <<status, objMap, kids, up, rec, hidden, weight, watched, linked, search, changes,
                    missed, orphans, renamed, plain>>

\* onVisible(true) looks at everything below the object first.
StartReveal ==
  LET o == Head(queue).obj
  IN /\ Delivers("show")
     /\ job' = [kind |-> "reveal", list |-> kids[o], of |-> o]
     /\ UNCHANGED <<status, objMap, kids, up, rec, hidden, weight, watched, linked, search, changes,
                    missed, orphans, renamed, plain>>

\* What is hidden below it goes to Hide.
RevealStep ==
  LET o == Head(job.list)
  IN /\ job.kind = "reveal" /\ job.list # <<>>
     /\ IF o \in hidden
        THEN /\ Leaves(AddChild(Detach(tree, o), Hide, o, FALSE), o, {o})
             /\ job' = [job EXCEPT !.list = Tail(@)]
        ELSE /\ job' = [job EXCEPT !.list = Tail(@) \o kids[o]]
             /\ UNCHANGED <<kids, up, rec, linked, watched, search, plain>>
     /\ missed' = IF o \in hidden THEN missed \ {o} ELSE missed
     /\ UNCHANGED <<status, objMap, hidden, weight, queue, changes, orphans, renamed>>

\* Then the object itself goes to its parent.
EndReveal ==
  LET o == job.of
  IN /\ job.kind = "reveal" /\ job.list = <<>>
     /\ job' = Idle
     /\ Comes(AddToParent(RemoveChild(tree, Hide, o), objMap, o), o, {})
     /\ UNCHANGED <<status, objMap, hidden, weight, queue, changes, missed, orphans, renamed>>

\* A posted deletion.
StartDestroy ==
  /\ Delivers("delete")
  /\ job' = [kind |-> "destroy", list |-> <<Head(queue).obj>>, of |-> None]
  /\ UNCHANGED <<status, objMap, kids, up, rec, hidden, weight, watched, linked, search, changes, missed,
                 orphans, renamed, plain>>

\* Variant: what it owns dies with it and stays where it is.
DestroyStepAtOnce ==
  LET o == Head(job.list)
      below == {c \in Objects : Owner[c] = o /\ status[c] \in {"made", "known"}}
  IN /\ job.kind = "destroy" /\ job.list # <<>>
     /\ status' = [c \in Objects |-> IF c = o \/ c \in below THEN "dead" ELSE status[c]]
     /\ objMap' = Kept(objMap, {i \in DOMAIN objMap : objMap[i] # o})
     /\ Leaves(Erase(tree, o), o, {})
     /\ orphans' = orphans \cup {c \in Objects : up[c] = o}
     /\ queue' = Without(queue, {o})
     /\ job' = [job EXCEPT !.list = Tail(@)]
     /\ UNCHANGED <<hidden, weight, changes, missed, renamed>>

\* ~DccObject: the object leaves the map and the tree, its children are let go,
\* and the QObjects it owns are destroyed after it.  What was posted for it is
\* ignored: its sender is gone.
DestroyStep ==
  LET o == Head(job.list)
      below == Listed({c \in Objects : Owner[c] = o /\ status[c] \in {"made", "known"}})
  IN /\ job.kind = "destroy" /\ job.list # <<>>
     /\ status' = [status EXCEPT ![o] = "dead"]
     /\ objMap' = Kept(objMap, {i \in DOMAIN objMap : objMap[i] # o})
     /\ Leaves(Erase(tree, o), o, {})
     /\ orphans' = orphans \cup {c \in Objects : up[c] = o}
     /\ queue' = Without(queue, {o})
     /\ job' = [job EXCEPT !.list = Tail(@) \o below]
     /\ UNCHANGED <<hidden, weight, changes, missed, renamed>>

EndDestroy ==
  /\ job.kind = "destroy" /\ job.list = <<>>
  /\ job' = Idle
  /\ UNCHANGED <<status, objMap, kids, up, rec, hidden, weight, watched, linked, search, queue, changes,
                 missed, orphans, renamed, plain>>

JobStep ==
  \/ AnnounceStep \/ StartFlush \/ FlushStep \/ EndFlush
  \/ RevealStep \/ EndReveal
  \/ DestroyStep \/ EndDestroy

Deliver == HideObject \/ StartReveal \/ StartDestroy

Next ==
  \/ \E o \in Objects :
       \/ Make(o) \/ Announce(o) \/ Withdraw(o)
       \/ ChangeVisible(o) \/ Rename(o)
       \/ \E w \in Weights : ChangeWeight(o, w)
  \/ Deliver
  \/ JobStep

Spec == Init /\ [][Next]_vars

-----------------------------------------------------------------------------
(* Properties. *)

TypeOK ==
  /\ status \in [Objects -> {"unborn", "made", "known", "leaving", "dead"}]
  /\ objMap \in Seq(Objects)
  /\ kids \in [Nodes -> Seq(Objects)]
  /\ up \in [Objects -> Nodes \cup {None}]
  /\ rec \in [Objects -> Nodes \cup {None}]
  /\ hidden \subseteq Objects /\ weight \in [Objects -> Nat]
  /\ watched \subseteq Objects /\ linked \subseteq Nodes
  /\ search.depth \in 0..1
  /\ queue \in Seq([call : {"show", "hide", "delete"}, obj : Objects])
  /\ job \in [kind : {"idle", "announce", "flush", "reveal", "destroy"}, list : Seq(Objects),
              of : Objects \cup {None}]
  /\ changes \in 0..MaxChanges
  /\ missed \subseteq Objects /\ orphans \subseteq Objects /\ renamed \subseteq Objects

\* m_parent and m_children tell the same story: an object is in the list of the
\* node it calls its parent, once, and in no other list.  addChild does not take
\* an object out of the list it was in, so every caller has to.
ListsAgree ==
  \A n \in Nodes :
    /\ \A i, j \in DOMAIN kids[n] : kids[n][i] = kids[n][j] => i = j
    /\ \A o \in Objects : (\E i \in DOMAIN kids[n] : kids[n][i] = o) <=> up[o] = n

\* The children of a node are in the order of their weights, whatever was added,
\* removed and given another weight.
KidsSorted ==
  \A n \in Nodes : \A i, j \in DOMAIN kids[n] : i < j => weight[kids[n][i]] <= weight[kids[n][j]]

\* The manager hears the changes of children of exactly the nodes that hang
\* below the root.
LinkedIsInTree == \A o \in Objects : o \in linked <=> up[o] \in linked

\* Nothing refers to a destroyed object: no list, no parent, no map.
NothingDangles ==
  \A o \in Objects : status[o] = "dead" =>
    /\ up[o] = None /\ kids[o] = <<>>
    /\ \A c \in Objects : up[c] # o /\ rec[c] # o
    /\ \A i \in DOMAIN objMap : objMap[i] # o

\* When everything posted is handled, no visible object is left in Hide, none
\* waits for a parent that is there, and none is nowhere unless its parent was
\* destroyed.
NothingLeftBehind ==
  job = Idle /\ queue = <<>> =>
    \A o \in Objects \ hidden : status[o] = "known" =>
      /\ up[o] # Hide
      /\ up[o] = NoAdd => FindParent(tree, objMap, o) = None
      /\ up[o] = None => o \in orphans

\* When everything posted is handled, no hidden object is below the root, whether
\* it was hidden there or below something hidden that came back; the objects
\* hidden while they waited for a parent are the exception.
HiddenLeaves == job = Idle /\ queue = <<>> => hidden \cap linked \subseteq missed

\* The same of every hidden object: what the interface document says of
\* visibleToApp, that it decides whether the item is displayed.
HiddenNotShown == job = Idle /\ queue = <<>> => hidden \cap linked = {}

\* The search knows exactly the searchable objects of the tree, and each of them
\* once unless something above it was renamed meanwhile.
SearchMatchesTree ==
  LET entries == search.data \o search.batch
      Of(o) == {i \in DOMAIN entries : entries[i].obj = o}
  IN \A o \in Objects :
       /\ Of(o) # {} <=> o \in linked \cap Searchable
       /\ o \notin renamed => Cardinality(Of(o)) <= 1

\* Collecting the entries of a call of addObject and merging them gives the list
\* that adding each at once would have given, and it is sorted.
BatchUnseen ==
  /\ search.depth = 0 => search.data = plain /\ search.batch = <<>>
  /\ Sorted(search.data)

\* How much the handler j has before it when the lists are t and the lives s: the
\* objects to announce, what waits (each success starts the flush again), the
\* subtrees to look at, what lives.
Rank(t, j, s) ==
  CASE j.kind = "announce" -> Cardinality({o \in Objects : s[o] = "made"})
    [] j.kind = "flush" -> Len(t.kids[NoAdd]) * (Cardinality(Objects) + 1) + Len(j.list)
    [] j.kind = "reveal" ->
         Cardinality({p \in (DOMAIN j.list) \X Objects : p[2] \in ToSet(Subtree(t, j.list[p[1]]))})
    [] OTHER -> Cardinality({o \in Objects : s[o] \notin {"unborn", "dead"}})

\* The loops of the handlers end: those that restart or feed their own list have
\* less before them after every round.
LoopsEnd ==
  [][job # Idle /\ job'.kind = job.kind
     => Rank(tree', job', status') < Rank(tree, job, status)]_vars
====
