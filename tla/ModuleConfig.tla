---- MODULE ModuleConfig ----
(***************************************************************************)
(* Which objects the configuration hides: dccmanager.cpp from              *)
(* updateModuleConfig to updateConfigState, with the searches of objects   *)
(* by url they use.                                                        *)
(*                                                                         *)
(* Two sources are combined.  The list hideModule of the main              *)
(* configuration may change at any time; the objects a changed url means   *)
(* are looked up and computed anew.  One small configuration for every     *)
(* path of a list is read asynchronously at the start; what they say is    *)
(* collected, and takes effect when the last one has answered or failed.   *)
(* Objects arrive and go meanwhile.  disableModule goes the same way with  *)
(* another flag.                                                           *)
(***************************************************************************)
EXTENDS UrlMatch

CONSTANTS
  Chars,        \* the characters of names and urls
  Objects,      \* the objects that name a parent
  Name,         \* name of an object
  ParentName,   \* parentName of an object
  Urls,         \* what the list may hold
  Paths,        \* m_modulePaths
  PathsValid,   \* whether that list can be read at all
  MaxUrls       \* bound: entries of the list at a time

ASSUME CharAssumption == {"/", "*"} \subseteq Chars
ASSUME ObjectAssumption == Name \in [Objects -> Seq(Chars)] /\ ParentName \in [Objects -> Seq(Chars)]
ASSUME UrlAssumption == Urls \cup Paths \subseteq Seq(Chars) \ {<<>>}
ASSUME BoundAssumption == PathsValid \in BOOLEAN /\ MaxUrls \in Nat

\* The paths are urls of objects from the root, as modulepaths.json has them:
\* without wildcards, and with something before, between and after the "/".
ASSUME PathAssumption ==
  \A u \in Paths : ~HasWildcard(u) /\ WholeParts(u)

VARIABLES
  known,        \* the objects in m_objMap
  flagged,      \* the objects with DCC_CONFIG_HIDDEN
  hideModule,   \* m_hideModule
  hiddenPaths,  \* m_moduleHiddenPaths
  reading,      \* the configurations that have not answered; m_moduleConfigPending counts them
  started,      \* loadModuleConfigs has run
  ready         \* m_moduleConfigReady

vars == <<known, flagged, hideModule, hiddenPaths, reading, started, ready>>

Place(o) == ParentName[o] \o Slash \o Name[o]

\* isMatch and isEqual, as contains chooses between them.
Means(url, o) == IF HasWildcard(url) THEN IsMatchByName(url, Place(o)) ELSE IsEqualByName(url, Place(o))

Contains(urls, o) == \E u \in urls : Means(u, o)

\* Variant: the path before the target has to be the parent's name.
FindObjectsExact(url) ==
  LET parts == SplitUrl(url)
      target == parts[Len(parts)]
  IN IF parts = <<>> THEN {}
     ELSE {o \in known :
             /\ IF HasWildcard(target) THEN IsMatchByName(Slash \o target, Name[o]) ELSE Name[o] = target
             /\ Len(parts) > 1 => Slash \o ParentName[o] = JoinPath(SubSeq(parts, 1, Len(parts) - 1))}

\* findObjects: the target is looked up by name, or matched with every name; the
\* path before it is matched with the parent's name.
FindObjects(url) ==
  LET parts == SplitUrl(url)
      target == parts[Len(parts)]
  IN IF parts = <<>> THEN {}
     ELSE {o \in known :
             /\ IF HasWildcard(target) THEN IsMatchByName(Slash \o target, Name[o]) ELSE Name[o] = target
             /\ Len(parts) > 1 => IsMatchByName(JoinPath(SubSeq(parts, 1, Len(parts) - 1)), ParentName[o])}

\* Variant: a path is compared as text, not part by part.
CandidatesByText(url) ==
  LET parts == SplitUrl(url)
      path == JoinPath(SubSeq(parts, 1, Len(parts) - 1))
  IN {o \in known :
        /\ parts # <<>> /\ Name[o] = parts[Len(parts)]
        /\ Len(parts) > 1 => Slash \o ParentName[o] = path}

\* findObject takes the first of these that has arrived; wildcards are plain characters.
Candidates(url) ==
  LET parts == SplitUrl(url)
      path == Tail(JoinPath(SubSeq(parts, 1, Len(parts) - 1)))
  IN {o \in known :
        /\ parts # <<>> /\ Name[o] = parts[Len(parts)]
        /\ Len(parts) > 1 => IsEqualByName(path, ParentName[o])}

\* What updateConfigState makes of the flag of an object.
Asked(o, urls, paths, effective) == Contains(urls, o) \/ (effective /\ Contains(paths, o))

\* updateConfigState for some objects.
Updated(objs, urls) ==
  (flagged \ objs) \cup {o \in objs : Asked(o, urls, hiddenPaths, ready)}

-----------------------------------------------------------------------------
Init ==
  /\ known = {} /\ flagged = {} /\ hideModule = {}
  /\ hiddenPaths = {} /\ reading = {} /\ started = FALSE /\ ready = FALSE

\* loadModuleConfigs: a reader for every path, or none.
LoadModuleConfigs ==
  /\ ~started
  /\ started' = TRUE
  /\ IF PathsValid THEN reading' = Paths /\ UNCHANGED ready
     ELSE ready' = TRUE /\ UNCHANGED reading
  /\ UNCHANGED <<known, flagged, hideModule, hiddenPaths>>

\* Variant: the last reader makes the rest effective only if it brought something.
FinishModuleConfigItemIfRead(p, paths) ==
  /\ hiddenPaths' = paths
  /\ reading' = reading \ {p}
  /\ IF reading' = {} /\ paths # hiddenPaths
     THEN ready' = TRUE /\ flagged' = flagged \cup UNION {FindObjects(u) : u \in paths}
     ELSE UNCHANGED <<ready, flagged>>

\* finishModuleConfigItem: when the last reader is done, what was collected takes
\* effect on the objects that are there (refreshModuleConfigState).
FinishModuleConfigItem(p, paths) ==
  /\ hiddenPaths' = paths
  /\ reading' = reading \ {p}
  /\ IF reading' = {}
     THEN ready' = TRUE /\ flagged' = flagged \cup UNION {FindObjects(u) : u \in paths}
     ELSE UNCHANGED <<ready, flagged>>

\* configInitializeSucceed
PathRead(p, visible) ==
  /\ p \in reading
  /\ FinishModuleConfigItem(p, IF visible THEN hiddenPaths ELSE hiddenPaths \cup {p})
  /\ UNCHANGED <<known, hideModule, started>>

\* configInitializeFailed, or a reader that could not be made.
PathFailed(p) ==
  /\ p \in reading
  /\ FinishModuleConfigItem(p, hiddenPaths)
  /\ UNCHANGED <<known, hideModule, started>>

\* updateModuleConfig: the objects of the urls that came and of those that went.
UpdateModuleConfig(urls) ==
  LET changed == UNION {FindObjects(u) : u \in (urls \ hideModule) \cup (hideModule \ urls)}
  IN /\ hideModule' = urls
     /\ flagged' = Updated(changed, urls)
     /\ UNCHANGED <<known, hiddenPaths, reading, started, ready>>

\* One entry comes or goes; those that hold another character are dropped when
\* the list is read, and Urls has none of them.
ListChanges ==
  \E u \in Urls :
    \/ Cardinality(hideModule) < MaxUrls /\ u \notin hideModule /\ UpdateModuleConfig(hideModule \cup {u})
    \/ u \in hideModule /\ UpdateModuleConfig(hideModule \ {u})

\* addObject registers an object and computes its flag.
AddObject(o) ==
  /\ o \notin known
  /\ known' = known \cup {o}
  /\ flagged' = Updated({o}, hideModule)
  /\ UNCHANGED <<hideModule, hiddenPaths, reading, started, ready>>

\* Variant: the lists still hold the destroyed object.
ObjectDestroyedKept(o) ==
  /\ o \in known
  /\ known' = known \ {o}
  /\ UNCHANGED <<flagged, hideModule, hiddenPaths, reading, started, ready>>

\* onDccObjectDestroyed
ObjectDestroyed(o) ==
  /\ o \in known
  /\ known' = known \ {o} /\ flagged' = flagged \ {o}
  /\ UNCHANGED <<hideModule, hiddenPaths, reading, started, ready>>

PathAnswers == \E p \in Paths : PathFailed(p) \/ \E visible \in BOOLEAN : PathRead(p, visible)

Next ==
  \/ LoadModuleConfigs
  \/ PathAnswers
  \/ ListChanges
  \/ \E o \in Objects : AddObject(o) \/ ObjectDestroyed(o)

Spec == Init /\ [][Next]_vars

\* The constructor goes on to loadModuleConfigs, and a reader succeeds or fails.
FairSpec == Spec /\ WF_vars(LoadModuleConfigs) /\ WF_vars(PathAnswers)

-----------------------------------------------------------------------------
TypeOK ==
  /\ known \subseteq Objects /\ flagged \subseteq known
  /\ hideModule \subseteq Urls
  /\ hiddenPaths \subseteq Paths /\ reading \subseteq Paths
  /\ started \in BOOLEAN /\ ready \in BOOLEAN

\* Every object that is there is hidden by the configuration exactly if one of
\* the two sources asks for it, whatever order the sources, their changes and the
\* objects came in: what a change looks up by url never misses an object that the
\* url means when the object is asked.
FlagsFollowConfig ==
  \A o \in known : o \in flagged <=> Asked(o, hideModule, hiddenPaths, ready)

\* The two ways of asking agree: what a url of the list means when an object is
\* asked, a search by that url finds; and a search by a path finds nothing else.
SearchFinds ==
  \A o \in known :
    /\ \A u \in hideModule : Means(u, o) => o \in FindObjects(u)
    /\ \A u \in hiddenPaths : Means(u, o) <=> o \in FindObjects(u)

\* A page is looked for by findObjects while plugins load and by findObject when they
\* have: a url without wildcards leads to the same objects both times, whatever its
\* slashes and however many parts of the place it names.
PagesFound ==
  \A u \in hideModule : ~HasWildcard(u) => Candidates(u) = FindObjects(u)

\* A url never matches a place its parts do not match.
MatchesAreParts == \A u \in hideModule, o \in Objects : Means(u, o) => PartsMatch(u, Place(o))

\* A url whose wildcards stand for whole parts matches every place its parts match.
WholePartsMatch ==
  \A u \in hideModule, o \in Objects :
    /\ HasWildcard(u)
    /\ \A i \in DOMAIN SplitUrl(u) : HasWildcard(SplitUrl(u)[i]) => SplitUrl(u)[i] = <<"*">>
    /\ \A i \in 1..(Len(u) - 1) : u[i] = "/" => u[i + 1] # "/"
    /\ u[Len(u)] # "/"
    /\ PartsMatch(u, Place(o))
    => Means(u, o)

\* Places as the plugins name them, and what the theorems about matching ask of them:
\* nothing empty between the "/" of a parent's name, and none in a name.  (The objects
\* of the Bluetooth plugin that are named by a D-Bus path are not of this kind.)
PlacesAreWhole ==
  \A o \in Objects :
    /\ WholeParts(ParentName[o])
    /\ Name[o] # <<>> /\ \A i \in DOMAIN Name[o] : Name[o][i] # "/"

\* The wildcard is no character of a place.
PlacesArePlain == \A o \in Objects : ~HasWildcard(Place(o))

\* What the small configurations say takes effect in the end, also if some of
\* them fail.
ConfigsTakeEffect == started /\ (PathsValid => Paths # {}) ~> ready
====
