# TLA+ models of dde-control-center

TLA+ modules, TLC configurations and TLAPS proofs about the core of
dde-control-center, the settings program of the deepin desktop. The modules are
translated from the C++ sources under `src/src/`; `PROJECT.json` names, for every
definition, the lines it stands for. All paths below are relative to `src/src/`
unless they begin with `docs/`; `dcc/` stands for `dde-control-center/`.

## 1. The system

The control center is one Qt process, usually started over D-Bus. It loads some
twenty plugins (QML files and, for most of them, a shared library), hangs the
`DccObject`s they bring into one tree of pages, and shows pages of that tree in a
window when the user, a second instance, or another program over D-Bus asks for
them. Almost everything runs on the GUI thread as posted calls and timers; each
plugin's library is loaded by a task on a thread pool.

| Component | State it keeps | Operations | Talks to |
|---|---|---|---|
| **Plugin loading** `dcc/pluginmanager.cpp`, `dcc/dccpluginloader.*` | per plugin a set of status bits, its data, module and main objects; `m_navigationFinished`, `m_dataPhaseStarted`, `m_allLoadFinished`, `m_isDeleting`; the pool | `loadModules`, `loadPlugin` (once per queued `statusChanged`), `startDataPhase`, `LoadDataTask::run`, `updateVisible`, `cancelLoad`, `beginDelete` | object tree (`addObject`), page requests (`navigationReady`, `loadAllFinished`, `loadFinished()`), module configuration (`hideModule`) |
| **Page requests and the window** `dcc/dccmanager.cpp` | pending request, three timers, `m_showPagePending`, `m_needShow`, active object, window visibility | `showPage`, `waitShowPage`, `doShowPage`, `tryShow`, `tryShowFallback`, `handleShowReady`, `show`, `toggle`, `onObjectRemoved`, `clearData` | plugin loading, tree, D-Bus adaptor |
| **D-Bus adaptor, start-up** `dcc/controlcenterdbusadaptor.cpp`, `dcc/main.cpp` | none of its own | `Show`, `ShowHome`, `ShowPage`, `ShowModule`, `Toggle`, `Hide`, options of a second instance | page requests |
| **Object tree** `dcc/dccmanager.cpp`, `dcc/plugin/dccobject.cpp` | parent, children, hidden flags and weight of each object; the `_hide`, `_noAdd`, `_noParent` holding places; `m_objMap` | `addObject`, `removeObject`, `onVisible`, `addObjectToParent` | everything |
| **Module configuration** `dcc/dccmanager.cpp` | `m_hideModule`, `m_disableModule`, per-module DConfig | `updateModuleConfig`, `loadModuleConfigs`, `refreshModuleConfigState` | tree, plugin loading |
| **Search** `dcc/searchmodel.cpp`, `dcc/dccmanager.cpp` | sorted search items, unanswered searches | merge of a batch, binary search, `Search`, `Stop`, `Action` | tree, page requests |
| **QML D-Bus interface** `dcc/plugin/dccquickdbusinterface.cpp` | property cache, pending calls | `GetAll`, `PropertiesChanged`, property writes, callbacks | plugins' QML |
| **List models, image provider** `dcc/navigationmodel.cpp`, `dcc/plugin/*` | views of the tree, thumbnails | model signals | QML |
| **Plugins, dock plugins, shared input manager** `plugin-*`, `dock-plugins/`, `shared-utils/` | mirrors of D-Bus or Wayland services | property changes both ways | system services |

### What is hard

* **Two threads and one status word.** `transitionStatus` reads, stores and reads
  `m_status` again: three atomic accesses, not one atomic update, and both the GUI
  thread and the pool do it.
* **Stale events.** `statusChanged` is queued. `loadPlugin` dispatches on the
  status at delivery, not at the transition that posted it.
* **A goal that moves.** `hideModule` and a module's visibility change while the
  plugin is anywhere in its loading; `updateVisible` resets the status of a plugin
  that has ended; `loadFinished()` is recomputed and may become false again.
* **Requests, timers and signals** all get at the one pending request and the one
  `m_showPagePending` flag, in any order.
* **Shutdown** while tasks run.
* **The tree** changes under queued visibility changes that carry the value of
  another moment, under loops over lists that the loop's own calls change, and under
  objects that arrive before their parents.
* **Two matchers** decide what a url of the configuration means: one looks objects up
  by url, the other asks one object whether a url means it. Flags are right only as
  long as the two agree.
* **Values that come back.** A property written from QML goes to the service and
  returns as a signal; several clients and several writes are on the way at a time.

### What makes each component correct

* *Plugin loading*: plugins pass their phases in the documented order; no library
  is touched before the navigation is announced; a library is loaded by one task
  and its data object is handed over complete; every visible plugin's main object
  reaches the tree, and only once; loading ends; nothing survives the destructor.
* *Page requests*: every D-Bus call is answered once or superseded; the page asked
  for last is the one that stays; a command reaches its page; who asks for the
  window gets it; the automatic exit spares whoever asked for it.
* *Object tree*: child lists and parents agree; after the queue has drained nothing
  visible is left hidden or waiting beside its parent, and nothing hidden hangs in the
  tree; nothing refers to an object that is gone; every loop ends.
* *Module configuration*: at every moment the flags are what the two sources together
  ask for, and the small configurations take effect in the end.
* *Search*: the entries are those of the tree, sorted, and a batch gives the list that
  single insertions would have given.
* *QML D-Bus interface*: cache and property end with the service's value, the last
  write stands, and clients do not answer one another for ever.

## 2. Modules

| Module | What it is |
|---|---|
| `PluginLoad` | plugin loading: GUI thread, pool threads, configuration changes, shutdown |
| `LoadPhases` | abstract specification: the phases of a plugin and the two announcements, without bits, events or threads. `PluginLoad` implements it (`ImplementsPhases`) |
| `ShowPage` | page requests, the window, fallback and automatic exit |
| `ObjectTree` | the tree of objects: announcing, waiting, hiding, showing, weights, repeated objects, destruction; drives the search |
| `SearchModel` | the list of search entries with its batches, as operators on a record; `ObjectTree` extends it, so the two are checked together |
| `ModuleConfig` | what the configuration hides: the main list, the small configurations, the flags |
| `UrlMatch` | how a url is matched with an object, as recursive functions, and what matching would mean; `ModuleConfig` extends it |
| `QuickDBus` | the QML D-Bus interface: clients that mirror a property of a service |
| `PluginLoad_proofs`, `ShowPage_proofs`, `ModuleConfig_proofs`, `QuickDBus_proofs`, `ObjectTree_proofs`, `ObjectTreePlaces_proofs` | theorems |
| `ListFacts`, `ObjectTreeFacts` | the lemmas the two modules about the tree rest on: lists; the search and its order, the operations on the tree |
| `MCPluginLoad`, `MCShowPage`, `MCObjectTree`, `MCModuleConfig`, `MCQuickDBus` | instances for TLC |

Definitions marked *Variant* are plausible mistakes in the definition that follows
them. No specification uses one; each shows, put in the place of the definition, that
a property would notice.

### PluginLoad

`status[l]` is `m_status` as a set of the bits some branch tests; `{}` is
`PluginBegin`. The bits nobody tests (`ModuleCreate`, `ModuleErr`,
`MainObjCreate`, `MainObjAdd`, `MainObjErr`) belong to the transition beside them.
`tx[t]` is the `transitionStatus` call thread `t` is in: `TxLoad`, `TxStore` and
`TxCheck` are its three accesses, so that another thread may write in between.
`queue` is the GUI thread's event queue. One action stands for each branch of
`loadPlugin` (`FinishPlugin`, `AddMain`, `StartMain`, `ModuleDone`, `StartModule`,
`LoadMetaData`, in that order of their guards; `DropEvent` is the early return on
`isDeleting`). A branch that makes two transitions is continued by `LoadMain` or
`LoadModule`. `CheckNavigationFinished` with `HandOver` is `checkNavigationFinished`
with `startDataPhase`. `UpdateVisible`, `ResetRead` and `ResetStore` are
`updateVisible(true)` with its read, its store and its transition. The steps of
`LoadDataTask::run` are `TaskStart` to `TaskEnd`; `BadSo` and `NoSo` choose the
outcome of loading and of creating. `Join` is `waitForDone` and the deletion of
the pool.

Abstractions:

* `HandOver` sets `DataBegin` for all plugins at once. A plugin in `Ready` has no
  task, so nothing else writes its status there.
* The pool is a set, so tasks start in any order.
* A behaviour ends when a plugin is handed to the pool a second time (`OneTask` in
  `Next`): two tasks of one loader, and `startDataPhase` writing a status that a task
  writes too, are not modelled. `OneDataTask` shows that it takes an `Overlap`, both
  threads inside a change of one status, to get there; section 4 says how.
* `waitForDone(3000)` may give up, but `delete m_threadPool` blocks until the
  running tasks are done (so does QThreadPool's destructor), so that `Join` has no
  timeout. A mutant with one violates `NoTaskAfterDelete`.
* The 100 ms timer outlasts what is posted before it starts: `CheckNavigationFinished`
  leaves a mark in `queue`, and the timer fires at any moment after the mark.
* Compiling QML and looking up files are their outcomes. The task that warms up the
  QML cache touches no state of the loaders and is left out, as is a plugin
  directory of no known type.
* What hides a plugin (`hideModule`, QML) is an environment action.

`LoadPhases` has the phases of the loading section of the documentation (`module`,
`ready`, `data`, `main`, `done`) and what hiding makes of them: `skipped` for a plugin
that ends before its task, `interrupted` for one that ends while its task runs, and
`lost` for one whose status no longer says that it had a task. `PhaseOf` reads the
phase off the status bits and the count of tasks. What is promised in every phase is
that the data object is created once and handed over once, that the main object is
built from `data` only and never from an object a worker holds, that no library is
touched before `navigationReady`, and that `loadAllFinished` finds every plugin at an
end.

### ShowPage

`queue` holds the calls posted to the GUI thread: a request (`call`), a
`waitShowPage` (`wait`), a `doShowPage` (`show`) and the two signals of the plugin
manager. `showUrl` is `m_showUrl` with `m_showMessage`. `WaitFound`, `WaitPending`,
`WaitNotFound` and `WaitDeleting` are the ways through `waitShowPage`; `DoShowPage`,
`DoShowCommand` and `DoShowNothing` those through `doShowPage`; `Resolve` is the end
of `tryShow`. `Detach` includes `onObjectRemoved` with its direct call of
`doShowPage`. `replies`, `dropped`, `activated`, `latest` and `asked` are history
variables that only the properties read.

Abstractions:

* A page stands for the object its url leads to; how a url is matched is `UrlMatch`,
  which is not composed with this module. Pages attach at any time and those in
  `MayLeave` detach again, for good (`PluginLoad` says how they load, `ObjectTree`
  where they hang).
* `MaxRequests` bounds how many of `Requests` one behaviour makes, so that every pair
  of three requests is covered at the cost of two.
* A due timer may fire before or after any posted call. The only order between timers
  is that the ten second timer outlasts the five second one.
* `Quit` is `clearData` in one step: the event loop has ended by then.
* `showPage(obj)` from QML and `Action()` of the search service reach the same
  `doShowPage` as a request; they are not separate actions.

### ObjectTree and SearchModel

`kids[n]`, `up[o]` and `rec[o]` are `m_children`, `m_parent` and
`m_recommendedParent`; the nodes are the objects, the root and the manager's three
lists (`m_hideObjects`, `m_noAddObjects`, `m_noParentObjects`), which are `DccObject`s
as well. `AddChild`, `RemoveChild`, `Detach` and `Erase` are the operations of
`dcc/plugin/dccobject.cpp` on them as pure operators, so that a handler that makes
several calls is their composition. `linked` is the set of nodes whose `childAdded`
and `childRemoved` reach the manager, `watched` the objects whose
`visibleToAppChanged` does.

A handler that loops over objects is a *job*: `Announce` begins `addObject`, whose
two loops are `AnnounceStep` and then `StartFlush`, `FlushStep`, `EndFlush` (give what
waits to a parent that has come, and start again after each success); `StartReveal`,
`RevealStep`, `EndReveal` are `onVisible(true)`, `HideObject` is `onVisible(false)`;
`StartDestroy`, `DestroyStep`, `EndDestroy` a destruction with what is declared in the
object. While a job runs nothing else happens, as on the GUI thread. The queue holds
what is posted: `onVisible` with the value of the time of the change, and
`deleteLater` of repeated objects (`Withdraw`).

`SearchModel` has `m_data`, `m_batchData` and `m_batchDepth`. Its entries carry the
object and the weights on its path, which is all the order looks at.

Abstractions: a `parentName` is the name of one object and not a url (matching is
`UrlMatch`); text, pinyin and score of a search entry are left out; each object is
announced once; the `enabled` flag is left out, as it moves nothing; what makes an
object invisible is one set, `hidden`, whichever of the flags is the reason.
`missed`, `orphans`, `renamed` and `plain` are history variables for the properties.

### ModuleConfig and UrlMatch

`hideModule` is the list, `hiddenPaths` what the small configurations collected,
`reading` the readers that have not answered (`m_moduleConfigPending` counts them),
`ready` is `m_moduleConfigReady`. `LoadModuleConfigs`, `PathRead`, `PathFailed`,
`UpdateModuleConfig`, `AddObject` and `ObjectDestroyed` are the functions of these
names; `FinishModuleConfigItem` includes `refreshModuleConfigState` when the last
reader is done. `disableModule` goes the same way with another flag and is not a
second copy. Here characters matter: a url is a sequence of them, and
`IsEqualByName`, `IsMatchByName` and `SplitUrl` read it as the code does.
`IsMatchByName` is the loop with its two indices and the wildcard flag as a recursive
function. `Candidates` is `findObject`, which takes the first of them; the search for a
page uses it when loading has ended and `FindObjects` before. `Glob` and `PartsMatch` say what matching would mean and model no
code. `Chars` are the characters there are, two of them `/` and `*`. `PathAssumption` is
what `misc/configs` holds: the paths of the small configurations have no wildcard,
and something before, between and after their slashes. `PlacesAreWhole` says the same
of the names of parents, and that a name has no slash; it is a hypothesis of theorems
and no assumption, since one kind of object in the repository is not like that (§4).

### QuickDBus

One property of one service, of the QML type `var`. Each client has its own
connection; `toService` and `toClient` are what is on its way, in order, the calls
posted to the client's thread included. `Connect` and `Subscribed` are the two halves
of `connectToDBus` (ask, then subscribe): the service may change between them.
`Receive` is `onAllProperties`, for the answer and for the signal; `Spy` is
`onPropertySpy`. The service is external: `ServiceAnswers`, `ServiceSets`,
`ServiceRefuses` and `ServiceChanges` are what the code can meet. `untold`, `refused`
and `lost` are history: the clients that could not have known.

## 3. Runs

`CHECK_DEADLOCK FALSE` is set where the program really stops: it is deleted, or all
that the bounds allow has happened and the event loop waits.

| Run | Instance | What it asks |
|---|---|---|
| `plugin_load` | 2 plugins, one with a broken library; started without a window; pool of 1; 2 `hideModule` changes | `TypeOK`, `DataSettled`, `OneMain`, `NavigationFirst`, `NoTaskAfterDelete`, `ImplementsPhases`, `OneDataTask` in every interleaving |
| `plugin_load_shown` | 2 plugins, one hidden at start, one without a library; window at start, so with the 100 ms timer; pool of 2; 1 `hideModule` change, 2 visibility changes | `LoadFinishes`, `VisibleLoadsUnlessInterrupted`, `ImplementsPhases` |
| `show_page` | 2 pages; any two of a page, the home page and a command; 1 plugin loads again, 1 page leaves, window hidden once | `TypeOK`, `Accounted`, `ExitOnlyUnasked`, `CommandDelivered` |
| `show_page_answers` | a page over D-Bus that comes late, the indicator of one that is there and may leave; 1 plugin loads again | `EveryCallEnds`, `LastWins`, `Opens`, also when `loadFinished()` is false again and no second `loadAllFinished` will come |
| `object_tree` | a module, the plugin's main object, two repeated objects of one name, an object beside them and one declared in the second, both for the item by its name; 2 changes of visibility, weight or name | `TypeOK`, `ListsAgree`, `KidsSorted`, `LinkedIsInTree`, `NothingDangles`, `NothingLeftBehind`, `HiddenLeaves`, `SearchMatchesTree`, `BatchUnseen`, `LoopsEnd` |
| `module_config` | 3 objects, 2 small configurations, every url of at most four characters over two letters, `/` and `*` | `TypeOK`, `FlagsFollowConfig`, `SearchFinds`, `PagesFound`, `MatchesAreParts`, `WholePartsMatch`, `ConfigsTakeEffect` |
| `quick_dbus` | 2 clients; 2 writes, 1 change, 1 refusal, 2 changes of `enabled` | `TypeOK`, `CacheIsCurrent`, `PropertyIsCurrent`, `LastWriteHolds`, `CallsEnd` |
| `plugin_load_lost_bit` | 2 sound plugins, no change of configuration | violates `VisibleLoads` |
| `plugin_load_shown_again` | a plugin hidden and shown again, pool of 1 | violates `VisibleLoadsUnlessOverlap` |
| `show_page_stuck` | one request, a plugin that hangs, pages in the tree in time | violates `OpensAnyway` |
| `show_page_bad_url` | one request, window that needs no page | violates `BadUrlNoUi` |
| `object_tree_hidden` | the objects of `object_tree`, 1 change | violates `HiddenNotShown` |

**Bounds.** `MaxHideChanges`, `MaxToggles`, `MaxUnloads`, `MaxHides`, `MayLeave`,
`MaxRequests`, `MaxChanges`, `MaxUrls`, `MaxWrites` and `MaxRefusals` bound what the
environment does, never what the code does.
*Plugin loading*: two plugins are enough for the hazards known: one whose `ModuleEnd`
is delivered last, one whose event is still queued, and one task to run beside the GUI
thread. A change of `hideModule` may hide or show any set of plugins, and two hide a
plugin while its task runs and show it again: the shortest way to `interrupted`, to
`lost` and to a second task, all of which `plugin_load` reaches. Two visibility changes
do the same through QML. The safety properties also hold in larger instances that take
too long for a regular run: two sound plugins, or one broken, with two changes and a
pool of 2 (1.1 and 2.8 million states).
*Pages*: two requests are enough for a pending request to be superseded, a posted show
to be overtaken and an answer to race a newer call; two pages let a show be a change
of page.
*Tree*: six objects give three levels below the root, two objects of one name, one
object that finds the item through the map of names and one that is declared in it and
is destroyed with it, an object with neither name nor parent, and every order of
arrival; two changes hide and show an object again, with anything in between. Each
object is made once and destroyed once. An object's owner is its recommended parent, so
that the walk of `findParent` up past the owner (`dcc/dccmanager.cpp:785`) needs a
seventh object, declared in something inside the item; the same properties hold with
it, in an instance too large for a regular run (4 million states).
*Configuration*: the list holds one url at a time, but changes as often as it likes,
and the flags of three objects are set by it and by two small configurations; four
characters hold a wildcard in front of, behind and around a letter and a `/`, a part
of two letters, and a url of two parts.
*D-Bus*: two writes of one client or of two, with a change in between, are the shortest
way to an old value that is sent back; with more writes the same steps repeat.

**Fairness.** `PluginLoad`: the GUI thread's event loop keeps running
(`WF(GuiStep)`) and the operating system schedules each pool thread
(`WF(TaskStep(l))`), both up to a plugin's second task, where the model ends. None on the environment: nobody has to change `hideModule` or
to quit. `ShowPage`: the event loop delivers posted calls and activates due timers
(`PostedCall`, `TryShow`, `TryShowFallback`, `AutoExit`), and the plugin manager
announces the navigation and, once all plugins are loaded, the end of loading. None
on users, pages or `FinishLoading`: a plugin may hang. `ModuleConfig`: the constructor
goes on to `loadModuleConfigs`, and a reader reports success or failure, as DConfig
promises. `QuickDBus`: the bus and the event loop deliver, the call that subscribes
returns, and the service deals with each call, if only by an error (D-Bus turns
silence into one). `ObjectTree` needs none: `LoopsEnd` is an action property with a
measure that every step of a loop lowers (that a handler is worked at to its end needs
no stating: nothing else is enabled meanwhile).

**Conditions inside the properties.** `OneDataTask`, `LoadFinishes` and
`VisibleLoadsUnlessInterrupted` leave aside the runs in which both threads are inside a
change of one status (`Overlap`), because a bit may be lost there:
`plugin_load_lost_bit` is that case. `VisibleLoadsUnlessInterrupted` also leaves aside
the runs in which a plugin is hidden during its task (`Interrupted`), which
`plugin_load_shown_again` is about. `DataSettled` and `OneMain` hold up to a second
task of a plugin. `LastWins` leaves aside a `Lapse`: a queued show that
`m_showPagePending` no longer announces while the fallback is still to come, which then
sends the home page after it. `Opens` requires loading to end for good within the five
seconds of the fallback; `show_page_stuck` is the case where it does not end.
`OpensAnyway`, which that run violates, has as premises that the tree has a page when the
navigation is announced and when the fallback fires, and that the page a request waits
for comes: without them the trace could be a fallback spent on an empty tree (section 4).
`HiddenLeaves` leaves aside
the objects hidden while they waited (`missed`): `object_tree_hidden` is that case.
`NothingLeftBehind` leaves aside the children of a destroyed parent (`orphans`), which
the code does not attach again, and `SearchMatchesTree` lets an object below one that
was renamed have several entries. `WholePartsMatch` speaks of wildcards that stand for
whole parts only. In `QuickDBus` the exceptions are `untold`, `refused` and `lost`.

## 4. Where the program and its documentation disagree

1. **A status bit is lost** (`plugin_load_lost_bit`). The last plugin's `ModuleEnd`
   event starts the tasks of all ready plugins while the `ModuleEnd` events of others
   are still queued. Such an event finds `DataBegin` set, falls through to
   `loadMetaData`, and its `transitionStatus(MetaDataEnd)` overwrites the `DataEnd`
   the task sets meanwhile. The plugin never shows its pages and `loadAllFinished`
   is never emitted (`dcc/dccpluginloader.cpp:119`).
2. **A plugin shown again stays away** (`plugin_load_shown_again`). The same stale
   event reads `hideModule` again: a plugin hidden by then gets `PluginEnd` while its
   task runs on and sets `DataEnd`, and `updateVisible` does not resume a plugin that
   has `DataEnd` (`dcc/dccpluginloader.cpp:140`).
3. **A stuck plugin keeps the window closed** (`show_page_stuck`). The five second
   fallback, there for that case, is a single shot that does nothing while a request
   is pending (`dcc/dccmanager.cpp:1048`); `tryShow` waits for all plugins before it
   looks for the page (`:1007`). In the trace the window and a page are asked for, the
   fallback fires while the request is pending and the tree has a page, the page asked for
   comes, before that or after, and one plugin never finishes: the window stays closed.
4. **A wrong url opens the window** (`show_page_bad_url`). `showPage(url)` shows
   before `waitShowPage` looks the url up; a comment in `main.cpp` says a wrong D-Bus
   argument changes nothing of the UI (`dcc/dccmanager.cpp:361`).
5. **An object hidden while it waits is shown** (`object_tree_hidden`). An object whose
   parent is missing is parked without a connection to its visibility, and the loop
   that gives it to the parent does not look at it (`dcc/dccmanager.cpp:322`, `:331`);
   `docs/v25-dcc-interface.zh_CN.md:65` says that `visibleToApp` decides whether the
   item is displayed.

Observations that contradict no text of the repository and have no run of their own:

* A plugin hidden and shown again while its task runs may have its library loaded twice:
  `updateVisible` takes the status, sets it to `PluginBegin` and adds the old bits
  again, the task's own read and store in between write a status without `DataBegin`,
  and the next `startDataPhase` finds the plugin ready (`dcc/dccpluginloader.cpp:142`,
  `dcc/pluginmanager.cpp:250`). `plugin_load` reaches such states, with an `Overlap`.
* Where the navigation is announced, or the five seconds are over, before the tree has a
  page, the fallback is spent on a home show that finds nothing: `tryShowFallback` stops
  the timer, `doShowPage` returns (`dcc/dccmanager.cpp:1052`, `:1070`), and
  `handleShowReady` at the end of loading does nothing without the timer (`:989`). On
  treeland a window asked for before then stays closed until a page is asked for.
* A request that is superseded by one for a page that does not exist leaves the window
  closed where the fallback fired while the first was pending: `waitShowPage`, unlike
  `tryShow`, does not go home when it finds nothing (`dcc/dccmanager.cpp:958`).
* `onObjectDisplayChanged` takes out one search entry and adds the whole subtree, so
  that what is below has two entries (`dcc/dccmanager.cpp:1424`).
* `addChild` does not look whether the new child is above the parent
  (`dcc/plugin/dccobject.cpp:85`). A page that has lost its parent to a destruction and
  is hidden and shown looks for it by name again, and may find another object of that
  name below itself: the two then hang in a circle apart from the tree, and a posted
  `onVisible(true)` of an object in it that was hidden unheard never ends, since it
  appends children of children for ever (`dcc/dccmanager.cpp:1350`). It takes two
  objects of one name, one below an object that asks for that name; five objects and
  four changes in `ObjectTree` get there. Where names form no circle
  `LoopsAlwaysEnd` excludes it.
* The children of a destroyed object are not attached again when it is made anew. A
  repeated object that hangs directly below the root is not taken out of it.
* A url that names several objects leads to the first *attached* one while plugins load
  and to the first of all when they have, and then to none if that one is not attached
  (`dcc/dccmanager.cpp:947`, `:1020`).
* A wildcard does not go back: `x*` does not match the name `xx`, and a url with a
  character beyond letters, digits, `/` and `*` is dropped, so that names with `-` or
  `_` cannot be configured. The comment at `dcc/dccmanager.cpp:1216` announces a
  clean-up of blanks and repeated wildcards that the code below it does not do.
* The object of a Bluetooth adapter is named by `blueToothCtl` and a D-Bus path
  (`plugin-bluetooth/qml/Adapters.qml:24`), so its name has slashes. A url of the list
  can mean it when it is announced, but no search by that url finds it, as
  `findObjects` looks the last part up as a name (`dcc/dccmanager.cpp:748`): it follows
  the list only when it is announced anew. That is why `SearchAlwaysFinds` and
  `FlagsAreRight` ask for `PlacesAreWhole`.
* All small configurations wait for the last reader: one that never reports leaves all
  of them without effect.
* A search over D-Bus that arrives while a plugin loads *again* waits for a signal that
  is emitted once and has been emitted (`dcc/dccmanager.cpp:475`,
  `dcc/pluginmanager.cpp:261`).
* In the D-Bus interface: a change between `GetAll` and the subscription is not heard
  of; a write before the first answer goes out under an empty name; a refused value
  stays in the property; a write that is taken back before its signal has come is not
  sent; an error callback is called only if the *success* member is callable; the
  argument loop of a signal callback goes one too far (`:205`).

## 5. Theorems

For every set of plugins, pages, requests, objects, urls, clients and values and every
value of the bounds, from the named assumptions on the constants and nothing else:

| Theorem | Says |
|---|---|
| `PluginLoad_proofs!TypeCorrect` | `Spec => []TypeOK` |
| `PluginLoad_proofs!NavigationIsFirst` | `Spec => []NavigationFirst` |
| `PluginLoad_proofs!NothingOutlivesDelete` | `Spec => []NoTaskAfterDelete` |
| `PluginLoad_proofs!MainUsesSettledData` | `Spec => []DataSettled` |
| `PluginLoad_proofs!OneTaskPerPlugin` | `Spec => OneDataTask` |
| `PluginLoad_proofs!OneMainPerPlugin` | `Spec => []OneMain` |
| `PluginLoad_proofs!LoadingFollowsPhases` | `Spec => ImplementsPhases`, the refinement of `LoadPhases` |
| `ShowPage_proofs!TypeCorrect` | `Spec => []TypeOK` |
| `ShowPage_proofs!ExitsOnlyUnasked` | `Spec => ExitOnlyUnasked` |
| `ShowPage_proofs!CommandsReachPages` | `Spec => CommandDelivered` |
| `ShowPage_proofs!CallsAccounted` | `Spec => []Accounted` |
| `ObjectTree_proofs!TypeCorrect` | `Spec => []TypeOK` |
| `ObjectTree_proofs!ListsAlwaysAgree` | `Spec => []ListsAgree` |
| `ObjectTree_proofs!KidsAlwaysSorted` | `Spec => []KidsSorted` |
| `ObjectTree_proofs!LinkedAlwaysInTree` | `Spec => []LinkedIsInTree` |
| `ObjectTree_proofs!NothingEverDangles` | `Spec => []NothingDangles` |
| `ObjectTree_proofs!BatchNeverSeen` | `Spec => []BatchUnseen` |
| `ObjectTreePlaces_proofs!SearchAlwaysMatchesTree` | `Spec => []SearchMatchesTree` |
| `ObjectTreePlaces_proofs!NothingEverLeftBehind` | `Spec => []NothingLeftBehind` |
| `ObjectTreePlaces_proofs!HiddenAlwaysLeaves` | `Spec => []HiddenLeaves` |
| `ObjectTreePlaces_proofs!LoopsAlwaysEnd` | `NamesDescend => (Spec => LoopsEnd)` |
| `ModuleConfig_proofs!TypeCorrect` | `Spec => []TypeOK` |
| `ModuleConfig_proofs!SearchAlwaysFinds` | `PlacesAreWhole => (Spec => []SearchFinds)` |
| `ModuleConfig_proofs!PagesAlwaysFound` | `Spec => []PagesFound` |
| `ModuleConfig_proofs!MatchesAlwaysParts` | `PlacesAreWhole => (Spec => []MatchesAreParts)` |
| `ModuleConfig_proofs!WholePartsAlwaysMatch` | `PlacesAreWhole /\ PlacesArePlain => (Spec => []WholePartsMatch)` |
| `ModuleConfig_proofs!FlagsAreRight` | `PlacesAreWhole => (Spec => []FlagsFollowConfig)` |
| `QuickDBus_proofs!TypeCorrect` | `Spec => []TypeOK` |
| `QuickDBus_proofs!CacheCurrent` | `Spec => []CacheIsCurrent` |
| `QuickDBus_proofs!PropertyCurrent` | `Spec => []PropertyIsCurrent` |
| `QuickDBus_proofs!LastWriteStands` | `Spec => []LastWriteHolds` |

**Plugin loading.** `NavigationIsFirst` and `NothingOutlivesDelete` follow from one
inductive invariant, `PhaseInv`: a running timer, a started data phase or the end of
loading implies `navFinished`, so does a task that waits or runs, and nothing waits in
the pool from the moment the destructor joins it.

`MainUsesSettledData` rests on `DataInv`. `DataSettled` alone is not inductive: why
may the GUI thread not find `DataEnd` set while the task is still at work? Because a
task that has not ended is the only place `DataEnd` comes from: `TaskInv` ties the
task's program counter and the bits of its transition to the status, and `Fresh` and
`Clean` say that a plugin whose task has not ended has neither `DataEnd` nor
`MainObjLoad` in its status *nor in any transition in flight*, in particular not in
the copies the GUI thread holds while it resets the status;
`RestInv` says that a transition at rest carries nothing. A second task of the same
plugin would break this, hence the condition `OneTask` in the property.

`OneTaskPerPlugin` is about that condition, and rests on `KnownInv`: from the moment a
plugin has a task, `DataBegin` is in its status, or in the transition with which the
GUI thread is putting the status back (`Known`), so that `Ready` never holds it again.
Every other store of that status carries `DataBegin` too. What `[]~Overlap` excludes is
a task reading the status while `updateVisible` has it emptied.

`OneMainPerPlugin` rests on `MainInv`: once `DataEnd` is in the status, or on its way
there with the GUI thread, the task writes the status no more; from the moment the main
object is begun (`MainStarted`) `DataEnd` stays, so that `updateVisible` does not reset
the plugin; and once its main object is announced, `PluginEnd` is there or in the
transition in flight (`Ending`), so that every later event goes to `FinishPlugin`.

`LoadingFollowsPhases` shows that every step is one of `LoadPhases` or a stutter. The
phase of a plugin is a function (`Stage`) of its number of tasks, its status and what the
GUI thread still carries for it, so most steps are settled by how those three may change
(`MovesBefore`, `MovesAfter`). That they change in no other way takes `StageInv`, beside
`PhaseInv`, `DataInv` and `MainInv`:

* `BeforeTask`: without a task only the GUI thread writes the status, and `PluginEnd`
  comes before `ModuleEnd` or with it. So no plugin that is `ready` is skipped, though
  `loadPlugin` may act on an event that has been overtaken.
* `StaysForgotten`: a task that has been forgotten is not remembered. Each thread may
  hold a copy of the status from before the other's store; whoever writes without
  `DataBegin` has to know that the other's copy is without it too. So `lost` is final.
* `AfterBuild`: once the main object is begun, what the GUI thread writes is the status
  as it is plus the bits of the transition, so `main` is followed by `done` only.

The second task of a plugin, where `Next` ends, is inside the theorem: the step that
starts it keeps the plugin `lost`.

**Pages.** `ExitsOnlyUnasked` rests on `Wanted`: as long as somebody has asked for the
window since it was hidden, it is visible or `m_needShow` is set. `TypeCorrect` of
`ShowPage` needs that the polling timer never runs without a pending request
(`TimerHasRequest`), since `tryShow` uses the request. `FirstPage` is well defined
because the ranks of finitely or infinitely many pages have a least one
(`LeastRank`, by well-founded induction on the naturals). `CommandsReachPages` needs
that a queued show of a request names the page of that request (`ShowsMeant`): then
the step that delivers it decides by the state of the right page. `CallsAccounted`
rests on `AccountInv`: each request is posted at most once at a time (`OnceIn`) and
only after it was made, so that the delivery that takes it off the queue is the one
that gives it its outcome, and the pending request, having one, cannot get another.

**Object tree.** The first five theorems share one inductive invariant, `IInv`; the only
assumption beyond those on names and weights is `FinitelyMany`. `m_parent` and
`m_children` agree because `addChild` is never given an object that another list still
holds; it would not take it out of there. So the invariant has to say, for every
handler that adds an object, why it is in no list:

* `announce` (`JobInv`, `PlaceInv`): an object that has not been announced hangs nowhere,
  the list given to `addObject` names each object once, and none of them brings another
  of them as a child.
* `flush` (`JobInv`): what the loop looks at waits in `m_noAddObjects`, from which it is
  taken first.
* `reveal` and `onVisible` (`SeenInv`): an object the manager takes for hidden does not
  wait for a parent. What the manager believes is not the flag but what is still in the
  event queue: `SeenHidden` says that the next call about the object is a show, or that
  there is none and it is hidden. That is preserved because posted calls take turns and
  the last one is the truth (`QueueInv`, `Alternates`).

`LinkInv` ties the connected nodes to the parents, which gives `LinkedIsInTree`: a
handler that moves an object moves all that hangs below it, and `Below` is the least set
closed under children. `LivingInv` carries `NothingDangles`: whoever is a parent, is
recommended or is in the map has not been destroyed; an owner that is going has its
objects in the list of the destruction.

`BatchNeverSeen` rests on `SearchInv` (`Fits`): at every moment, also inside a batch,
the sorted list with the batch merged into it *is* `plain`, the list single insertions
give. The order of equal weights is the point, since merging and inserting must break
ties alike. `Place` therefore counts, for each entry, those that come before it, by
weight and then by arrival; a list is in place when entry `i` stands at `Place(i)`, and
both ways of building the list are shown to put it in place (`MergedInPlace`,
`AllPlacedInPlace`). Taking entries out keeps that only while no batch is open, which is
`ShapeInv`.

The theorems of `ObjectTreePlaces_proofs` say where the objects are once the handlers
are done, and that they get done. They use `IInv` with more invariants:

* `SearchAlwaysMatchesTree` (`EntryInv`, `RootedInv`). By `SearchInv` the list with its
  batch has the entries of `plain`, so it suffices that these are the searchable objects
  of the tree, each once. An entry could be made twice if what arrives had something in
  it that is linked already, or were to hang below itself: `ArrivesFresh` excludes both,
  as an object that is not linked has nothing linked below it, and `RootedInv`, that
  nothing *linked* hangs in a circle, makes the walk over a subtree meet each object
  once. Circles apart from the tree are possible (section 4).
* `NothingEverLeftBehind` (`ComeInv`, `LeftInv`). What is in `m_hideObjects` is hidden,
  or its `onVisible(true)` is posted or being worked at; what is nowhere was let go by
  a destroyed parent; what waits is still to be looked at by the flush, or has no parent
  to go to (`Homeless`). The last needs that a parent, once found missing, can only come
  by an announcement, which flushes: an object, its owner and its recommended parent have
  been announced before anything looks for its parent (`Arrived`, `Settled`).
* `HiddenAlwaysLeaves` (`HeardInv`). What is in the tree is watched, and what is watched
  and hidden is out of the tree or has an `onVisible` on its way. The hard part is what
  comes into the tree from outside with a subtree of its own, in which something may have
  been hidden while nobody listened. `Waits(W)` says that there is a set of objects the
  manager would hear of that has all that waits in `m_noAddObjects` and is closed under
  children; `Looks(V)` is the same for what `onVisible(true)` has gone through, except
  that a child may still be in its list. `missed` are the exceptions, the objects hidden
  while they wait (finding 5).
* `LoopsAlwaysEnd` (`DoomedInv`). The flush and `addObject` end for any names. A
  destruction ends because its list never has an object twice: what is posted for
  deletion is on its way out, and nothing else comes into the list but what the object
  just destroyed owned (`DoomedInv`). `onVisible(true)` adds children to the list it goes
  over; the measure is the number of pairs of a place in the list and an object below
  what stands there, and it falls because the subtrees of the children are disjoint and
  lack the parent (`ChildrenApart`, `FewerSeen`). That needs a tree, and the code does
  not keep circles out (section 4). The hypothesis `NamesDescend` does: objects can be
  given a depth such that each is deeper than every object of the name it asks for, as
  in a hierarchy of pages and in the instance of `object_tree`. `RootedInv` is not
  enough here, for `onVisible(true)` also walks below what is *not* linked.

What `AddSearchData`, `Kept` and the walk over the subtree compute is recursive over
data. Here a recursive function suffices as long as an induction can be stated over a
set of numbers (`StepInduction` in `ListFacts`), which the lemmas do.

**Configuration.** `FlagsAreRight` rests on `FlagsInv`: beside the property it has
`ReadyInv`, that the small configurations are in force only when none is being read any
more, and that before `loadModuleConfigs` none is read, collected or in force. So the
last answer is the moment at which what was collected has to reach the flags. The rest is
`SearchFinds`: a change of the list computes the flags anew only of the objects that a
search by the changed urls finds, so it must find all they mean, and the small
configurations set the flags of what is found, so it must find nothing else.

**Matching.** The four theorems about matching hold for urls and names of any length.
Each says of two algorithms of the code, or of one and of what matching means, that
they agree; every reachable state is well typed, and of well-typed states it is shown:

* *A reading.* `IsMatchByName` is a recursion over a position in the url, one in the
  place and the wildcard flag. That there is a function as the recursion defines
  it is a lemma of its own (`ReadingExists`: repeated steps agree further and further
  from the fronts). From then on a reading is two sets of pairs of positions,
  those from which it succeeds outside and inside of a wildcard, with the rules of
  `Reads`; inductions go over the sum of the two positions.
* *A part.* A part of the url that stands against a part of the place is read as if the
  two were alone, and the reading then goes on before both (`PartRead`). This is where
  it counts that a wildcard stops at a `/`.
* *All parts.* So a url that matches has last parts that do (`MatchFits`), whatever
  slashes it has besides; and a chain of parts that match is a url that does
  (`FitMatches`). `SplitIs` shows that `SplitUrl`, with its `Cardinality` and `CHOOSE`,
  returns these parts; `JoinPathIs` is the way back.
* *The search* compares the last part with the name and the others, joined again, with
  the parent's name: together the parts of the place (`FoundFits`). Hence
  `MatchFinds`, and `FoundIsMeant` for paths without wildcards.
* *Without wildcards* `IsEqualByName` and `IsMatchByName` compare the same characters
  (`EqualIsMatch`), so both searches for a page have the same candidates. This one
  needs nothing of the places.
* *What matching means.* A part that is read is one that `Glob` allows (`MatchIsGlob`).
  The converse is false, as a wildcard does not go back; it holds for a part without
  wildcards (`GlobPlain`) and for `*` alone (`StarMatches`), if the place has no `*`
  of its own, which a url's `*` would take for a plain character.

The hypotheses hold of the instance `module_config` runs; `MCModuleConfig` states them
as an assumption that TLC evaluates.

**D-Bus.** `CacheInv` says why a quiet client is current: a client that is connected or
connecting, has been told of every change and has no question on its way was sent
the service's value last (`LastOf`), and what is sent arrives in order. `PropInv`
adds the property (`Settles`): what QML shows is in the cache, or is the last `Set` on
its way, or will be replaced by something on its way. `WriteInv` follows the last
write of the only writer from the property over the call to the service's value.

Only model-checked: the liveness properties (`LoadFinishes`,
`VisibleLoadsUnlessInterrupted`, `EveryCallEnds`, `LastWins`, `Opens`,
`ConfigsTakeEffect`, `CallsEnd`), which are out of the prover's reach. The library's
induction theorems take an operator as a parameter, which the provers cannot
instantiate; every induction here is stated with a set of numbers
(`NatSetInduction`, `StepInduction` in `ListFacts`).

## 6. Not modelled, and why

* *Search service* (`Search`, `Stop`, `Action` over D-Bus): a question is answered at
  once or at `loadAllFinished`; the observation above is what there is to say.
  `Stop` and `Search` restart the exit timer (`SearchActivity` of `ShowPage`).
* *QML D-Bus interface*: `callWithCallback`, the callbacks of signals, suffixes and the
  change of service, path or interface of a completed object.
* *Object tree*: an object announced twice, moving repeated items, the enabled flag.
* *Module configuration*: reading and writing other keys.
* *List models* and *image provider* are views and a cache of thumbnails.
* `Exit`, `--list`, `GetAllModule` and the properties of the D-Bus adaptor keep no state.
* The *settings plugins* and *dock plugins* mirror services of other processes; some
  (display, accounts, bluetooth, sound, keyboard shortcuts, the Wayland input manager)
  have logic of their own and are candidates after the plan.
* Build files, packaging, translations and examples are no behaviour of the program.

## 7. Plan

1. A composition of `PluginLoad` and `ShowPage`: the pages of a plugin attach when its
   main object is added, `loadFinished` is computed from the status bits; with it the
   search service, whose waiting questions are about the same signal.
2. A composition of `ShowPage` with `UrlMatch`: `PagesFound` shows that both searches
   look among the same objects; which of several they take is not modelled yet.
3. Display and accounts plugins, as far as their coordination goes.
