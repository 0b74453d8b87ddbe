------------------------------- MODULE PluginLoad -------------------------------
(***************************************************************************)
(* How DccPluginManager loads the plugins of dde-control-center.           *)
(*                                                                         *)
(* Every plugin has a DccPluginLoader whose progress is a set of status    *)
(* bits.  The GUI thread advances a loader whenever one of its queued      *)
(* statusChanged events is delivered (loadPlugin); in between, a task on a *)
(* thread pool loads the plugin's library and creates its data object.     *)
(* Both threads write the status through transitionStatus, a read, a store *)
(* and a second read that are not one atomic step.                         *)
(*                                                                         *)
(* status[l] = {} is the code's PluginBegin.  The bits no branch tests     *)
(* (ModuleCreate, ModuleErr, MainObjCreate, MainObjAdd, MainObjErr) are    *)
(* part of the transition next to them.                                    *)
(***************************************************************************)
EXTENDS Naturals, Sequences, FiniteSets

CONSTANTS
  Loaders,                \* one DccPluginLoader per plugin directory
  Gui,                    \* the GUI thread; a task's thread is named by its loader
  Hidden0,                \* plugins in hideModule at start
  Invisible0,             \* plugins whose module QML says visible: false at start
  BadSo,                  \* plugins whose .so does not yield a factory
  NoSo,                   \* plugins without a .so
  ShowOnNavigationReady,  \* TRUE when the window is opened at start
  MaxThreads,             \* QThreadPool::maxThreadCount
  MaxHideChanges,         \* bound on changes of hideModule by the environment
  MaxToggles              \* bound on changes of a module's QML visibility

ASSUME LoadersAssumption == Loaders # {} /\ Gui \notin Loaders
ASSUME KindsAssumption == /\ Hidden0 \subseteq Loaders /\ Invisible0 \subseteq Loaders
                          /\ BadSo \subseteq Loaders /\ NoSo \subseteq Loaders
                          /\ BadSo \cap NoSo = {}
ASSUME ModeAssumption == /\ ShowOnNavigationReady \in BOOLEAN
                         /\ MaxThreads \in Nat \ {0}
                         /\ MaxHideChanges \in Nat /\ MaxToggles \in Nat

VARIABLES
  status,            \* [Loaders -> SUBSET Bit], m_status
  tx,                \* [Thread -> Transition], the transitionStatus call in flight
  pc,                \* [Thread -> STRING], where each thread is
  queue,             \* Seq, what the GUI thread's event loop still has to deliver
  timer,             \* QTimer::singleShot(100, startDataPhase) is running
  resume,            \* loaders whose updateVisible(true) is still to be called
  pool,              \* loaders whose task waits in the thread pool
  tasks,             \* [Loaders -> Nat], tasks ever handed to the pool
  data,              \* [Loaders -> {"none","worker","gui"}], m_data and its thread
  module,            \* loaders that have created their module object
  mains,             \* [Loaders -> Nat], main objects announced by addObject
  hide,              \* m_hideModule
  invisible,         \* plugins whose module QML currently says visible: false
  hideChanges,       \* changes of hideModule so far
  toggles,           \* changes of a module's visibility so far
  unloaded,          \* loaders loadModules has not started yet
  navFinished,       \* m_navigationFinished
  dataPhaseStarted,  \* m_dataPhaseStarted
  allLoadFinished,   \* m_allLoadFinished
  deleting           \* m_isDeleting

guiVars == <<queue, timer, resume, module, mains, unloaded>>
envVars == <<hide, invisible, hideChanges, toggles>>
phaseVars == <<navFinished, dataPhaseStarted, allLoadFinished>>
vars == <<status, tx, pc, pool, tasks, data, deleting, guiVars, envVars, phaseVars>>

Thread == Loaders \cup {Gui}

Bit == {"PluginEnd", "MetaDataEnd", "ModuleLoad", "ModuleEnd", "DataBegin", "DataLoad",
        "DataEnd", "DataErr", "MainObjLoad", "MainObjEnd"}

\* Variant: the end of the main object is not reacted to.
PluginEndMask_NoMainObjEnd == {"PluginEnd", "MetaDataEnd", "ModuleEnd", "DataEnd"}

\* The transitions onPluginStatusChanged reacts to; the others are dropped there.
PluginEndMask == {"PluginEnd", "MetaDataEnd", "ModuleEnd", "DataEnd", "MainObjEnd"}

Has(l, b) == b \in status[l]

-----------------------------------------------------------------------------
(* transitionStatus: read the old status, read it again and add the bits,   *)
(* store, read once more and emit statusChanged if it differs from the old. *)

Transition == [step : {"none", "load", "store", "check"}, of : Loaders,
               bits : SUBSET Bit, old : SUBSET Bit, new : SUBSET Bit]

Resting(t) == tx[t].step = "none"

Begin(t, l, bits) ==
  tx' = [tx EXCEPT ![t] = [step |-> "load", of |-> l, bits |-> bits,
                           old |-> status[l], new |-> {}]]

TxLoad(t) ==
  /\ tx[t].step = "load"
  /\ tx' = [tx EXCEPT ![t].step = "store", ![t].new = status[tx[t].of] \cup tx[t].bits]
  /\ UNCHANGED <<status, pc, pool, tasks, data, deleting, guiVars, envVars, phaseVars>>

TxStore(t) ==
  /\ tx[t].step = "store"
  /\ status' = [status EXCEPT ![tx[t].of] = tx[t].new]
  /\ tx' = [tx EXCEPT ![t].step = "check", ![t].new = {}]
  /\ UNCHANGED <<pc, pool, tasks, data, deleting, guiVars, envVars, phaseVars>>

Notify(t) == tx[t].bits \cap PluginEndMask # {} /\ status[tx[t].of] # tx[t].old

TxCheck(t) ==
  /\ tx[t].step = "check"
  /\ tx' = [tx EXCEPT ![t].step = "none", ![t].bits = {}, ![t].old = {}]
  /\ queue' = IF Notify(t) THEN Append(queue, tx[t].of) ELSE queue
  /\ UNCHANGED <<status, pc, pool, tasks, data, deleting, timer, resume, module, mains,
                 unloaded, envVars, phaseVars>>

TransitionStep(t) == TxLoad(t) \/ TxStore(t) \/ TxCheck(t)

-----------------------------------------------------------------------------
(* Phases.                                                                  *)

AllNavReady == \A l \in Loaders : status[l] \cap {"ModuleEnd", "PluginEnd"} # {}
AllFinished == \A l \in Loaders : Has(l, "PluginEnd")

\* Variant: a loader that already has a task is handed over again.
Ready_Again == {l \in Loaders : Has(l, "ModuleEnd") /\ ~Has(l, "PluginEnd")}

\* The loaders startDataPhase hands to the pool.
Ready == {l \in Loaders : Has(l, "ModuleEnd") /\ ~Has(l, "DataBegin") /\ ~Has(l, "PluginEnd")}

\* startDataPhase.  A loader in Ready has no task yet, so nothing else writes its
\* status here and DataBegin is one step; the event it emits is not in PluginEndMask.
HandOver(S) ==
  /\ status' = [l \in Loaders |-> IF l \in S THEN status[l] \cup {"DataBegin"} ELSE status[l]]
  /\ tasks' = [l \in Loaders |-> IF l \in S THEN tasks[l] + 1 ELSE tasks[l]]

\* Variant: the data phase starts before every plugin is in the navigation.
StartsDataPhase_Early == IF navFinished THEN dataPhaseStarted ELSE ~ShowOnNavigationReady

\* checkNavigationFinished.
StartsDataPhase ==
  AllNavReady /\ IF navFinished THEN dataPhaseStarted ELSE ~ShowOnNavigationReady

TasksToStart == IF StartsDataPhase THEN Ready ELSE {}

StartsTimer == AllNavReady /\ ~navFinished /\ ShowOnNavigationReady

\* The 100 ms timer outlasts the events posted before it started: Gui marks its place
\* among them.
CheckNavigationFinished(events) ==
  /\ navFinished' = (navFinished \/ AllNavReady)
  /\ dataPhaseStarted' = (dataPhaseStarted \/ StartsDataPhase)
  /\ timer' = (timer \/ StartsTimer)
  /\ queue' = IF StartsTimer THEN Append(events, Gui) ELSE events
  /\ HandOver(TasksToStart)

\* Variant: a hidden plugin reports a bit the status does not have.
MetaDataBits_Odd(l) == IF l \in hide THEN {"MetaDataEnd", "PluginHidden"} ELSE {"MetaDataEnd"}

\* loadMetaData, for a plugin directory updateType recognises.
MetaDataBits(l) == IF l \in hide THEN {"MetaDataEnd", "PluginEnd"} ELSE {"MetaDataEnd"}

-----------------------------------------------------------------------------
(* The GUI thread.                                                          *)

\* loadModules: loadPlugin for every loader, then checkNavigationFinished.  No task
\* exists yet, so each first transition is one step.
StartLoader(l) ==
  /\ pc[Gui] = "start" /\ l \in unloaded
  /\ unloaded' = unloaded \ {l}
  /\ status' = [status EXCEPT ![l] = MetaDataBits(l)]
  /\ queue' = Append(queue, l)
  /\ UNCHANGED <<tx, pc, pool, tasks, data, deleting, timer, resume, module, mains,
                 envVars, phaseVars>>

AllStarted ==
  /\ pc[Gui] = "start" /\ unloaded = {}
  /\ pc' = [pc EXCEPT ![Gui] = "idle"]
  /\ CheckNavigationFinished(queue)
  /\ pool' = pool \cup TasksToStart
  /\ UNCHANGED <<tx, data, deleting, resume, module, mains, unloaded,
                 allLoadFinished, envVars>>

Idle == pc[Gui] = "idle" /\ Resting(Gui)

\* The GUI thread takes l's event off the queue; loadPlugin then dispatches on the
\* status l has NOW, whatever transition posted the event.
Delivered(l) == Idle /\ queue # <<>> /\ Head(queue) = l

DropEvent(l) ==
  /\ Delivered(l) /\ deleting
  /\ queue' = Tail(queue)
  /\ UNCHANGED <<status, tx, pc, pool, tasks, data, deleting, timer, resume, module,
                 mains, unloaded, envVars, phaseVars>>

Dispatch(l) == Delivered(l) /\ ~deleting

\* PluginEnd: checkNavigationFinished, checkLoadFinished, which the first time cancels
\* the waiting tasks and blocks until the running ones are done.
FinishPlugin(l) ==
  /\ Dispatch(l) /\ Has(l, "PluginEnd")
  /\ CheckNavigationFinished(Tail(queue))
  /\ IF AllFinished /\ ~allLoadFinished
       THEN /\ allLoadFinished' = TRUE
            /\ pool' = {}
            /\ pc' = [pc EXCEPT ![Gui] = "join"]
       ELSE /\ pool' = pool \cup TasksToStart
            /\ UNCHANGED <<allLoadFinished, pc>>
  /\ UNCHANGED <<tx, data, deleting, resume, module, mains, unloaded, envVars>>

\* MainObjEnd: addMainObject, addObject, then PluginEnd.
AddMain(l) ==
  /\ Dispatch(l) /\ ~Has(l, "PluginEnd") /\ Has(l, "MainObjEnd")
  /\ queue' = Tail(queue)
  /\ mains' = [mains EXCEPT ![l] = @ + 1]
  /\ Begin(Gui, l, {"PluginEnd"})
  /\ UNCHANGED <<status, pc, pool, tasks, data, deleting, timer, resume, module,
                 unloaded, envVars, phaseVars>>

\* Variant: the main object is built as soon as the library is loaded.
MainPending_Library(l) == Has(l, "DataLoad") /\ ~Has(l, "MainObjLoad")

MainPending(l) == Has(l, "DataEnd") /\ ~Has(l, "MainObjLoad")

\* DataEnd: MainObjLoad, then createDccObject, updateParent and loadMain use the data
\* object, then MainObjEnd.
StartMain(l) ==
  /\ Dispatch(l) /\ ~Has(l, "PluginEnd") /\ ~Has(l, "MainObjEnd") /\ MainPending(l)
  /\ queue' = Tail(queue)
  /\ pc' = [pc EXCEPT ![Gui] = "main"]
  /\ Begin(Gui, l, {"MainObjLoad"})
  /\ UNCHANGED <<status, pool, tasks, data, deleting, timer, resume, module, mains,
                 unloaded, envVars, phaseVars>>

LoadMain ==
  /\ pc[Gui] = "main" /\ Resting(Gui)
  /\ pc' = [pc EXCEPT ![Gui] = "idle"]
  /\ Begin(Gui, tx[Gui].of, {"MainObjEnd"})
  /\ UNCHANGED <<status, pool, tasks, data, deleting, guiVars, envVars, phaseVars>>

\* The branches of loadPlugin below this point are reached by a loader that is not
\* finished and has no main object to make.
Early(l) == ~Has(l, "PluginEnd") /\ ~Has(l, "MainObjEnd") /\ ~MainPending(l)

ModuleReady(l) == Has(l, "ModuleEnd") /\ ~Has(l, "DataBegin")
ModulePending(l) == Has(l, "MetaDataEnd") /\ ~Has(l, "ModuleLoad")

ModuleDone(l) ==
  /\ Dispatch(l) /\ Early(l) /\ ModuleReady(l)
  /\ CheckNavigationFinished(Tail(queue))
  /\ pool' = pool \cup TasksToStart
  /\ UNCHANGED <<tx, pc, data, deleting, resume, module, mains, unloaded,
                 allLoadFinished, envVars>>

StartModule(l) ==
  /\ Dispatch(l) /\ Early(l) /\ ~ModuleReady(l) /\ ModulePending(l)
  /\ queue' = Tail(queue)
  /\ pc' = [pc EXCEPT ![Gui] = "module"]
  /\ Begin(Gui, l, {"ModuleLoad"})
  /\ UNCHANGED <<status, pool, tasks, data, deleting, timer, resume, module, mains,
                 unloaded, envVars, phaseVars>>

\* loadModule creates the module object; its QML visibility decides whether the load
\* ends here (hideModule is not looked at again).
LoadModule ==
  /\ pc[Gui] = "module" /\ Resting(Gui)
  /\ LET l == tx[Gui].of IN
       /\ module' = module \cup {l}
       /\ Begin(Gui, l, IF l \in invisible THEN {"ModuleEnd", "PluginEnd"} ELSE {"ModuleEnd"})
  /\ pc' = [pc EXCEPT ![Gui] = "idle"]
  /\ UNCHANGED <<status, pool, tasks, data, deleting, queue, timer, resume, mains,
                 unloaded, envVars, phaseVars>>

\* Everything else: the first event of a reset loader, and an event that is stale
\* because the loader has gone on since it was posted.
LoadMetaData(l) ==
  /\ Dispatch(l) /\ Early(l) /\ ~ModuleReady(l) /\ ~ModulePending(l)
  /\ queue' = Tail(queue)
  /\ Begin(Gui, l, MetaDataBits(l))
  /\ UNCHANGED <<status, pc, pool, tasks, data, deleting, timer, resume, module, mains,
                 unloaded, envVars, phaseVars>>

TimerDue ==
  /\ Idle /\ queue # <<>> /\ Head(queue) = Gui
  /\ queue' = Tail(queue)
  /\ UNCHANGED <<status, tx, pc, pool, tasks, data, deleting, timer, resume, module, mains,
                 unloaded, envVars, phaseVars>>

\* Once due, the timer may be activated before or after anything posted since.
FireTimer ==
  /\ Idle /\ timer /\ \A i \in DOMAIN queue : queue[i] # Gui
  /\ timer' = FALSE
  /\ dataPhaseStarted' = TRUE
  /\ HandOver(Ready)
  /\ pool' = pool \cup Ready
  /\ UNCHANGED <<tx, pc, data, deleting, queue, resume, module, mains, unloaded,
                 navFinished, allLoadFinished, envVars>>

\* Variant: the destructor goes on when waitForDone(3000) gives up.
Join_Timeout ==
  /\ pc[Gui] \in {"join", "joinDelete"}
  /\ pc' = [pc EXCEPT ![Gui] = IF pc[Gui] = "join" THEN "idle" ELSE "deleted"]
  /\ UNCHANGED <<status, tx, pool, tasks, data, deleting, guiVars, envVars, phaseVars>>

\* cancelLoad, after it has emptied the pool: waitForDone, then delete the pool.
Join ==
  /\ pc[Gui] \in {"join", "joinDelete"}
  /\ \A l \in Loaders : pc[l] = "off"
  /\ pc' = [pc EXCEPT ![Gui] = IF pc[Gui] = "join" THEN "idle" ELSE "deleted"]
  /\ UNCHANGED <<status, tx, pool, tasks, data, deleting, guiVars, envVars, phaseVars>>

-----------------------------------------------------------------------------
(* Plugins that become visible again.                                       *)

\* Variant: a plugin that has loaded its data is resumed as well.
UpdateVisible_Always(l) ==
  /\ pc[Gui] = "resume" /\ Resting(Gui) /\ l \in resume
  /\ resume' = resume \ {l}
  /\ IF Has(l, "PluginEnd")
       THEN /\ pc' = [pc EXCEPT ![Gui] = "reset"]
            /\ tx' = [tx EXCEPT ![Gui].of = l]
       ELSE UNCHANGED <<pc, tx>>
  /\ UNCHANGED <<status, pool, tasks, data, deleting, queue, timer, module, mains,
                 unloaded, envVars, phaseVars>>

\* updateVisible(true): a plugin that ended without loading its data goes on.
UpdateVisible(l) ==
  /\ pc[Gui] = "resume" /\ Resting(Gui) /\ l \in resume
  /\ resume' = resume \ {l}
  /\ IF Has(l, "PluginEnd") /\ ~Has(l, "DataEnd") /\ ~Has(l, "DataErr")
       THEN /\ pc' = [pc EXCEPT ![Gui] = "reset"]
            /\ tx' = [tx EXCEPT ![Gui].of = l]
       ELSE UNCHANGED <<pc, tx>>
  /\ UNCHANGED <<status, pool, tasks, data, deleting, queue, timer, module, mains,
                 unloaded, envVars, phaseVars>>

\* StatusFlags status = m_status & ~PluginEnd
ResetRead ==
  /\ pc[Gui] = "reset"
  /\ pc' = [pc EXCEPT ![Gui] = "clear"]
  /\ tx' = [tx EXCEPT ![Gui].bits = status[tx[Gui].of] \ {"PluginEnd"}]
  /\ UNCHANGED <<status, pool, tasks, data, deleting, guiVars, envVars, phaseVars>>

\* m_status = PluginBegin; transitionStatus(status)
ResetStore ==
  /\ pc[Gui] = "clear"
  /\ pc' = [pc EXCEPT ![Gui] = "resume"]
  /\ status' = [status EXCEPT ![tx[Gui].of] = {}]
  /\ tx' = [tx EXCEPT ![Gui].step = "load", ![Gui].old = {}]
  /\ UNCHANGED <<pool, tasks, data, deleting, guiVars, envVars, phaseVars>>

Resumed ==
  /\ pc[Gui] = "resume" /\ Resting(Gui) /\ resume = {}
  /\ pc' = [pc EXCEPT ![Gui] = "idle"]
  /\ UNCHANGED <<status, tx, pool, tasks, data, deleting, guiVars, envVars, phaseVars>>

-----------------------------------------------------------------------------
(* The environment, delivered to the GUI thread by its event loop.          *)

\* Variant: only plugins with a module object hear that they are shown again.
Reappearing_Modules(h) == {l \in (module \cap hide) \ h : l \notin invisible}

\* When hideModule becomes h, module objects that leave the set turn visible and call
\* updateVisible; onHideModuleChanged calls it for ended plugins without a module.
Reappearing(h) ==
  {l \in Loaders \ h : IF l \in module THEN l \in hide \ invisible ELSE Has(l, "PluginEnd")}

\* updateModuleConfig(hideModule).
ChangeHideModule ==
  /\ Idle /\ ~deleting /\ hideChanges < MaxHideChanges
  /\ \E h \in SUBSET Loaders \ {hide} :
       /\ hide' = h
       /\ resume' = Reappearing(h)
  /\ hideChanges' = hideChanges + 1
  /\ pc' = [pc EXCEPT ![Gui] = "resume"]
  /\ UNCHANGED <<status, tx, pool, tasks, data, deleting, queue, timer, module, mains,
                 unloaded, invisible, toggles, phaseVars>>

\* The visible property of l's module object is assigned from QML.
ToggleVisible(l) ==
  /\ Idle /\ ~deleting /\ toggles < MaxToggles /\ l \in module
  /\ invisible' = IF l \in invisible THEN invisible \ {l} ELSE invisible \cup {l}
  /\ resume' = IF l \in invisible \ hide THEN {l} ELSE {}
  /\ toggles' = toggles + 1
  /\ pc' = [pc EXCEPT ![Gui] = "resume"]
  /\ UNCHANGED <<status, tx, pool, tasks, data, deleting, queue, timer, module, mains,
                 unloaded, hide, hideChanges, phaseVars>>

\* clearData calls beginDelete; the destructor follows when the event loop has ended.
BeginDelete ==
  /\ Idle /\ ~deleting
  /\ deleting' = TRUE
  /\ UNCHANGED <<status, tx, pc, pool, tasks, data, guiVars, envVars, phaseVars>>

Destroy ==
  /\ Idle /\ deleting
  /\ pool' = {}
  /\ pc' = [pc EXCEPT ![Gui] = "joinDelete"]
  /\ UNCHANGED <<status, tx, tasks, data, deleting, guiVars, envVars, phaseVars>>

-----------------------------------------------------------------------------
(* LoadDataTask::run on a pool thread.                                      *)

Running == {l \in Loaders : pc[l] # "off"}

\* The pool is a set: tasks may start in any order.
TaskStart(l) ==
  /\ l \in pool /\ pc[l] = "off" /\ Cardinality(Running) < MaxThreads
  /\ pool' = pool \ {l}
  /\ pc' = [pc EXCEPT ![l] = IF deleting THEN "off" ELSE "library"]
  /\ UNCHANGED <<status, tx, tasks, data, deleting, guiVars, envVars, phaseVars>>

LoadLibrary(l) ==
  /\ pc[l] = "library"
  /\ IF l \in BadSo
       THEN Begin(l, l, {"DataErr"}) /\ pc' = [pc EXCEPT ![l] = "broken"]
       ELSE Begin(l, l, {"DataLoad"}) /\ pc' = [pc EXCEPT ![l] = "loaded"]
  /\ UNCHANGED <<status, pool, tasks, data, deleting, guiVars, envVars, phaseVars>>

LibraryBroken(l) ==
  /\ pc[l] = "broken" /\ Resting(l)
  /\ Begin(l, l, {"DataLoad"})
  /\ pc' = [pc EXCEPT ![l] = "loaded"]
  /\ UNCHANGED <<status, pool, tasks, data, deleting, guiVars, envVars, phaseVars>>

CreateData(l) ==
  /\ pc[l] = "loaded" /\ Resting(l)
  /\ IF deleting
       THEN pc' = [pc EXCEPT ![l] = "off"] /\ UNCHANGED <<tx, data>>
       ELSE /\ pc' = [pc EXCEPT ![l] = "created"]
            /\ IF l \in BadSo \cup NoSo
                 THEN Begin(l, l, {"DataErr"}) /\ UNCHANGED data
                 ELSE data' = [data EXCEPT ![l] = "worker"] /\ UNCHANGED tx
  /\ UNCHANGED <<status, pool, tasks, deleting, guiVars, envVars, phaseVars>>

MoveThread(l) ==
  /\ pc[l] = "created" /\ Resting(l)
  /\ data' = [data EXCEPT ![l] = IF @ = "worker" THEN "gui" ELSE @]
  /\ Begin(l, l, {"DataEnd"})
  /\ pc' = [pc EXCEPT ![l] = "ended"]
  /\ UNCHANGED <<status, pool, tasks, deleting, guiVars, envVars, phaseVars>>

TaskEnd(l) ==
  /\ pc[l] = "ended" /\ Resting(l)
  /\ pc' = [pc EXCEPT ![l] = "off"]
  /\ UNCHANGED <<status, tx, pool, tasks, data, deleting, guiVars, envVars, phaseVars>>

-----------------------------------------------------------------------------
Init ==
  /\ status = [l \in Loaders |-> {}]
  /\ tx = [t \in Thread |->
            [step |-> "none", of |-> IF t = Gui THEN CHOOSE l \in Loaders : TRUE ELSE t,
             bits |-> {}, old |-> {}, new |-> {}]]
  /\ pc = [t \in Thread |-> IF t = Gui THEN "start" ELSE "off"]
  /\ queue = <<>> /\ timer = FALSE /\ resume = {} /\ module = {} /\ unloaded = Loaders
  /\ mains = [l \in Loaders |-> 0]
  /\ pool = {} /\ tasks = [l \in Loaders |-> 0] /\ data = [l \in Loaders |-> "none"]
  /\ hide = Hidden0 /\ invisible = Invisible0 /\ hideChanges = 0 /\ toggles = 0
  /\ navFinished = FALSE /\ dataPhaseStarted = FALSE /\ allLoadFinished = FALSE
  /\ deleting = FALSE

LoadPlugin(l) == \/ DropEvent(l) \/ FinishPlugin(l) \/ AddMain(l) \/ StartMain(l)
                 \/ ModuleDone(l) \/ StartModule(l) \/ LoadMetaData(l)

GuiStep ==
  \/ TransitionStep(Gui) \/ AllStarted \/ LoadMain \/ LoadModule \/ TimerDue \/ FireTimer
  \/ Join \/ ResetRead \/ ResetStore \/ Resumed
  \/ \E l \in Loaders : StartLoader(l) \/ LoadPlugin(l) \/ UpdateVisible(l)

Environment ==
  ChangeHideModule \/ BeginDelete \/ Destroy \/ \E l \in Loaders : ToggleVisible(l)

TaskStep(l) == \/ TransitionStep(l) \/ TaskStart(l) \/ LoadLibrary(l) \/ LibraryBroken(l)
               \/ CreateData(l) \/ MoveThread(l) \/ TaskEnd(l)

\* No plugin has been handed to the pool twice.
OneTask == \A l \in Loaders : tasks[l] <= 1

\* The model ends with a plugin's second task, which OneDataTask shows to need an Overlap:
\* two tasks of one loader, and startDataPhase writing its status while one runs, are not
\* modelled.
Next == OneTask /\ (GuiStep \/ Environment \/ \E l \in Loaders : TaskStep(l))

Spec == Init /\ [][Next]_vars

\* The event loop keeps running and the operating system schedules every pool thread.
Fairness == /\ WF_vars(OneTask /\ GuiStep)
            /\ \A l \in Loaders : WF_vars(OneTask /\ TaskStep(l))

FairSpec == Spec /\ Fairness

-----------------------------------------------------------------------------
(* Properties.                                                              *)

\* The type invariant.
TypeOK ==
  /\ status \in [Loaders -> SUBSET Bit]
  /\ tx \in [Thread -> Transition]
  /\ pc \in [Thread -> {"start", "idle", "module", "main", "join", "joinDelete", "deleted",
                        "resume", "reset", "clear", "off", "library", "broken", "loaded",
                        "created", "ended"}]
  /\ queue \in Seq(Thread)
  /\ resume \subseteq Loaders /\ pool \subseteq Loaders /\ module \subseteq Loaders
  /\ unloaded \subseteq Loaders /\ hide \subseteq Loaders /\ invisible \subseteq Loaders
  /\ tasks \in [Loaders -> Nat] /\ mains \in [Loaders -> Nat]
  /\ hideChanges \in Nat /\ toggles \in Nat
  /\ data \in [Loaders -> {"none", "worker", "gui"}]
  /\ timer \in BOOLEAN /\ deleting \in BOOLEAN /\ navFinished \in BOOLEAN
  /\ dataPhaseStarted \in BOOLEAN /\ allLoadFinished \in BOOLEAN

\* While the GUI thread builds a plugin's main object, and ever after, the data object it
\* hands to QML is no longer on a worker thread and the plugin's task writes it no more,
\* unless a plugin was given a second task.
DataSettled ==
  OneTask => \A l \in Loaders :
    Has(l, "MainObjLoad") \/ (pc[Gui] = "main" /\ tx[Gui].of = l)
      => pc[l] \in {"off", "ended"} /\ data[l] # "worker"

\* A plugin's main object is announced to the object tree once, although every later
\* event of the plugin dispatches again on its status and every resumption of the plugin
\* starts from an earlier one, unless a plugin was given a second task.
OneMain == OneTask => \A l \in Loaders : mains[l] <= 1

\* No plugin library is touched and the end of loading is not announced before the
\* navigation is: navigationReady is the first signal the window sees.
NavigationFirst ==
  allLoadFinished \/ dataPhaseStarted \/ pool \cup Running # {} => navFinished

\* Once the destructor has deleted the loaders no task runs or waits that could use one.
NoTaskAfterDelete == pc[Gui] = "deleted" => Running = {} /\ pool = {}

\* Both threads are inside a change of the status of one loader.
Overlap ==
  \E l \in Loaders : /\ tx[Gui].of = l /\ ~Resting(l)
                     /\ (~Resting(Gui) \/ pc[Gui] \in {"reset", "clear"})

\* However often startDataPhase runs and plugins are resumed, a plugin's library is loaded
\* by one task.  When the two threads change one status at the same time, DataBegin may be
\* lost and the plugin, resumed, is handed to the pool again.
OneDataTask == []~Overlap => []OneTask

\* A plugin that stays visible gets its main object into the tree.
VisibleLoads == []~deleting => \A l \in Loaders :
                   <>[](l \notin hide \cup invisible) => <>(mains[l] >= 1)

\* The same, leaving aside the runs in which the two threads change one loader's status
\* at the same time and a bit may be lost.
VisibleLoadsUnlessOverlap == []~Overlap => VisibleLoads

\* l has ended after its task was started and before its main object is made.
Interrupted(l) == tasks[l] > 0 /\ Has(l, "PluginEnd") /\ ~Has(l, "MainObjLoad")

\* The same, leaving aside also the runs in which a plugin is hidden between the start of
\* its task and its main object: there the plugin, shown again, may not be resumed.
VisibleLoadsUnlessInterrupted ==
  [](~Overlap /\ \A l \in Loaders : ~Interrupted(l)) => VisibleLoads

\* Loading comes to its end: loadAllFinished is emitted, also when plugins are hidden,
\* not visible or have a broken library.
LoadFinishes == [](~deleting /\ ~Overlap) => <>allLoadFinished

\* l's task has been started but neither l's status nor the reset in flight knows it.
Forgotten(l) ==
  /\ tasks[l] > 0 /\ ~Has(l, "DataBegin")
  /\ tx[Gui].of = l => "DataBegin" \notin tx[Gui].bits \cup tx[Gui].new

PhaseOf(l) ==
  CASE tasks[l] = 0 /\ Has(l, "PluginEnd") -> "skipped"
    [] tasks[l] = 0 /\ ~Has(l, "PluginEnd") ->
         IF Has(l, "ModuleEnd") THEN "ready" ELSE "module"
    [] tasks[l] > 1 \/ Forgotten(l) -> "lost"
    [] OTHER ->
         IF Has(l, "MainObjLoad")
           THEN IF Has(l, "PluginEnd") THEN "done" ELSE "main"
           ELSE IF Has(l, "DataBegin") /\ ~Has(l, "PluginEnd") THEN "data" ELSE "interrupted"

Phases == INSTANCE LoadPhases WITH
            phase <- [l \in Loaders |-> PhaseOf(l)], data <- data,
            navReady <- navFinished, finished <- allLoadFinished

\* Status bits, queued events and tasks together implement the loading order of
\* docs/v25-dcc-interface.zh_CN.md as LoadPhases states it.
ImplementsPhases == Phases!Spec
=============================================================================
