---------------------------- MODULE PluginLoad_proofs ----------------------------
(***************************************************************************)
(* Theorems about PluginLoad, for every set of plugins and every bound.    *)
(***************************************************************************)
EXTENDS PluginLoad, TLAPS

USE LoadersAssumption, KindsAssumption, ModeAssumption

\* The initial state is well typed.
LEMMA InitTypeOK == Init => TypeOK
  <1> SUFFICES ASSUME Init PROVE TypeOK
    OBVIOUS
  <1>1. (CHOOSE l \in Loaders : TRUE) \in Loaders
    OBVIOUS
  <1>2. tx \in [Thread -> Transition]
    BY <1>1 DEF Init, Thread, Transition
  <1>3. pc \in [Thread -> {"start", "off"}]
    BY DEF Init, Thread
  <1>4. queue \in Seq(Thread)
    BY DEF Init
  <1>5. QED
    BY <1>2, <1>3, <1>4 DEF Init, TypeOK, Bit

\* Taking an event off the queue keeps the queue well typed.
LEMMA TailType ==
  ASSUME TypeOK, NEW l \in Loaders, Delivered(l)
  PROVE  Tail(queue) \in Seq(Thread)
  BY DEF TypeOK, Delivered

\* Handing loaders to the pool keeps the status and the task counts well typed.
LEMMA HandOverType ==
  ASSUME TypeOK, NEW S, HandOver(S)
  PROVE  status' \in [Loaders -> SUBSET Bit] /\ tasks' \in [Loaders -> Nat]
  BY DEF TypeOK, HandOver, Bit

\* checkNavigationFinished keeps what it writes well typed, and only real loaders start.
LEMMA CheckType ==
  ASSUME TypeOK, NEW events \in Seq(Thread), CheckNavigationFinished(events)
  PROVE  /\ status' \in [Loaders -> SUBSET Bit] /\ tasks' \in [Loaders -> Nat]
         /\ navFinished' \in BOOLEAN /\ dataPhaseStarted' \in BOOLEAN /\ timer' \in BOOLEAN
         /\ queue' \in Seq(Thread) /\ TasksToStart \subseteq Loaders
  <1>1. status' \in [Loaders -> SUBSET Bit] /\ tasks' \in [Loaders -> Nat]
    BY HandOverType DEF CheckNavigationFinished
  <1>2. TasksToStart \subseteq Loaders
    BY DEF TasksToStart, Ready
  <1>3. queue' \in Seq(Thread)
    BY DEF CheckNavigationFinished, Thread
  <1>4. QED
    BY <1>1, <1>2, <1>3 DEF CheckNavigationFinished, TypeOK

\* Starting a transition keeps the transitions well typed.
LEMMA BeginType ==
  ASSUME TypeOK, NEW t \in Thread, NEW l \in Loaders, NEW bits \in SUBSET Bit, Begin(t, l, bits)
  PROVE  tx' \in [Thread -> Transition]
  BY DEF TypeOK, Begin, Transition

\* The three steps of transitionStatus keep the state well typed, on either thread.
LEMMA TransitionType ==
  ASSUME TypeOK, NEW t \in Thread, TransitionStep(t)
  PROVE  TypeOK'
  <1> USE DEF guiVars, envVars, phaseVars
  <1>0. tx[t].of \in Loaders /\ tx[t] \in Transition
    BY DEF TypeOK, Transition
  <1>1. CASE TxLoad(t)
    <2>1. status[tx[t].of] \cup tx[t].bits \in SUBSET Bit
      BY <1>0 DEF TypeOK, Transition
    <2>2. tx' \in [Thread -> Transition]
      BY <1>0, <1>1, <2>1 DEF TypeOK, TxLoad, Transition
    <2>3. QED
      BY <1>1, <2>2 DEF TypeOK, TxLoad
  <1>2. CASE TxStore(t)
    <2>1. tx' \in [Thread -> Transition]
      BY <1>0, <1>2 DEF TypeOK, TxStore, Transition
    <2>2. status' \in [Loaders -> SUBSET Bit]
      BY <1>0, <1>2 DEF TypeOK, TxStore, Transition
    <2>3. QED
      BY <1>2, <2>1, <2>2 DEF TypeOK, TxStore
  <1>3. CASE TxCheck(t)
    <2>1. tx' \in [Thread -> Transition]
      BY <1>0, <1>3 DEF TypeOK, TxCheck, Transition
    <2>2. queue' \in Seq(Thread)
      BY <1>0, <1>3 DEF TypeOK, TxCheck, Thread
    <2>3. QED
      BY <1>3, <2>1, <2>2 DEF TypeOK, TxCheck
  <1>4. QED
    BY <1>1, <1>2, <1>3 DEF TransitionStep

\* Every step of the GUI thread keeps the state well typed.
LEMMA GuiType ==
  ASSUME TypeOK, GuiStep
  PROVE  TypeOK'
  <1> USE DEF guiVars, envVars, phaseVars
  <1>0. Gui \in Thread /\ tx[Gui].of \in Loaders /\ tx[Gui] \in Transition
    BY DEF TypeOK, Transition, Thread
  <1>1. CASE TransitionStep(Gui)
    BY <1>0, <1>1, TransitionType
  <1>2. CASE AllStarted
    <2>1. queue \in Seq(Thread) /\ CheckNavigationFinished(queue)
      BY <1>2 DEF AllStarted, TypeOK
    <2>2. QED
      BY <1>2, <2>1, CheckType DEF AllStarted, TypeOK
  <1>3. CASE LoadMain
    <2>1. tx' \in [Thread -> Transition]
      BY <1>0, <1>3, BeginType DEF LoadMain, Bit
    <2>2. QED
      BY <1>3, <2>1 DEF LoadMain, TypeOK
  <1>4. CASE LoadModule
    <2>1. tx' \in [Thread -> Transition]
      BY <1>0, <1>4, BeginType DEF LoadModule, Bit
    <2>2. module' \subseteq Loaders
      BY <1>0, <1>4 DEF LoadModule, TypeOK
    <2>3. QED
      BY <1>4, <2>1, <2>2 DEF LoadModule, TypeOK
  <1>5. CASE FireTimer
    <2>1. Ready \subseteq Loaders
      BY DEF Ready
    <2>2. QED
      BY <1>5, <2>1, HandOverType DEF FireTimer, TypeOK
  <1>t. CASE TimerDue
    BY <1>t DEF TimerDue, TypeOK
  <1>6. CASE Join
    BY <1>6 DEF Join, TypeOK
  <1>7. CASE ResetRead
    <2>1. tx' \in [Thread -> Transition]
      BY <1>0, <1>7 DEF ResetRead, TypeOK, Transition
    <2>2. QED
      BY <1>7, <2>1 DEF ResetRead, TypeOK
  <1>8. CASE ResetStore
    <2>1. tx' \in [Thread -> Transition]
      BY <1>0, <1>8 DEF ResetStore, TypeOK, Transition
    <2>2. QED
      BY <1>0, <1>8, <2>1 DEF ResetStore, TypeOK
  <1>9. CASE Resumed
    BY <1>9 DEF Resumed, TypeOK
  <1>10. ASSUME NEW l \in Loaders, StartLoader(l)
         PROVE  TypeOK'
    BY <1>10 DEF StartLoader, TypeOK, MetaDataBits, Bit, Thread
  <1>11. ASSUME NEW l \in Loaders, UpdateVisible(l)
         PROVE  TypeOK'
    <2>1. tx' = tx \/ tx' = [tx EXCEPT ![Gui].of = l]
      BY <1>11 DEF UpdateVisible
    <2>2. tx' \in [Thread -> Transition]
      <3>1. [tx[Gui] EXCEPT !.of = l] \in Transition
        BY <1>0 DEF Transition
      <3>2. QED
        BY <1>0, <2>1, <3>1 DEF TypeOK
    <2>3. pc' = pc \/ pc' = [pc EXCEPT ![Gui] = "reset"]
      BY <1>11 DEF UpdateVisible
    <2>4. pc' \in [Thread -> {"start", "idle", "module", "main", "join", "joinDelete", "deleted",
                             "resume", "reset", "clear", "off", "library", "broken", "loaded",
                             "created", "ended"}]
      BY <2>3 DEF TypeOK
    <2>5. QED
      BY <1>11, <2>2, <2>4 DEF UpdateVisible, TypeOK
  <1>12. ASSUME NEW l \in Loaders, LoadPlugin(l)
         PROVE  TypeOK'
    <2>0. Delivered(l) => Tail(queue) \in Seq(Thread)
      BY TailType
    <2> USE DEF Dispatch
    <2>1. CASE DropEvent(l)
      BY <2>0, <2>1 DEF DropEvent, TypeOK
    <2>2. CASE FinishPlugin(l)
      BY <2>0, <2>2, CheckType DEF FinishPlugin, TypeOK
    <2>3. CASE AddMain(l)
      <3>1. tx' \in [Thread -> Transition]
        BY <1>0, <2>3, BeginType DEF AddMain, Bit
      <3>2. QED
        BY <2>0, <2>3, <3>1 DEF AddMain, TypeOK
    <2>4. CASE StartMain(l)
      <3>1. tx' \in [Thread -> Transition]
        BY <1>0, <2>4, BeginType DEF StartMain, Bit
      <3>2. QED
        BY <2>0, <2>4, <3>1 DEF StartMain, TypeOK
    <2>5. CASE ModuleDone(l)
      BY <2>0, <2>5, CheckType DEF ModuleDone, TypeOK
    <2>6. CASE StartModule(l)
      <3>1. tx' \in [Thread -> Transition]
        BY <1>0, <2>6, BeginType DEF StartModule, Bit
      <3>2. QED
        BY <2>0, <2>6, <3>1 DEF StartModule, TypeOK
    <2>7. CASE LoadMetaData(l)
      <3>1. tx' \in [Thread -> Transition]
        BY <1>0, <2>7, BeginType DEF LoadMetaData, MetaDataBits, Bit
      <3>2. QED
        BY <2>0, <2>7, <3>1 DEF LoadMetaData, TypeOK
    <2>8. QED
      BY <1>12, <2>1, <2>2, <2>3, <2>4, <2>5, <2>6, <2>7 DEF LoadPlugin
  <1>13. QED
    BY <1>1, <1>2, <1>3, <1>4, <1>5, <1>6, <1>7, <1>8, <1>9, <1>10, <1>11, <1>12, <1>t DEF GuiStep

\* Changes of visibility and the shutdown keep the state well typed.
LEMMA EnvironmentType ==
  ASSUME TypeOK, Environment
  PROVE  TypeOK'
  <1> USE DEF guiVars, envVars, phaseVars
  <1>1. CASE ChangeHideModule
    <2>1. hide' \subseteq Loaders /\ resume' \subseteq Loaders
      BY <1>1 DEF ChangeHideModule, Reappearing
    <2>2. hideChanges' \in Nat
      BY <1>1 DEF ChangeHideModule, TypeOK
    <2>3. pc' = [pc EXCEPT ![Gui] = "resume"]
      BY <1>1 DEF ChangeHideModule
    <2>4. UNCHANGED <<status, tx, pool, tasks, data, deleting, queue, timer, module, mains,
                      unloaded, invisible, toggles, phaseVars>>
      BY <1>1 DEF ChangeHideModule
    <2>5. QED
      BY <2>1, <2>2, <2>3, <2>4 DEF TypeOK
  <1>2. CASE BeginDelete
    BY <1>2 DEF BeginDelete, TypeOK
  <1>3. CASE Destroy
    BY <1>3 DEF Destroy, TypeOK
  <1>4. ASSUME NEW l \in Loaders, ToggleVisible(l)
        PROVE  TypeOK'
    <2>1. invisible' \subseteq Loaders /\ resume' \subseteq Loaders
      BY <1>4 DEF ToggleVisible, TypeOK
    <2>2. toggles' \in Nat
      BY <1>4 DEF ToggleVisible, TypeOK
    <2>3. pc' = [pc EXCEPT ![Gui] = "resume"]
      BY <1>4 DEF ToggleVisible
    <2>4. UNCHANGED <<status, tx, pool, tasks, data, deleting, queue, timer, module, mains,
                      unloaded, hide, hideChanges, phaseVars>>
      BY <1>4 DEF ToggleVisible
    <2>5. QED
      BY <2>1, <2>2, <2>3, <2>4 DEF TypeOK
  <1>5. QED
    BY <1>1, <1>2, <1>3, <1>4 DEF Environment

\* Every step of LoadDataTask keeps the state well typed.
LEMMA TaskType ==
  ASSUME TypeOK, NEW l \in Loaders, TaskStep(l)
  PROVE  TypeOK'
  <1> USE DEF guiVars, envVars, phaseVars
  <1>0. l \in Thread
    BY DEF Thread
  <1>1. CASE TransitionStep(l)
    BY <1>0, <1>1, TransitionType
  <1>2. CASE TaskStart(l)
    BY <1>2 DEF TaskStart, TypeOK
  <1>3. CASE LoadLibrary(l)
    <2>1. tx' \in [Thread -> Transition]
      BY <1>0, <1>3, BeginType DEF LoadLibrary, Bit
    <2>2. QED
      BY <1>3, <2>1 DEF LoadLibrary, TypeOK
  <1>4. CASE LibraryBroken(l)
    <2>1. tx' \in [Thread -> Transition]
      BY <1>0, <1>4, BeginType DEF LibraryBroken, Bit
    <2>2. QED
      BY <1>4, <2>1 DEF LibraryBroken, TypeOK
  <1>5. CASE CreateData(l)
    <2>1. tx' = tx \/ Begin(l, l, {"DataErr"})
      BY <1>5 DEF CreateData
    <2>2. tx' \in [Thread -> Transition]
      BY <1>0, <2>1, BeginType DEF TypeOK, Bit
    <2>3. data' = data \/ data' = [data EXCEPT ![l] = "worker"]
      BY <1>5 DEF CreateData
    <2>4. pc' = [pc EXCEPT ![l] = "off"] \/ pc' = [pc EXCEPT ![l] = "created"]
      BY <1>5 DEF CreateData
    <2>5. QED
      BY <1>5, <2>2, <2>3, <2>4 DEF CreateData, TypeOK
  <1>6. CASE MoveThread(l)
    <2>1. tx' \in [Thread -> Transition]
      BY <1>0, <1>6, BeginType DEF MoveThread, Bit
    <2>2. QED
      BY <1>6, <2>1 DEF MoveThread, TypeOK
  <1>7. CASE TaskEnd(l)
    BY <1>7 DEF TaskEnd, TypeOK
  <1>8. QED
    BY <1>1, <1>2, <1>3, <1>4, <1>5, <1>6, <1>7 DEF TaskStep

\* Every step keeps the state well typed.
LEMMA NextTypeOK ==
  ASSUME TypeOK, [Next]_vars
  PROVE  TypeOK'
  <1>1. CASE UNCHANGED vars
    BY <1>1 DEF vars, guiVars, envVars, phaseVars, TypeOK
  <1>2. QED
    BY <1>1, GuiType, EnvironmentType, TaskType DEF Next

\* The model of plugin loading is well typed, for all plugins, threads and bounds.
THEOREM TypeCorrect == Spec => []TypeOK
  <1>1. QED
    BY InitTypeOK, NextTypeOK, PTL DEF Spec

-----------------------------------------------------------------------------
(* The navigation comes first, and nothing outlives the destructor.         *)

\* What the phase flags and the threads have to do with each other.
PhaseInv ==
  /\ dataPhaseStarted \/ timer \/ allLoadFinished => navFinished
  /\ \A l \in Loaders : l \in pool \/ pc[l] # "off" => navFinished
  /\ pc[Gui] \in {"joinDelete", "deleted"} => pool = {}
  /\ pc[Gui] = "deleted" => \A l \in Loaders : pc[l] = "off"

\* checkNavigationFinished only hands tasks over once the navigation is finished.
LEMMA CheckPhase ==
  ASSUME PhaseInv, NEW events, CheckNavigationFinished(events), NEW l \in TasksToStart
  PROVE  navFinished'
  BY DEF PhaseInv, CheckNavigationFinished, TasksToStart, StartsDataPhase

\* The phase invariant holds before loadModules starts.
LEMMA InitPhase == Init => PhaseInv
  BY DEF Init, PhaseInv, Thread

\* Every step keeps the phase invariant.
LEMMA NextPhase ==
  ASSUME TypeOK, PhaseInv, [Next]_vars
  PROVE  PhaseInv'
  <1> USE DEF guiVars, envVars, phaseVars
  <1>0. \A l \in Loaders : l \in Thread /\ l # Gui
    BY DEF Thread
  <1>a. Gui \in Thread /\ DOMAIN pc = Thread
    BY DEF Thread, TypeOK
  <1>1. CASE UNCHANGED vars
    BY <1>1 DEF vars, PhaseInv
  <1>2. ASSUME NEW t \in Thread, TransitionStep(t)
        PROVE  PhaseInv'
    BY <1>2 DEF TransitionStep, TxLoad, TxStore, TxCheck, PhaseInv
  <1>3. CASE AllStarted
    <2>1. allLoadFinished => navFinished'
      BY <1>3 DEF AllStarted, CheckNavigationFinished, PhaseInv
    <2>2. dataPhaseStarted' \/ timer' => navFinished'
      BY <1>3 DEF AllStarted, CheckNavigationFinished, PhaseInv, StartsDataPhase,
                   StartsTimer
    <2>3. navFinished => navFinished'
      BY <1>3 DEF AllStarted, CheckNavigationFinished
    <2>4. pc'[Gui] = "idle" /\ \A l \in Loaders : pc'[l] = pc[l]
      BY <1>0, <1>3, <1>a DEF AllStarted
    <2>5. QED
      BY <1>3, <2>1, <2>2, <2>3, <2>4, CheckPhase DEF AllStarted, PhaseInv
  <1>4. CASE FireTimer
    BY <1>4 DEF FireTimer, Idle, PhaseInv
  <1>t. CASE TimerDue
    BY <1>t DEF TimerDue, PhaseInv
  <1>5. CASE Join
    <2>1. \A l \in Loaders : pc[l] = "off" /\ pc'[l] = "off"
      BY <1>0, <1>5, <1>a DEF Join
    <2>2. pc'[Gui] \in {"joinDelete", "deleted"} => pc[Gui] = "joinDelete"
      BY <1>5, <1>a DEF Join
    <2>3. QED
      BY <1>5, <2>1, <2>2 DEF Join, PhaseInv
  <1>6. CASE LoadMain \/ LoadModule \/ ResetRead \/ ResetStore \/ Resumed
    <2>1. pc'[Gui] \in {"idle", "clear", "resume"} /\ \A l \in Loaders : pc'[l] = pc[l]
      BY <1>0, <1>6, <1>a DEF LoadMain, LoadModule, ResetRead, ResetStore, Resumed
    <2>2. UNCHANGED <<phaseVars, timer, pool>>
      BY <1>6 DEF LoadMain, LoadModule, ResetRead, ResetStore, Resumed
    <2>3. QED
      BY <2>1, <2>2 DEF PhaseInv
  <1>7. ASSUME NEW l \in Loaders, StartLoader(l) \/ UpdateVisible(l)
        PROVE  PhaseInv'
    <2>1. UNCHANGED <<phaseVars, timer, pool>>
      BY <1>7 DEF StartLoader, UpdateVisible
    <2>2. pc' = pc \/ pc' = [pc EXCEPT ![Gui] = "reset"]
      BY <1>7 DEF StartLoader, UpdateVisible
    <2>3. pc[Gui] \in {"start", "resume"}
      BY <1>7 DEF StartLoader, UpdateVisible
    <2>4. QED
      BY <1>0, <1>a, <2>1, <2>2, <2>3 DEF PhaseInv
  <1>8. ASSUME NEW l \in Loaders, FinishPlugin(l)
        PROVE  PhaseInv'
    <2>1. AllFinished => AllNavReady
      BY DEF AllFinished, AllNavReady, Has
    <2>2. allLoadFinished' => navFinished'
      BY <1>8, <2>1 DEF FinishPlugin, CheckNavigationFinished, PhaseInv
    <2>3. dataPhaseStarted' \/ timer' => navFinished'
      BY <1>8 DEF FinishPlugin, CheckNavigationFinished, PhaseInv, StartsDataPhase,
                  StartsTimer
    <2>4. navFinished => navFinished'
      BY <1>8 DEF FinishPlugin, CheckNavigationFinished
    <2>5. pc[Gui] = "idle" /\ (pc' = pc \/ pc' = [pc EXCEPT ![Gui] = "join"])
      BY <1>8 DEF FinishPlugin, Dispatch, Delivered, Idle
    <2>6. pc'[Gui] \in {"idle", "join"} /\ \A k \in Loaders : pc'[k] = pc[k]
      BY <1>0, <1>a, <2>5
    <2>7. \A k \in pool' : k \in pool \/ k \in TasksToStart
      BY <1>8 DEF FinishPlugin
    <2>8. \A k \in TasksToStart : navFinished'
      BY <1>8, CheckPhase DEF FinishPlugin
    <2>9. QED
      BY <2>2, <2>3, <2>4, <2>6, <2>7, <2>8 DEF PhaseInv
  <1>9. ASSUME NEW l \in Loaders, ModuleDone(l)
        PROVE  PhaseInv'
    <2>1. dataPhaseStarted' \/ timer' => navFinished'
      BY <1>9 DEF ModuleDone, CheckNavigationFinished, PhaseInv, StartsDataPhase,
                  StartsTimer
    <2>2. navFinished => navFinished'
      BY <1>9 DEF ModuleDone, CheckNavigationFinished
    <2>3. pc[Gui] = "idle" /\ UNCHANGED <<pc, allLoadFinished>>
      BY <1>9 DEF ModuleDone, Dispatch, Delivered, Idle
    <2>4. \A k \in TasksToStart : navFinished'
      BY <1>9, CheckPhase DEF ModuleDone
    <2>5. QED
      BY <1>9, <2>1, <2>2, <2>3, <2>4 DEF ModuleDone, PhaseInv
  <1>10. ASSUME NEW l \in Loaders,
                DropEvent(l) \/ AddMain(l) \/ StartMain(l) \/ StartModule(l) \/ LoadMetaData(l)
         PROVE  PhaseInv'
    <2>1. UNCHANGED <<phaseVars, timer, pool>>
      BY <1>10 DEF DropEvent, AddMain, StartMain, StartModule, LoadMetaData
    <2>2. \/ pc' = pc \/ pc' = [pc EXCEPT ![Gui] = "main"]
          \/ pc' = [pc EXCEPT ![Gui] = "module"]
      BY <1>10 DEF DropEvent, AddMain, StartMain, StartModule, LoadMetaData
    <2>3. pc[Gui] = "idle"
      BY <1>10 DEF DropEvent, AddMain, StartMain, StartModule, LoadMetaData, Dispatch,
                   Delivered, Idle
    <2>4. QED
      BY <1>0, <1>a, <2>1, <2>2, <2>3 DEF PhaseInv
  <1>11. CASE Environment
    <2>1. UNCHANGED <<phaseVars, timer>> /\ (pool' = pool \/ pool' = {})
      BY <1>11 DEF Environment, ChangeHideModule, BeginDelete, Destroy, ToggleVisible
    <2>2. \/ pc' = pc \/ pc' = [pc EXCEPT ![Gui] = "resume"]
          \/ pool' = {} /\ pc' = [pc EXCEPT ![Gui] = "joinDelete"]
      BY <1>11 DEF Environment, ChangeHideModule, BeginDelete, Destroy, ToggleVisible
    <2>3. pc[Gui] = "idle"
      BY <1>11 DEF Environment, ChangeHideModule, BeginDelete, Destroy, ToggleVisible, Idle
    <2>4. QED
      BY <1>0, <1>a, <2>1, <2>2, <2>3 DEF PhaseInv
  <1>12. ASSUME NEW l \in Loaders, TaskStart(l)
         PROVE  PhaseInv'
    <2>1. l \in pool /\ pool' = pool \ {l} /\ pc[Gui] \notin {"joinDelete", "deleted"}
      BY <1>12 DEF TaskStart, PhaseInv
    <2>2. \A k \in Thread : k # l => pc'[k] = pc[k]
      BY <1>a, <1>12 DEF TaskStart
    <2>3. UNCHANGED <<phaseVars, timer>>
      BY <1>12 DEF TaskStart
    <2>4. QED
      BY <1>0, <1>a, <2>1, <2>2, <2>3 DEF PhaseInv
  <1>13. ASSUME NEW l \in Loaders,
                \/ LoadLibrary(l) \/ LibraryBroken(l) \/ CreateData(l)
                \/ MoveThread(l) \/ TaskEnd(l)
         PROVE  PhaseInv'
    <2>1. pc[l] # "off" /\ \A k \in Thread : k # l => pc'[k] = pc[k]
      BY <1>a, <1>13 DEF LoadLibrary, LibraryBroken, CreateData, MoveThread, TaskEnd
    <2>2. UNCHANGED <<phaseVars, timer, pool>>
      BY <1>13 DEF LoadLibrary, LibraryBroken, CreateData, MoveThread, TaskEnd
    <2>3. QED
      BY <1>0, <1>a, <2>1, <2>2 DEF PhaseInv
  <1>14. ASSUME NEW l \in Loaders, LoadPlugin(l)
         PROVE  PhaseInv'
    BY <1>8, <1>9, <1>10, <1>14 DEF LoadPlugin
  <1>15. ASSUME NEW l \in Loaders, TaskStep(l)
         PROVE  PhaseInv'
    BY <1>0, <1>2, <1>12, <1>13, <1>15 DEF TaskStep
  <1>16. CASE GuiStep
    BY <1>a, <1>2, <1>3, <1>4, <1>5, <1>6, <1>7, <1>14, <1>16, <1>t DEF GuiStep
  <1>17. QED
    BY <1>1, <1>11, <1>15, <1>16 DEF Next

\* navigationReady is emitted before any plugin library is loaded and before
\* loadAllFinished.
THEOREM NavigationIsFirst == Spec => []NavigationFirst
  <1>1. TypeOK /\ PhaseInv => NavigationFirst
    BY DEF TypeOK, PhaseInv, NavigationFirst, Running
  <1>2. QED
    BY <1>1, InitTypeOK, NextTypeOK, InitPhase, NextPhase, PTL DEF Spec

\* No task runs or waits once the plugin manager has deleted its loaders.
THEOREM NothingOutlivesDelete == Spec => []NoTaskAfterDelete
  <1>1. PhaseInv => NoTaskAfterDelete
    BY DEF PhaseInv, NoTaskAfterDelete, Running
  <1>2. QED
    BY <1>1, InitTypeOK, NextTypeOK, InitPhase, NextPhase, PTL DEF Spec

-----------------------------------------------------------------------------
(* The main object is built from settled data, as long as no plugin is     *)
(* given a second task.                                                     *)

\* l's task, if it has one at all, has not yet published DataEnd.
Fresh(l) == tasks[l] = 0 \/ l \in pool \/ pc[l] \in {"library", "broken", "loaded", "created"}

\* What is only true of a loader whose task has come to its end.
Final == {"DataEnd", "MainObjLoad"}

\* The bits a transition in flight may still bring into the status.
Carried(t) == tx[t].bits \cup tx[t].new

\* Nothing final has reached l's status or is on its way there.
Clean(l) ==
  /\ status[l] \cap Final = {}
  /\ Carried(l) \cap Final = {}
  /\ tx[Gui].of = l => Carried(Gui) \cap Final = {} /\ pc[Gui] # "main"

TaskInv(l) ==
  /\ tx[l].of = l
  /\ pc[l] \in {"off", "library", "broken", "loaded", "created", "ended"}
  /\ tasks[l] = 0 => l \notin pool /\ pc[l] = "off"
  /\ l \in pool => pc[l] = "off"
  /\ data[l] = "worker" => pc[l] = "created"

DataInv == \A l \in Loaders : TaskInv(l) /\ (Fresh(l) => Clean(l))

\* A transition at rest carries nothing, except between the two halves of updateVisible.
RestInv ==
  /\ \A t \in Thread :
       /\ tx[t].step # "store" => tx[t].new = {}
       /\ tx[t].step = "none" => tx[t].bits = {} \/ (t = Gui /\ pc[Gui] = "clear")
  /\ pc[Gui] \in {"reset", "clear"} => tx[Gui].step = "none"

\* No plugin has a task, data or a transition in flight at the start.
LEMMA InitData == Init => DataInv /\ RestInv
  <1> SUFFICES ASSUME Init PROVE DataInv /\ RestInv
    OBVIOUS
  <1>1. \A l \in Loaders : l \in Thread /\ l # Gui
    BY DEF Thread
  <1>2. \A t \in Thread : tx[t].step = "none" /\ tx[t].bits = {} /\ tx[t].new = {}
    BY DEF Init
  <1>3. \A l \in Loaders : tx[l].of = l /\ pc[l] = "off" /\ data[l] = "none"
    BY <1>1 DEF Init
  <1>4. pc[Gui] = "start" /\ \A l \in Loaders : status[l] = {} /\ l \notin pool
    BY DEF Init, Thread
  <1>5. Gui \in Thread
    BY DEF Thread
  <1>6. QED
    BY <1>1, <1>2, <1>3, <1>4, <1>5 DEF DataInv, TaskInv, Clean, RestInv, Carried

\* Where a thread's own transition cannot be disturbed, a new one starts from its bits.
LEMMA BeginEffect ==
  ASSUME TypeOK, NEW t \in Thread, NEW l \in Loaders, NEW bits \in SUBSET Bit, Begin(t, l, bits)
  PROVE  /\ tx'[t].of = l /\ tx'[t].bits = bits /\ tx'[t].new = {} /\ tx'[t].step = "load"
         /\ \A u \in Thread \ {t} : tx'[u] = tx[u]
  BY DEF TypeOK, Begin, Transition

\* Every step leaves a transition that is at rest empty.
LEMMA RestStep ==
  ASSUME TypeOK, RestInv, [Next]_vars
  PROVE  RestInv'
  <1> USE DEF guiVars, envVars, phaseVars
  <1>0. Gui \in Thread /\ \A l \in Loaders : l \in Thread /\ l # Gui
    BY DEF Thread
  <1>1. CASE UNCHANGED vars
    BY <1>1 DEF vars, RestInv
  <1>2. ASSUME NEW t \in Thread, TransitionStep(t)
        PROVE  RestInv'
    <2>0. tx[t] \in Transition
      BY DEF TypeOK
    <2>1. /\ tx'[t].step # "store" => tx'[t].new = {}
          /\ tx'[t].step = "none" => tx'[t].bits = {}
      <3>1. CASE TxLoad(t)
        BY <2>0, <3>1 DEF TxLoad, TypeOK, Transition
      <3>2. CASE TxStore(t)
        BY <2>0, <3>2 DEF TxStore, TypeOK, Transition
      <3>3. CASE TxCheck(t)
        BY <2>0, <3>3 DEF TxCheck, TypeOK, Transition, RestInv
      <3>4. QED
        BY <1>2, <3>1, <3>2, <3>3 DEF TransitionStep
    <2>2. \A u \in Thread \ {t} : tx'[u] = tx[u]
      BY <1>2 DEF TransitionStep, TxLoad, TxStore, TxCheck, TypeOK
    <2>3. pc' = pc
      BY <1>2 DEF TransitionStep, TxLoad, TxStore, TxCheck
    <2>4. tx[t].step # "none"
      BY <1>2 DEF TransitionStep, TxLoad, TxStore, TxCheck
    <2>5. QED
      BY <1>0, <2>1, <2>2, <2>3, <2>4 DEF RestInv
  <1>3. ASSUME NEW t \in Thread, NEW l \in Loaders, NEW bits \in SUBSET Bit, Begin(t, l, bits),
               pc[Gui] # "clear", pc'[Gui] \notin {"reset", "clear"}
        PROVE  RestInv'
    BY <1>3, BeginEffect DEF RestInv
  <1>4. ASSUME UNCHANGED tx, pc[Gui] # "clear", pc'[Gui] \notin {"reset", "clear"}
        PROVE  RestInv'
    BY <1>4 DEF RestInv
  <1>5. ASSUME NEW t \in Thread, NEW l \in Loaders, NEW bits \in SUBSET Bit, Begin(t, l, bits),
               t # Gui, pc'[Gui] = pc[Gui]
        PROVE  RestInv'
    BY <1>0, <1>5, BeginEffect DEF RestInv
  <1>6. ASSUME UNCHANGED tx, pc'[Gui] = pc[Gui]
        PROVE  RestInv'
    BY <1>6 DEF RestInv
  <1>7. CASE AllStarted \/ FireTimer \/ TimerDue \/ Join \/ Resumed \/ Environment
    <2>1. UNCHANGED tx
      BY <1>7 DEF AllStarted, FireTimer, TimerDue, Join, Resumed, Environment, ChangeHideModule,
                  BeginDelete, Destroy, ToggleVisible
    <2>2. pc[Gui] # "clear"
      BY <1>7 DEF AllStarted, FireTimer, TimerDue, Join, Resumed, Environment, ChangeHideModule,
                  BeginDelete, Destroy, ToggleVisible, Idle
    <2>3. pc'[Gui] \notin {"reset", "clear"}
      BY <1>0, <1>7 DEF AllStarted, FireTimer, TimerDue, Join, Resumed, Environment, ChangeHideModule,
                        BeginDelete, Destroy, ToggleVisible, Idle, TypeOK
    <2>4. QED
      BY <1>4, <2>1, <2>2, <2>3
  <1>8. CASE LoadMain \/ LoadModule
    <2>1. tx[Gui].of \in Loaders
      BY <1>0 DEF TypeOK, Transition
    <2>2. \E bits \in SUBSET Bit : Begin(Gui, tx[Gui].of, bits)
      <3>1. {"MainObjEnd"} \in SUBSET Bit /\ {"ModuleEnd", "PluginEnd"} \in SUBSET Bit
            /\ {"ModuleEnd"} \in SUBSET Bit
        BY DEF Bit
      <3>2. QED
        BY <1>8, <3>1 DEF LoadMain, LoadModule
    <2>3. pc[Gui] # "clear" /\ pc'[Gui] = "idle"
      BY <1>0, <1>8 DEF LoadMain, LoadModule, TypeOK
    <2>4. QED
      BY <1>0, <1>3, <2>1, <2>2, <2>3
  <1>9. CASE ResetRead
    <2>1. /\ \A u \in Thread \ {Gui} : tx'[u] = tx[u]
          /\ tx'[Gui].step = tx[Gui].step /\ tx'[Gui].new = tx[Gui].new
          /\ pc[Gui] = "reset" /\ pc'[Gui] = "clear"
      BY <1>0, <1>9 DEF ResetRead, TypeOK, Transition
    <2>2. QED
      BY <1>0, <2>1 DEF RestInv
  <1>10. CASE ResetStore
    <2>0. tx[Gui] \in Transition
      BY <1>0 DEF TypeOK
    <2>1. tx' = [tx EXCEPT ![Gui] = [tx[Gui] EXCEPT !.step = "load", !.old = {}]]
      BY <1>0, <1>10 DEF ResetStore, TypeOK
    <2>2. /\ \A u \in Thread \ {Gui} : tx'[u] = tx[u]
          /\ tx'[Gui].step = "load" /\ tx'[Gui].new = tx[Gui].new
      BY <1>0, <2>0, <2>1 DEF TypeOK, Transition
    <2>3. pc[Gui] = "clear" /\ pc'[Gui] = "resume"
      BY <1>0, <1>10 DEF ResetStore, TypeOK
    <2>4. QED
      BY <1>0, <2>2, <2>3 DEF RestInv
  <1>11. ASSUME NEW l \in Loaders, StartLoader(l)
         PROVE  RestInv'
    BY <1>6, <1>11 DEF StartLoader
  <1>12. ASSUME NEW l \in Loaders, UpdateVisible(l)
         PROVE  RestInv'
    <2>1. tx' = tx \/ tx' = [tx EXCEPT ![Gui].of = l]
      BY <1>12 DEF UpdateVisible
    <2>2. \A t \in Thread : /\ tx'[t].step = tx[t].step /\ tx'[t].bits = tx[t].bits
                            /\ tx'[t].new = tx[t].new
      <3>1. tx[Gui] \in Transition
        BY <1>0 DEF TypeOK
      <3>2. tx' = tx \/ tx' = [tx EXCEPT ![Gui] = [tx[Gui] EXCEPT !.of = l]]
        BY <1>0, <2>1 DEF TypeOK
      <3>3. LET r == [tx[Gui] EXCEPT !.of = l]
            IN  r.step = tx[Gui].step /\ r.bits = tx[Gui].bits /\ r.new = tx[Gui].new
        BY <3>1 DEF Transition
      <3>4. QED
        BY <1>0, <3>2, <3>3 DEF TypeOK
    <2>3. pc[Gui] # "clear" /\ tx[Gui].step = "none"
      BY <1>12 DEF UpdateVisible, Resting
    <2>4. QED
      BY <1>0, <2>2, <2>3 DEF RestInv
  <1>13. ASSUME NEW l \in Loaders, LoadPlugin(l)
         PROVE  RestInv'
    <2>1. pc[Gui] # "clear" /\ pc'[Gui] \notin {"reset", "clear"}
      BY <1>0, <1>13 DEF LoadPlugin, DropEvent, FinishPlugin, AddMain, StartMain, ModuleDone,
                         StartModule, LoadMetaData, Dispatch, Delivered, Idle, TypeOK
    <2>2. UNCHANGED tx \/ \E bits \in SUBSET Bit : Begin(Gui, l, bits)
      <3>1. /\ {"PluginEnd"} \in SUBSET Bit /\ {"MainObjLoad"} \in SUBSET Bit
            /\ {"ModuleLoad"} \in SUBSET Bit /\ MetaDataBits(l) \in SUBSET Bit
        BY DEF Bit, MetaDataBits
      <3>2. QED
        BY <1>13, <3>1 DEF LoadPlugin, DropEvent, FinishPlugin, AddMain, StartMain, ModuleDone,
                           StartModule, LoadMetaData
    <2>3. QED
      BY <1>0, <1>3, <1>4, <2>1, <2>2
  <1>14. ASSUME NEW l \in Loaders, TaskStep(l)
         PROVE  RestInv'
    <2>1. CASE TransitionStep(l)
      BY <1>0, <1>2, <2>1
    <2>2. CASE TaskStart(l) \/ TaskEnd(l)
      <3>1. UNCHANGED tx /\ pc'[Gui] = pc[Gui]
        BY <1>0, <2>2 DEF TaskStart, TaskEnd, TypeOK
      <3>2. QED
        BY <1>6, <3>1
    <2>3. CASE LoadLibrary(l) \/ LibraryBroken(l) \/ CreateData(l) \/ MoveThread(l)
      <3>1. pc'[Gui] = pc[Gui]
        BY <1>0, <2>3 DEF LoadLibrary, LibraryBroken, CreateData, MoveThread, TypeOK
      <3>2. UNCHANGED tx \/ \E bits \in SUBSET Bit : Begin(l, l, bits)
        <4>1. /\ {"DataErr"} \in SUBSET Bit /\ {"DataLoad"} \in SUBSET Bit
              /\ {"DataEnd"} \in SUBSET Bit
          BY DEF Bit
        <4>2. QED
          BY <2>3, <4>1 DEF LoadLibrary, LibraryBroken, CreateData, MoveThread
      <3>3. QED
        BY <1>0, <1>5, <1>6, <3>1, <3>2
    <2>4. QED
      BY <1>14, <2>1, <2>2, <2>3 DEF TaskStep
  <1>15. CASE GuiStep
    BY <1>0, <1>2, <1>7, <1>8, <1>9, <1>10, <1>11, <1>12, <1>13, <1>15 DEF GuiStep
  <1>16. QED
    BY <1>1, <1>7, <1>14, <1>15 DEF Next

\* A step of the GUI thread disturbs DataInv only through what it writes or carries.
LEMMA GuiFrame ==
  ASSUME DataInv,
         \A k \in Loaders : pc'[k] = pc[k] /\ data'[k] = data[k] /\ tx'[k] = tx[k],
         \A k \in Loaders : tasks'[k] = 0 => k \notin pool' /\ tasks[k] = 0,
         \A k \in Loaders : k \in pool' => pc[k] = "off",
         \A k \in Loaders : Fresh(k)' => Fresh(k),
         \A k \in Loaders : Fresh(k) => Clean(k)'
  PROVE  DataInv'
  BY DEF DataInv, TaskInv

\* A step that leaves the loaders' own state alone keeps DataInv if what the GUI thread
\* carries for a fresh loader is not final.
LEMMA QuietFrame ==
  ASSUME DataInv, UNCHANGED <<status, tasks, pool, data>>,
         \A k \in Loaders : pc'[k] = pc[k] /\ tx'[k] = tx[k],
         \A k \in Loaders : Fresh(k) /\ tx'[Gui].of = k
                            => Carried(Gui)' \cap Final = {} /\ pc'[Gui] # "main"
  PROVE  DataInv'
  <1>1. \A k \in Loaders : Fresh(k)' <=> Fresh(k)
    BY DEF Fresh
  <1>2. \A k \in Loaders : Fresh(k) => Clean(k)'
    BY DEF DataInv, Clean, Carried
  <1>3. QED
    BY <1>1, <1>2 DEF DataInv, TaskInv

\* The GUI thread starts a transition on l.
LEMMA GuiBegin ==
  ASSUME TypeOK, DataInv, UNCHANGED <<status, tasks, pool, data>>,
         \A k \in Loaders : pc'[k] = pc[k],
         NEW l \in Loaders, NEW bits \in SUBSET Bit, Begin(Gui, l, bits),
         Fresh(l) => bits \cap Final = {} /\ pc'[Gui] # "main"
  PROVE  DataInv'
  <1>0. Gui \in Thread /\ \A k \in Loaders : k \in Thread /\ k # Gui
    BY DEF Thread
  <1>1. /\ tx'[Gui].of = l /\ tx'[Gui].bits = bits /\ tx'[Gui].new = {}
        /\ \A k \in Loaders : tx'[k] = tx[k]
    BY <1>0, BeginEffect
  <1>2. QED
    BY <1>0, <1>1, QuietFrame DEF Carried

\* Loaders are handed to the pool; by OneTask they have had no task before.
LEMMA HandOverData ==
  ASSUME TypeOK, DataInv, OneTask', NEW S \in SUBSET Loaders, HandOver(S),
         pool' \subseteq pool \cup S, UNCHANGED <<tx, data>>,
         \A k \in Loaders : pc'[k] = pc[k], pc[Gui] # "main", pc'[Gui] # "main"
  PROVE  DataInv'
  <1>1. \A k \in S : tasks[k] = 0 /\ tasks'[k] = 1
    BY DEF HandOver, OneTask, TypeOK
  <1>2. \A k \in Loaders \ S : tasks'[k] = tasks[k]
    BY DEF HandOver
  <1>3. \A k \in Loaders : Fresh(k)' => Fresh(k)
    BY <1>1, <1>2 DEF Fresh
  <1>4. \A k \in Loaders : status'[k] \cap Final = status[k] \cap Final
    BY DEF HandOver, Final
  <1>5. \A k \in Loaders : Fresh(k) => Clean(k)'
    BY <1>4 DEF DataInv, Clean, Carried
  <1>6. \A k \in Loaders : tasks'[k] = 0 => k \notin pool' /\ tasks[k] = 0
    BY <1>1, <1>2 DEF DataInv, TaskInv
  <1>7. \A k \in Loaders : k \in pool' => pc[k] = "off"
    BY <1>1 DEF DataInv, TaskInv
  <1>8. QED
    BY <1>3, <1>5, <1>6, <1>7, GuiFrame

\* A step of transitionStatus publishes DataEnd or MainObjLoad only if its transition has it.
LEMMA TransitionData ==
  ASSUME TypeOK, DataInv, NEW t \in Thread, TransitionStep(t)
  PROVE  DataInv'
  <1> USE DEF guiVars, envVars, phaseVars
  <1>0. Gui \in Thread /\ \A k \in Loaders : k \in Thread /\ k # Gui
    BY DEF Thread
  <1>1. tx[t] \in Transition /\ tx[t].of \in Loaders
    BY DEF TypeOK, Transition
  <1>2. UNCHANGED <<pc, pool, tasks, data>>
    BY DEF TransitionStep, TxLoad, TxStore, TxCheck
  <1>3. \A u \in Thread \ {t} : tx'[u] = tx[u]
    BY DEF TransitionStep, TxLoad, TxStore, TxCheck, TypeOK
  <1>4. tx'[t].of = tx[t].of
    BY <1>1 DEF TransitionStep, TxLoad, TxStore, TxCheck, TypeOK, Transition
  <1>5. Carried(t)' \subseteq Carried(t) \cup status[tx[t].of]
    <2>1. CASE TxLoad(t)
      BY <1>1, <2>1 DEF TxLoad, Carried, TypeOK, Transition
    <2>2. CASE TxStore(t)
      BY <1>1, <2>2 DEF TxStore, Carried, TypeOK, Transition
    <2>3. CASE TxCheck(t)
      BY <1>1, <2>3 DEF TxCheck, Carried, TypeOK, Transition
    <2>4. QED
      BY <2>1, <2>2, <2>3 DEF TransitionStep
  <1>6. /\ \A k \in Loaders : k # tx[t].of => status'[k] = status[k]
        /\ status'[tx[t].of] \subseteq status[tx[t].of] \cup Carried(t)
    BY <1>1 DEF TransitionStep, TxLoad, TxStore, TxCheck, TypeOK, Carried
  <1>7. \A k \in Loaders : Fresh(k)' <=> Fresh(k)
    BY <1>2 DEF Fresh
  <1>8. \A u \in Thread \ {t} : Carried(u)' = Carried(u)
    BY <1>3 DEF Carried
  <1>9. ASSUME NEW k \in Loaders, Fresh(k)
        PROVE  Clean(k)'
    <2>1. Clean(k) /\ tx[k].of = k
      BY <1>9 DEF DataInv, TaskInv
    <2>2. tx[t].of = k => Carried(t) \cap Final = {}
      BY <1>0, <2>1 DEF Clean, Thread, DataInv, TaskInv
    <2>3. status'[k] \cap Final = {}
      BY <1>6, <2>1, <2>2 DEF Clean
    <2>4. Carried(k)' \cap Final = {}
      BY <1>0, <1>5, <1>8, <2>1, <2>2 DEF Clean
    <2>5. tx'[Gui].of = tx[Gui].of
      BY <1>0, <1>3, <1>4
    <2>6. tx'[Gui].of = k => Carried(Gui)' \cap Final = {}
      BY <1>0, <1>5, <1>8, <2>1, <2>2, <2>5 DEF Clean
    <2>7. tx'[Gui].of = k => pc'[Gui] # "main"
      BY <1>2, <2>1, <2>5 DEF Clean
    <2>8. QED
      BY <2>3, <2>4, <2>6, <2>7 DEF Clean
  <1>10. \A k \in Loaders : tx'[k].of = k
    BY <1>0, <1>3, <1>4 DEF DataInv, TaskInv
  <1>11. QED
    BY <1>2, <1>7, <1>9, <1>10 DEF DataInv, TaskInv

\* Every step of the GUI thread keeps DataInv.
LEMMA GuiData ==
  ASSUME TypeOK, RestInv, DataInv, OneTask', GuiStep
  PROVE  DataInv'
  <1> USE DEF guiVars, envVars, phaseVars
  <1>0. Gui \in Thread /\ \A k \in Loaders : k \in Thread /\ k # Gui
    BY DEF Thread
  <1>a. tx[Gui] \in Transition /\ tx[Gui].of \in Loaders
    BY <1>0 DEF TypeOK, Transition
  <1>b. Ready \in SUBSET Loaders /\ TasksToStart \in SUBSET Loaders
    BY DEF Ready, TasksToStart
  <1>1. CASE TransitionStep(Gui)
    BY <1>0, <1>1, TransitionData
  <1>2. CASE AllStarted
    <2>1. pc' = [pc EXCEPT ![Gui] = "idle"] /\ pc[Gui] = "start"
      BY <1>2 DEF AllStarted
    <2>2. pc'[Gui] = "idle" /\ \A k \in Loaders : pc'[k] = pc[k]
      BY <1>0, <2>1 DEF TypeOK
    <2>3. HandOver(TasksToStart) /\ pool' \subseteq pool \cup TasksToStart /\ UNCHANGED <<tx, data>>
      BY <1>2 DEF AllStarted, CheckNavigationFinished
    <2>4. QED
      BY <1>b, <2>1, <2>2, <2>3, HandOverData
  <1>t. CASE TimerDue
    BY <1>t, QuietFrame DEF TimerDue, Idle, DataInv, Clean, Carried
  <1>3. CASE FireTimer
    BY <1>b, <1>3, HandOverData DEF FireTimer, Idle
  <1>4. CASE Join \/ Resumed
    <2>1. UNCHANGED <<status, tx, pool, tasks, data>>
      BY <1>4 DEF Join, Resumed
    <2>2. pc'[Gui] # "main" /\ \A k \in Loaders : pc'[k] = pc[k]
      BY <1>0, <1>4 DEF Join, Resumed, TypeOK
    <2>3. QED
      BY <2>1, <2>2, QuietFrame DEF DataInv, Clean, Carried
  <1>5. CASE LoadMain
    <2>1. pc'[Gui] = "idle" /\ \A k \in Loaders : pc'[k] = pc[k]
      BY <1>0, <1>5 DEF LoadMain, TypeOK
    <2>2. {"MainObjEnd"} \in SUBSET Bit /\ {"MainObjEnd"} \cap Final = {}
      BY DEF Bit, Final
    <2>3. QED
      BY <1>a, <1>5, <2>1, <2>2, GuiBegin DEF LoadMain
  <1>6. CASE LoadModule
    <2>1. pc'[Gui] = "idle" /\ \A k \in Loaders : pc'[k] = pc[k]
      BY <1>0, <1>6 DEF LoadModule, TypeOK
    <2>2. \E bits \in SUBSET Bit : bits \cap Final = {} /\ Begin(Gui, tx[Gui].of, bits)
      <3>1. /\ {"ModuleEnd"} \in SUBSET Bit /\ {"ModuleEnd"} \cap Final = {}
            /\ {"ModuleEnd", "PluginEnd"} \in SUBSET Bit
            /\ {"ModuleEnd", "PluginEnd"} \cap Final = {}
        BY DEF Bit, Final
      <3>2. QED
        BY <1>6, <3>1 DEF LoadModule
    <2>3. QED
      BY <1>a, <1>6, <2>1, <2>2, GuiBegin DEF LoadModule
  <1>7. CASE ResetRead
    <2>1. pc'[Gui] = "clear" /\ \A k \in Loaders : pc'[k] = pc[k]
      BY <1>0, <1>7 DEF ResetRead, TypeOK
    <2>2. /\ tx'[Gui].of = tx[Gui].of /\ tx'[Gui].new = tx[Gui].new
          /\ tx'[Gui].bits = status[tx[Gui].of] \ {"PluginEnd"}
          /\ \A k \in Loaders : tx'[k] = tx[k]
      BY <1>0, <1>a, <1>7 DEF ResetRead, TypeOK, Transition
    <2>3. Carried(Gui)' \subseteq Carried(Gui) \cup status[tx[Gui].of]
      BY <2>2 DEF Carried
    <2>4. QED
      BY <1>7, <2>1, <2>2, <2>3, QuietFrame DEF ResetRead, DataInv, Clean
  <1>8. CASE ResetStore
    <2>1. pc'[Gui] = "resume" /\ \A k \in Loaders : pc'[k] = pc[k]
      BY <1>0, <1>8 DEF ResetStore, TypeOK
    <2>2. tx' = [tx EXCEPT ![Gui] = [tx[Gui] EXCEPT !.step = "load", !.old = {}]]
      BY <1>0, <1>8 DEF ResetStore, TypeOK
    <2>3. /\ tx'[Gui].of = tx[Gui].of /\ Carried(Gui)' = Carried(Gui)
          /\ \A k \in Loaders : tx'[k] = tx[k]
      BY <1>0, <1>a, <2>2 DEF TypeOK, Transition, Carried
    <2>4. \A k \in Loaders : status'[k] \subseteq status[k]
      BY <1>a, <1>8 DEF ResetStore, TypeOK
    <2>5. \A k \in Loaders : Carried(k)' = Carried(k)
      BY <2>3 DEF Carried
    <2>6. \A k \in Loaders : Clean(k) => Clean(k)'
      BY <2>1, <2>3, <2>4, <2>5 DEF Clean
    <2>7. UNCHANGED <<pool, tasks, data>> /\ \A k \in Loaders : Fresh(k)' <=> Fresh(k)
      BY <1>8, <2>1 DEF ResetStore, Fresh
    <2>8. QED
      BY <2>1, <2>3, <2>6, <2>7 DEF DataInv, TaskInv
  <1>9. ASSUME NEW l \in Loaders, StartLoader(l)
        PROVE  DataInv'
    <2>1. UNCHANGED <<tx, pc, pool, tasks, data>> /\ pc[Gui] = "start"
      BY <1>9 DEF StartLoader
    <2>2. MetaDataBits(l) \cap Final = {}
      BY DEF MetaDataBits, Final
    <2>3. \A k \in Loaders : status'[k] = status[k] \/ status'[k] \cap Final = {}
      BY <1>9, <2>2 DEF StartLoader, TypeOK
    <2>4. \A k \in Loaders : Clean(k) => Clean(k)'
      BY <2>1, <2>3 DEF Clean, Carried
    <2>5. \A k \in Loaders : Fresh(k)' <=> Fresh(k)
      BY <2>1 DEF Fresh
    <2>6. QED
      BY <2>1, <2>4, <2>5 DEF DataInv, TaskInv
  <1>10. ASSUME NEW l \in Loaders, UpdateVisible(l)
         PROVE  DataInv'
    <2>1. UNCHANGED <<status, pool, tasks, data>>
      BY <1>10 DEF UpdateVisible
    <2>2. pc' = pc \/ pc' = [pc EXCEPT ![Gui] = "reset"]
      BY <1>10 DEF UpdateVisible
    <2>3. pc'[Gui] # "main" /\ \A k \in Loaders : pc'[k] = pc[k]
      BY <1>0, <1>10, <2>2 DEF UpdateVisible, TypeOK
    <2>4. tx' = tx \/ tx' = [tx EXCEPT ![Gui].of = l]
      BY <1>10 DEF UpdateVisible
    <2>5. Carried(Gui) = {}
      BY <1>0, <1>10 DEF UpdateVisible, Resting, RestInv, Carried
    <2>6. /\ tx'[Gui].bits = tx[Gui].bits /\ tx'[Gui].new = tx[Gui].new
          /\ \A k \in Loaders : tx'[k] = tx[k]
      <3>1. CASE tx' = tx
        BY <3>1
      <3>2. CASE tx' = [tx EXCEPT ![Gui].of = l]
        <4>1. tx \in [Thread -> Transition]
          BY DEF TypeOK
        <4>2. tx'[Gui] = [tx[Gui] EXCEPT !.of = l]
          BY <1>0, <3>2, <4>1
        <4>3. \A k \in Loaders : tx'[k] = tx[k]
          BY <1>0, <3>2, <4>1
        <4>4. tx'[Gui].bits = tx[Gui].bits /\ tx'[Gui].new = tx[Gui].new
          BY <1>a, <4>2 DEF Transition
        <4>5. QED
          BY <4>3, <4>4
      <3>3. QED
        BY <2>4, <3>1, <3>2
    <2>7. Carried(Gui)' = {}
      BY <2>5, <2>6 DEF Carried
    <2>8. QED
      BY <2>1, <2>3, <2>6, <2>7, QuietFrame
  <1>11. ASSUME NEW l \in Loaders, FinishPlugin(l) \/ ModuleDone(l)
         PROVE  DataInv'
    <2>1. pc[Gui] = "idle" /\ (pc' = pc \/ pc' = [pc EXCEPT ![Gui] = "join"])
      BY <1>11 DEF FinishPlugin, ModuleDone, Dispatch, Delivered, Idle
    <2>2. pc'[Gui] # "main" /\ \A k \in Loaders : pc'[k] = pc[k]
      BY <1>0, <2>1 DEF TypeOK
    <2>3. HandOver(TasksToStart) /\ pool' \subseteq pool \cup TasksToStart /\ UNCHANGED <<tx, data>>
      BY <1>11 DEF FinishPlugin, ModuleDone, CheckNavigationFinished
    <2>4. QED
      BY <1>b, <2>1, <2>2, <2>3, HandOverData
  <1>12. ASSUME NEW l \in Loaders, DropEvent(l)
         PROVE  DataInv'
    <2>1. UNCHANGED <<status, tx, pc, pool, tasks, data>>
      BY <1>12 DEF DropEvent
    <2>2. QED
      BY <2>1, QuietFrame DEF DataInv, Clean, Carried
  <1>13. ASSUME NEW l \in Loaders, AddMain(l) \/ StartModule(l) \/ LoadMetaData(l)
         PROVE  DataInv'
    <2>1. UNCHANGED <<status, tasks, pool, data>>
      BY <1>13 DEF AddMain, StartModule, LoadMetaData
    <2>2. pc[Gui] = "idle" /\ (pc' = pc \/ pc' = [pc EXCEPT ![Gui] = "module"])
      BY <1>13 DEF AddMain, StartModule, LoadMetaData, Dispatch, Delivered, Idle
    <2>3. pc'[Gui] # "main" /\ \A k \in Loaders : pc'[k] = pc[k]
      BY <1>0, <2>2 DEF TypeOK
    <2>4. \E bits \in SUBSET Bit : bits \cap Final = {} /\ Begin(Gui, l, bits)
      <3>1. /\ {"PluginEnd"} \in SUBSET Bit /\ {"PluginEnd"} \cap Final = {}
            /\ {"ModuleLoad"} \in SUBSET Bit /\ {"ModuleLoad"} \cap Final = {}
            /\ MetaDataBits(l) \in SUBSET Bit /\ MetaDataBits(l) \cap Final = {}
        BY DEF Bit, Final, MetaDataBits
      <3>2. QED
        BY <1>13, <3>1 DEF AddMain, StartModule, LoadMetaData
    <2>5. QED
      BY <2>1, <2>3, <2>4, GuiBegin
  <1>14. ASSUME NEW l \in Loaders, StartMain(l)
         PROVE  DataInv'
    <2>1. ~Fresh(l)
      BY <1>14 DEF StartMain, MainPending, Has, DataInv, Clean, Final
    <2>2. \A k \in Loaders : pc'[k] = pc[k]
      BY <1>0, <1>14 DEF StartMain, TypeOK
    <2>3. {"MainObjLoad"} \in SUBSET Bit
      BY DEF Bit
    <2>4. UNCHANGED <<status, tasks, pool, data>> /\ Begin(Gui, l, {"MainObjLoad"})
      BY <1>14 DEF StartMain
    <2>5. QED
      BY <2>1, <2>2, <2>3, <2>4, GuiBegin
  <1>15. ASSUME NEW l \in Loaders, LoadPlugin(l)
         PROVE  DataInv'
    BY <1>11, <1>12, <1>13, <1>14, <1>15 DEF LoadPlugin
  <1>16. QED
    BY <1>1, <1>2, <1>3, <1>4, <1>5, <1>6, <1>7, <1>8, <1>9, <1>10, <1>15, <1>t DEF GuiStep

\* Changes of visibility and the shutdown keep DataInv.
LEMMA EnvironmentData ==
  ASSUME TypeOK, DataInv, Environment
  PROVE  DataInv'
  <1> USE DEF guiVars, envVars, phaseVars
  <1>0. Gui \in Thread /\ \A k \in Loaders : k \in Thread /\ k # Gui
    BY DEF Thread
  <1>1. UNCHANGED <<status, tx, tasks, data>> /\ (pool' = pool \/ pool' = {})
    BY DEF Environment, ChangeHideModule, BeginDelete, Destroy, ToggleVisible
  <1>2. \/ pc' = pc \/ pc' = [pc EXCEPT ![Gui] = "resume"]
        \/ pc' = [pc EXCEPT ![Gui] = "joinDelete"]
    BY DEF Environment, ChangeHideModule, BeginDelete, Destroy, ToggleVisible
  <1>3. pc[Gui] = "idle"
    BY DEF Environment, ChangeHideModule, BeginDelete, Destroy, ToggleVisible, Idle
  <1>4. pc'[Gui] # "main" /\ \A k \in Loaders : pc'[k] = pc[k]
    BY <1>0, <1>2, <1>3 DEF TypeOK
  <1>5. \A k \in Loaders : Fresh(k)' => Fresh(k)
    BY <1>1, <1>4 DEF Fresh
  <1>6. \A k \in Loaders : Clean(k) => Clean(k)'
    BY <1>1, <1>4 DEF Clean, Carried
  <1>7. QED
    BY <1>1, <1>4, <1>5, <1>6 DEF DataInv, TaskInv

\* Every step of LoadDataTask keeps DataInv: DataEnd follows moveThread.
LEMMA TaskData ==
  ASSUME TypeOK, DataInv, NEW l \in Loaders, TaskStep(l)
  PROVE  DataInv'
  <1> USE DEF guiVars, envVars, phaseVars
  <1>0. Gui \in Thread /\ l # Gui /\ \A k \in Loaders : k \in Thread /\ k # Gui
    BY DEF Thread
  <1>1. CASE TransitionStep(l)
    BY <1>0, <1>1, TransitionData
  <1>2. ASSUME UNCHANGED <<status, tasks>>, pool' \subseteq pool,
               \A u \in Thread \ {l} : pc'[u] = pc[u] /\ tx'[u] = tx[u],
               \A k \in Loaders \ {l} : data'[k] = data[k] /\ (k \in pool' <=> k \in pool),
               TaskInv(l)',
               Fresh(l)' => Fresh(l) /\ Carried(l)' \cap Final = {}
        PROVE  DataInv'
    <2>1. ASSUME NEW k \in Loaders \ {l}
          PROVE  TaskInv(k)' /\ (Fresh(k)' => Clean(k)')
      BY <1>0, <1>2, <2>1 DEF DataInv, TaskInv, Fresh, Clean, Carried
    <2>2. Fresh(l)' => Clean(l)'
      BY <1>0, <1>2 DEF DataInv, Clean, Carried
    <2>3. QED
      BY <1>2, <2>1, <2>2 DEF DataInv
  <1>3. CASE TaskStart(l)
    BY <1>0, <1>2, <1>3 DEF TaskStart, DataInv, TaskInv, Fresh, Clean, Carried, TypeOK
  <1>4. ASSUME NEW bits \in SUBSET Bit, Begin(l, l, bits), bits \cap Final = {},
               UNCHANGED <<status, pool, tasks, data>>,
               pc[l] \in {"library", "broken", "loaded"},
               pc' = [pc EXCEPT ![l] = "broken"] \/ pc' = [pc EXCEPT ![l] = "loaded"]
                 \/ pc' = [pc EXCEPT ![l] = "created"]
        PROVE  DataInv'
    <2>1. /\ tx'[l].of = l /\ tx'[l].bits = bits /\ tx'[l].new = {}
          /\ \A u \in Thread \ {l} : tx'[u] = tx[u]
      BY <1>0, <1>4, BeginEffect
    <2>2. pc'[l] \in {"broken", "loaded", "created"} /\ \A u \in Thread \ {l} : pc'[u] = pc[u]
      BY <1>0, <1>4 DEF TypeOK
    <2>3. TaskInv(l)'
      BY <1>4, <2>1, <2>2 DEF DataInv, TaskInv
    <2>4. Fresh(l) /\ Carried(l)' \cap Final = {}
      BY <1>4, <2>1 DEF Fresh, Carried
    <2>5. QED
      BY <1>2, <1>4, <2>1, <2>2, <2>3, <2>4
  <1>5. /\ {"DataErr"} \in SUBSET Bit /\ {"DataErr"} \cap Final = {}
        /\ {"DataLoad"} \in SUBSET Bit /\ {"DataLoad"} \cap Final = {}
    BY DEF Bit, Final
  <1>6. CASE LoadLibrary(l)
    BY <1>4, <1>5, <1>6 DEF LoadLibrary
  <1>7. CASE LibraryBroken(l)
    BY <1>4, <1>5, <1>7 DEF LibraryBroken
  <1>8. CASE CreateData(l)
    <2>1. CASE deleting
      <3>1. pc'[l] = "off" /\ UNCHANGED <<tx, data, status, pool, tasks>>
            /\ \A u \in Thread \ {l} : pc'[u] = pc[u]
        BY <1>0, <1>8, <2>1 DEF CreateData, TypeOK
      <3>2. pc[l] = "loaded"
        BY <1>8 DEF CreateData
      <3>3. QED
        BY <1>2, <3>1, <3>2 DEF DataInv, TaskInv, Fresh
    <2>2. CASE ~deleting /\ l \in BadSo \cup NoSo
      BY <1>4, <1>5, <1>8, <2>2 DEF CreateData
    <2>3. CASE ~deleting /\ l \notin BadSo \cup NoSo
      <3>1. /\ pc' = [pc EXCEPT ![l] = "created"] /\ data' = [data EXCEPT ![l] = "worker"]
            /\ pc[l] = "loaded" /\ UNCHANGED <<tx, status, pool, tasks>>
        BY <1>8, <2>3 DEF CreateData
      <3>2. /\ pc'[l] = "created" /\ \A u \in Thread \ {l} : pc'[u] = pc[u]
            /\ \A k \in Loaders \ {l} : data'[k] = data[k]
        BY <1>0, <3>1 DEF TypeOK
      <3>3. TaskInv(l)' /\ Fresh(l)
        BY <3>1, <3>2 DEF DataInv, TaskInv, Fresh
      <3>4. Carried(l)' \cap Final = {}
        BY <3>1, <3>3 DEF DataInv, Clean, Carried
      <3>5. QED
        BY <1>2, <3>1, <3>2, <3>3, <3>4
    <2>4. QED
      BY <2>1, <2>2, <2>3
  <1>9. CASE MoveThread(l)
    <2>1. /\ pc[l] = "created" /\ pc' = [pc EXCEPT ![l] = "ended"]
          /\ UNCHANGED <<status, pool, tasks>>
          /\ data' = [data EXCEPT ![l] = IF @ = "worker" THEN "gui" ELSE @]
      BY <1>9 DEF MoveThread
    <2>2. /\ pc'[l] = "ended" /\ \A u \in Thread \ {l} : pc'[u] = pc[u]
          /\ data'[l] # "worker" /\ \A k \in Loaders \ {l} : data'[k] = data[k]
      BY <1>0, <2>1 DEF TypeOK
    <2>3. /\ tx'[l].of = l /\ \A u \in Thread \ {l} : tx'[u] = tx[u]
      BY <1>0, <1>9 DEF MoveThread, Begin, TypeOK
    <2>4. TaskInv(l)' /\ ~Fresh(l)'
      BY <2>1, <2>2, <2>3 DEF DataInv, TaskInv, Fresh
    <2>5. QED
      BY <1>2, <2>1, <2>2, <2>3, <2>4
  <1>10. CASE TaskEnd(l)
    <2>1. /\ pc[l] = "ended" /\ pc'[l] = "off" /\ UNCHANGED <<status, tx, pool, tasks, data>>
          /\ \A u \in Thread \ {l} : pc'[u] = pc[u]
      BY <1>0, <1>10 DEF TaskEnd, TypeOK
    <2>2. QED
      BY <1>2, <2>1 DEF DataInv, TaskInv, Fresh
  <1>11. QED
    BY <1>1, <1>3, <1>6, <1>7, <1>8, <1>9, <1>10 DEF TaskStep

\* Every step keeps DataInv, as long as no loader gets a second task.
LEMMA NextData ==
  ASSUME TypeOK, RestInv, DataInv, OneTask', [Next]_vars
  PROVE  DataInv'
  <1>1. CASE UNCHANGED vars
    BY <1>1 DEF vars, DataInv, TaskInv, Fresh, Clean, Carried
  <1>2. QED
    BY <1>1, GuiData, EnvironmentData, TaskData DEF Next

\* As long as no plugin is given a second task, the GUI thread only builds main objects
\* from data objects that have been moved to it and that no task touches any more.
THEOREM MainUsesSettledData == Spec => []DataSettled
  <1> DEFINE Inv == OneTask => DataInv
  <1>1. Init => Inv /\ RestInv
    BY InitData
  <1>2. ASSUME TypeOK, RestInv, Inv, [Next]_vars
        PROVE  Inv'
    <2>1. OneTask' => OneTask
      BY <1>2 DEF Next, vars, OneTask
    <2>2. QED
      BY <1>2, <2>1, NextData
  <1>3. Inv => DataSettled
    BY DEF DataInv, TaskInv, Clean, DataSettled, Has, Final, Fresh
  <1>4. QED
    BY <1>1, <1>2, <1>3, InitTypeOK, NextTypeOK, RestStep, PTL DEF Spec

-----------------------------------------------------------------------------
(* One task per plugin, as long as the two threads never change one status  *)
(* at the same time.                                                        *)

\* The task that has been started for l is in l's status, or in the transition with which
\* the GUI thread puts the status back.
Known(l) ==
  \/ "DataBegin" \in status[l]
  \/ tx[Gui].of = l /\ tx[Gui].step = "load" /\ "DataBegin" \in tx[Gui].bits
  \/ tx[Gui].of = l /\ tx[Gui].step = "store" /\ "DataBegin" \in tx[Gui].new

KnownInv ==
  /\ \A l \in Loaders : tx[l].of = l
  /\ \A l \in Loaders : tasks[l] = 0 => l \notin pool /\ pc[l] = "off" /\ Resting(l)
  /\ \A l \in Loaders : tasks[l] > 0 => Known(l)
  /\ \A t \in Thread :
       tx[t].step = "store" /\ tasks[tx[t].of] > 0 => "DataBegin" \in tx[t].new
  /\ pc[Gui] = "clear" /\ tasks[tx[Gui].of] > 0 => "DataBegin" \in tx[Gui].bits
  /\ pc[Gui] = "start" => Resting(Gui) /\ \A l \in Loaders : tasks[l] = 0

\* There is no task before loadModules starts.
LEMMA InitKnown == Init => KnownInv /\ OneTask
  <1> SUFFICES ASSUME Init PROVE KnownInv /\ OneTask
    OBVIOUS
  <1>1. /\ Gui \in Thread
        /\ \A l \in Loaders : l \in Thread /\ l # Gui /\ tasks[l] = 0
    BY DEF Init, Thread
  <1>2. \A t \in Thread : tx[t].step = "none" /\ (t # Gui => tx[t].of = t)
    BY DEF Init
  <1>3. \A l \in Loaders : pc[l] = "off" /\ l \notin pool
    BY <1>1 DEF Init
  <1>4. pc[Gui] = "start"
    BY <1>1 DEF Init
  <1>5. QED
    BY <1>1, <1>2, <1>3, <1>4 DEF KnownInv, OneTask, Resting

\* startDataPhase only hands over loaders that have had no task.
LEMMA KnownHandOver ==
  ASSUME TypeOK, KnownInv, OneTask, Resting(Gui),
         NEW S \in SUBSET Ready, HandOver(S), pool' \subseteq pool \cup S, UNCHANGED tx,
         \A k \in Loaders : pc'[k] = pc[k], pc'[Gui] \notin {"clear", "start"}
  PROVE  KnownInv' /\ OneTask'
  <1>0. Gui \in Thread /\ \A k \in Loaders : k \in Thread /\ k # Gui /\ tasks[k] \in Nat
    BY DEF Thread, TypeOK
  <1>1. \A k \in S : k \in Loaders /\ tasks[k] = 0
    BY <1>0 DEF Ready, KnownInv, Known, Resting, Has
  <1>2. \A k \in Loaders : /\ k \in S => tasks'[k] = 1 /\ status'[k] = status[k] \cup {"DataBegin"}
                           /\ k \notin S => tasks'[k] = tasks[k] /\ status'[k] = status[k]
    BY <1>1 DEF HandOver
  <1>3. OneTask'
    BY <1>2 DEF OneTask
  <1>4. \A k \in Loaders : tasks'[k] = 0 => k \notin S /\ tasks[k] = 0
    BY <1>2
  <1>5. \A k \in Loaders : tasks'[k] > 0 => Known(k)'
    BY <1>0, <1>2 DEF KnownInv, Known
  <1>6. \A t \in Thread : tx[t].step = "store" => tx[t].of \notin S
    <2>1. \A k \in Loaders : tx[k].step = "store" => tasks[k] # 0 /\ tx[k].of = k
      BY DEF KnownInv, Resting
    <2>2. tx[Gui].step # "store"
      BY DEF Resting
    <2>3. QED
      BY <1>1, <2>1, <2>2 DEF Thread
  <1>7. \A t \in Thread : tx[t].of \in Loaders
    BY DEF TypeOK, Transition
  <1>8. \A t \in Thread :
          tx'[t].step = "store" /\ tasks'[tx'[t].of] > 0 => "DataBegin" \in tx'[t].new
    BY <1>2, <1>6, <1>7 DEF KnownInv
  <1>9. QED
    BY <1>3, <1>4, <1>5, <1>8 DEF KnownInv, Resting

\* The GUI thread, at rest, changes neither status nor tasks, or starts a transition.
LEMMA KnownGui ==
  ASSUME TypeOK, KnownInv, OneTask, Resting(Gui), UNCHANGED <<status, tasks>>,
         pool' \subseteq pool,
         \A k \in Loaders : pc'[k] = pc[k] /\ tx'[k] = tx[k],
         tx'[Gui].step # "store", pc'[Gui] \notin {"clear", "start"}
  PROVE  KnownInv' /\ OneTask'
  <1>1. \A k \in Loaders : tasks[k] > 0 => "DataBegin" \in status[k]
    BY DEF KnownInv, Known, Resting
  <1>2. \A k \in Loaders : tasks'[k] > 0 => Known(k)'
    BY <1>1 DEF Known
  <1>3. \A t \in Thread :
          tx'[t].step = "store" /\ tasks'[tx'[t].of] > 0 => "DataBegin" \in tx'[t].new
    BY DEF KnownInv, Thread
  <1>4. QED
    BY <1>2, <1>3 DEF KnownInv, OneTask, Resting

\* A step of transitionStatus keeps DataBegin, unless the other thread is in one too.
LEMMA KnownTransition ==
  ASSUME TypeOK, KnownInv, OneTask, ~Overlap, RestInv, NEW t \in Thread, TransitionStep(t)
  PROVE  KnownInv' /\ OneTask'
  <1> USE DEF guiVars, envVars, phaseVars
  <1>0. Gui \in Thread /\ \A k \in Loaders : k \in Thread /\ k # Gui /\ tasks[k] \in Nat
    BY DEF Thread, TypeOK
  <1>1. tx[t] \in Transition /\ tx[t].of \in Loaders
    BY DEF TypeOK, Transition
  <1>2. /\ UNCHANGED <<pc, pool, tasks>>
        /\ \A u \in Thread \ {t} : tx'[u] = tx[u]
        /\ tx'[t].of = tx[t].of /\ tx[t].step # "none"
    BY <1>1 DEF TransitionStep, TxLoad, TxStore, TxCheck, TypeOK, Transition
  <1>3. OneTask'
    BY <1>2 DEF OneTask
  <1>4. \A k \in Loaders : tasks[k] > 0 /\ t = k => "DataBegin" \in status[k]
    BY <1>0, <1>2 DEF KnownInv, Known, Overlap, Resting
  <1>5. /\ \A l \in Loaders : tx'[l].of = l
        /\ \A l \in Loaders : tasks'[l] = 0 => l \notin pool' /\ pc'[l] = "off" /\ Resting(l)'
        /\ pc'[Gui] = "start" => Resting(Gui)' /\ \A l \in Loaders : tasks'[l] = 0
    BY <1>0, <1>2 DEF KnownInv, Resting
  <1>6. pc'[Gui] = "clear" /\ tasks'[tx'[Gui].of] > 0 => "DataBegin" \in tx'[Gui].bits
    <2>1. pc[Gui] = "clear" => t # Gui
      BY <1>2 DEF RestInv
    <2>2. QED
      BY <1>0, <1>2, <2>1 DEF KnownInv
  <1>7. CASE TxLoad(t)
    <2>1. /\ tx'[t].step = "store" /\ tx'[t].new = status[tx[t].of] \cup tx[t].bits
          /\ UNCHANGED status /\ tx[t].step = "load"
      BY <1>1, <1>7 DEF TxLoad, TypeOK, Transition
    <2>2. tasks[tx[t].of] > 0 => "DataBegin" \in tx'[t].new
      <3>1. CASE t = Gui
        BY <1>1, <2>1, <3>1 DEF KnownInv, Known
      <3>2. CASE t # Gui
        BY <1>1, <1>4, <2>1, <3>2 DEF KnownInv, Thread
      <3>3. QED
        BY <3>1, <3>2
    <2>3. \A l \in Loaders : tasks'[l] > 0 => Known(l)'
      BY <1>0, <1>2, <2>1, <2>2 DEF KnownInv, Known
    <2>4. \A u \in Thread :
            tx'[u].step = "store" /\ tasks'[tx'[u].of] > 0 => "DataBegin" \in tx'[u].new
      BY <1>2, <2>2 DEF KnownInv
    <2>5. QED
      BY <1>3, <1>5, <1>6, <2>3, <2>4 DEF KnownInv
  <1>8. CASE TxStore(t)
    <2>1. /\ status'[tx[t].of] = tx[t].new /\ tx[t].step = "store" /\ tx'[t].step = "check"
          /\ \A k \in Loaders : k # tx[t].of => status'[k] = status[k]
      BY <1>1, <1>8 DEF TxStore, TypeOK, Transition
    <2>2. tasks[tx[t].of] > 0 => "DataBegin" \in status'[tx[t].of]
      BY <2>1 DEF KnownInv
    <2>3. \A l \in Loaders : tasks'[l] > 0 => Known(l)'
      <3>1. ASSUME NEW l \in Loaders, tasks[l] > 0, l # tx[t].of
            PROVE  Known(l)'
        BY <1>0, <1>2, <2>1, <3>1 DEF KnownInv, Known
      <3>2. QED
        BY <1>2, <2>2, <3>1 DEF Known
    <2>4. \A u \in Thread :
            tx'[u].step = "store" /\ tasks'[tx'[u].of] > 0 => "DataBegin" \in tx'[u].new
      BY <1>2, <2>1 DEF KnownInv
    <2>5. QED
      BY <1>3, <1>5, <1>6, <2>3, <2>4 DEF KnownInv
  <1>9. CASE TxCheck(t)
    <2>1. tx[t].step = "check" /\ tx'[t].step = "none" /\ UNCHANGED status
      BY <1>1, <1>9 DEF TxCheck, TypeOK, Transition
    <2>2. \A l \in Loaders : tasks'[l] > 0 => Known(l)'
      BY <1>0, <1>2, <2>1 DEF KnownInv, Known
    <2>3. \A u \in Thread :
            tx'[u].step = "store" /\ tasks'[tx'[u].of] > 0 => "DataBegin" \in tx'[u].new
      BY <1>2, <2>1 DEF KnownInv
    <2>4. QED
      BY <1>3, <1>5, <1>6, <2>2, <2>3 DEF KnownInv
  <1>10. QED
    BY <1>7, <1>8, <1>9 DEF TransitionStep

\* A step that changes neither status, transitions nor tasks.
LEMMA KnownFrame ==
  ASSUME KnownInv, OneTask, UNCHANGED <<status, tx, tasks>>, pool' \subseteq pool,
         \A k \in Loaders : pc'[k] = pc[k], pc'[Gui] \notin {"clear", "start"}
  PROVE  KnownInv' /\ OneTask'
  BY DEF KnownInv, Known, OneTask, Resting

\* updateVisible takes DataBegin out of the status and puts it back.
LEMMA KnownReset ==
  ASSUME TypeOK, RestInv, KnownInv, OneTask, ResetRead \/ ResetStore
  PROVE  KnownInv' /\ OneTask'
  <1> USE DEF guiVars, envVars, phaseVars
  <1>0. Gui \in Thread /\ \A k \in Loaders : k \in Thread /\ k # Gui /\ tasks[k] \in Nat
    BY DEF Thread, TypeOK
  <1>a. tx[Gui] \in Transition /\ tx[Gui].of \in Loaders
    BY <1>0 DEF TypeOK, Transition
  <1>1. /\ UNCHANGED <<pool, tasks>> /\ tx'[Gui].of = tx[Gui].of
        /\ \A k \in Loaders : pc'[k] = pc[k] /\ tx'[k] = tx[k]
        /\ tx[Gui].step = "none" /\ tx'[Gui].step # "store" /\ pc'[Gui] # "start"
    <2>1. tx[Gui].step = "none" /\ UNCHANGED <<pool, tasks>>
      BY DEF ResetRead, ResetStore, RestInv
    <2>2. CASE ResetRead
      BY <1>0, <1>a, <2>1, <2>2 DEF ResetRead, TypeOK, Transition
    <2>3. CASE ResetStore
      BY <1>0, <1>a, <2>1, <2>3 DEF ResetStore, TypeOK, Transition
    <2>4. QED
      BY <2>2, <2>3
  <1>2. \A k \in Loaders : tasks[k] > 0 => "DataBegin" \in status[k]
    BY <1>1 DEF KnownInv, Known
  <1>3. \A t \in Thread :
          tx'[t].step = "store" /\ tasks'[tx'[t].of] > 0 => "DataBegin" \in tx'[t].new
    BY <1>1 DEF KnownInv, Thread
  <1>4. CASE ResetRead
    <2>1. UNCHANGED status /\ tx'[Gui].bits = status[tx[Gui].of] \ {"PluginEnd"}
      BY <1>0, <1>a, <1>4 DEF ResetRead, TypeOK, Transition
    <2>2. \A k \in Loaders : tasks'[k] > 0 => Known(k)'
      BY <1>1, <1>2, <2>1 DEF Known
    <2>3. tasks'[tx'[Gui].of] > 0 => "DataBegin" \in tx'[Gui].bits
      BY <1>1, <1>2, <1>a, <2>1
    <2>4. QED
      BY <1>1, <1>3, <2>2, <2>3 DEF KnownInv, OneTask, Resting
  <1>5. CASE ResetStore
    <2>1. /\ tx'[Gui].bits = tx[Gui].bits /\ tx'[Gui].step = "load"
          /\ \A k \in Loaders : k # tx[Gui].of => status'[k] = status[k]
          /\ pc[Gui] = "clear" /\ pc'[Gui] = "resume"
      BY <1>0, <1>a, <1>5 DEF ResetStore, TypeOK, Transition
    <2>2. tasks[tx[Gui].of] > 0 => "DataBegin" \in tx'[Gui].bits
      BY <2>1 DEF KnownInv
    <2>3. \A k \in Loaders : tasks'[k] > 0 => Known(k)'
      BY <1>1, <1>2, <2>1, <2>2 DEF Known
    <2>4. QED
      BY <1>1, <1>3, <2>1, <2>3 DEF KnownInv, OneTask, Resting
  <1>6. QED
    BY <1>4, <1>5

\* Every step of the GUI thread keeps the invariant.
LEMMA GuiKnown ==
  ASSUME TypeOK, RestInv, KnownInv, OneTask, ~Overlap, GuiStep
  PROVE  KnownInv' /\ OneTask'
  <1> USE DEF guiVars, envVars, phaseVars
  <1>0. Gui \in Thread /\ \A k \in Loaders : k \in Thread /\ k # Gui
    BY DEF Thread
  <1>a. tx[Gui].of \in Loaders
    BY <1>0 DEF TypeOK, Transition
  <1>b. TasksToStart \in SUBSET Ready
    BY DEF TasksToStart
  <1>1. CASE TransitionStep(Gui)
    BY <1>0, <1>1, KnownTransition
  <1>2. CASE AllStarted
    <2>1. pc'[Gui] = "idle" /\ \A k \in Loaders : pc'[k] = pc[k]
      BY <1>0, <1>2 DEF AllStarted, TypeOK
    <2>2. Resting(Gui) /\ HandOver(TasksToStart)
      BY <1>2 DEF AllStarted, KnownInv, CheckNavigationFinished
    <2>3. UNCHANGED tx /\ pool' \subseteq pool \cup TasksToStart
      BY <1>2 DEF AllStarted
    <2>4. QED
      BY <1>b, <2>1, <2>2, <2>3, KnownHandOver
  <1>3. CASE FireTimer
    <2>1. pc'[Gui] = "idle" /\ \A k \in Loaders : pc'[k] = pc[k]
      BY <1>3 DEF FireTimer, Idle
    <2>2. Resting(Gui) /\ HandOver(Ready) /\ UNCHANGED tx /\ pool' \subseteq pool \cup Ready
      BY <1>3 DEF FireTimer, Idle
    <2>3. QED
      BY <2>1, <2>2, KnownHandOver
  <1>4. CASE TimerDue \/ Join \/ Resumed
    <2>1. pc'[Gui] \in {"idle", "deleted"} /\ \A k \in Loaders : pc'[k] = pc[k]
      BY <1>0, <1>4 DEF TimerDue, Idle, Join, Resumed, TypeOK
    <2>2. UNCHANGED <<status, tx, tasks, pool>>
      BY <1>4 DEF TimerDue, Join, Resumed
    <2>3. QED
      BY <2>1, <2>2, KnownFrame
  <1>5. ASSUME NEW l \in Loaders, NEW bits \in SUBSET Bit, Begin(Gui, l, bits), Resting(Gui),
               UNCHANGED <<status, tasks, pool>>, \A k \in Loaders : pc'[k] = pc[k],
               pc'[Gui] \notin {"clear", "start"}
        PROVE  KnownInv' /\ OneTask'
    BY <1>0, <1>5, BeginEffect, KnownGui
  <1>c. /\ {"PluginEnd"} \in SUBSET Bit /\ {"MainObjLoad"} \in SUBSET Bit
        /\ {"ModuleLoad"} \in SUBSET Bit /\ {"MainObjEnd"} \in SUBSET Bit
        /\ {"ModuleEnd"} \in SUBSET Bit /\ {"ModuleEnd", "PluginEnd"} \in SUBSET Bit
        /\ \A l \in Loaders : MetaDataBits(l) \in SUBSET Bit
    BY DEF Bit, MetaDataBits
  <1>6. CASE LoadMain \/ LoadModule
    <2>1. pc'[Gui] = "idle" /\ \A k \in Loaders : pc'[k] = pc[k]
      BY <1>0, <1>6 DEF LoadMain, LoadModule, TypeOK
    <2>2. Resting(Gui) /\ UNCHANGED <<status, tasks, pool>>
      BY <1>6 DEF LoadMain, LoadModule
    <2>3. \E bits \in SUBSET Bit : Begin(Gui, tx[Gui].of, bits)
      BY <1>6, <1>c DEF LoadMain, LoadModule
    <2>4. QED
      BY <1>5, <1>a, <2>1, <2>2, <2>3
  <1>7. CASE ResetRead \/ ResetStore
    BY <1>7, KnownReset
  <1>8. ASSUME NEW l \in Loaders, StartLoader(l)
        PROVE  KnownInv' /\ OneTask'
    <2>1. UNCHANGED <<tx, pc, pool, tasks>> /\ pc[Gui] = "start"
      BY <1>8 DEF StartLoader
    <2>2. \A k \in Loaders : tasks[k] = 0
      BY <2>1 DEF KnownInv
    <2>3. \A t \in Thread : tx[t].of \in Loaders
      BY DEF TypeOK, Transition
    <2>4. QED
      BY <2>1, <2>2, <2>3 DEF KnownInv, OneTask, Resting
  <1>9. ASSUME NEW l \in Loaders, UpdateVisible(l)
        PROVE  KnownInv' /\ OneTask'
    <2>1. UNCHANGED <<status, tasks, pool>> /\ Resting(Gui)
      BY <1>9 DEF UpdateVisible
    <2>2. pc'[Gui] \in {"resume", "reset"} /\ \A k \in Loaders : pc'[k] = pc[k]
      <3>1. pc[Gui] = "resume" /\ (pc' = pc \/ pc' = [pc EXCEPT ![Gui] = "reset"])
        BY <1>9 DEF UpdateVisible
      <3>2. QED
        BY <1>0, <3>1 DEF TypeOK
    <2>3. tx'[Gui].step = "none" /\ \A k \in Loaders : tx'[k] = tx[k]
      <3>1. tx' = tx \/ tx' = [tx EXCEPT ![Gui].of = l]
        BY <1>9 DEF UpdateVisible
      <3>2. tx[Gui].step = "none" /\ tx \in [Thread -> Transition]
        BY <2>1 DEF Resting, TypeOK
      <3>3. [tx[Gui] EXCEPT !.of = l].step = "none"
        BY <1>0, <3>2 DEF Transition
      <3>4. QED
        BY <1>0, <3>1, <3>2, <3>3
    <2>4. QED
      BY <2>1, <2>2, <2>3, KnownGui
  <1>10. ASSUME NEW l \in Loaders, FinishPlugin(l) \/ ModuleDone(l)
         PROVE  KnownInv' /\ OneTask'
    <2>1. /\ pc[Gui] = "idle" /\ (pc' = pc \/ pc' = [pc EXCEPT ![Gui] = "join"])
          /\ Resting(Gui)
      BY <1>10 DEF FinishPlugin, ModuleDone, Dispatch, Delivered, Idle
    <2>2. pc'[Gui] \in {"idle", "join"} /\ \A k \in Loaders : pc'[k] = pc[k]
      BY <1>0, <2>1 DEF TypeOK
    <2>3. HandOver(TasksToStart) /\ pool' \subseteq pool \cup TasksToStart /\ UNCHANGED tx
      BY <1>10 DEF FinishPlugin, ModuleDone, CheckNavigationFinished
    <2>4. QED
      BY <1>b, <2>1, <2>2, <2>3, KnownHandOver
  <1>11. ASSUME NEW l \in Loaders, DropEvent(l)
         PROVE  KnownInv' /\ OneTask'
    <2>1. UNCHANGED <<status, tx, tasks, pool, pc>> /\ pc[Gui] = "idle"
      BY <1>11 DEF DropEvent, Delivered, Idle
    <2>2. QED
      BY <2>1, KnownFrame
  <1>12. ASSUME NEW l \in Loaders, AddMain(l) \/ StartMain(l) \/ StartModule(l) \/ LoadMetaData(l)
         PROVE  KnownInv' /\ OneTask'
    <2>1. /\ pc[Gui] = "idle" /\ Resting(Gui)
          /\ pc' = pc \/ pc' = [pc EXCEPT ![Gui] = "main"] \/ pc' = [pc EXCEPT ![Gui] = "module"]
      BY <1>12 DEF AddMain, StartMain, StartModule, LoadMetaData, Dispatch, Delivered, Idle
    <2>2. pc'[Gui] \in {"idle", "main", "module"} /\ \A k \in Loaders : pc'[k] = pc[k]
      BY <1>0, <2>1 DEF TypeOK
    <2>3. UNCHANGED <<status, tasks, pool>>
      BY <1>12 DEF AddMain, StartMain, StartModule, LoadMetaData
    <2>4. \E bits \in SUBSET Bit : Begin(Gui, l, bits)
      BY <1>12, <1>c DEF AddMain, StartMain, StartModule, LoadMetaData
    <2>5. QED
      BY <1>5, <2>1, <2>2, <2>3, <2>4
  <1>13. QED
    BY <1>1, <1>2, <1>3, <1>4, <1>6, <1>7, <1>8, <1>9, <1>10, <1>11, <1>12 DEF GuiStep, LoadPlugin

\* Changes of visibility and the shutdown keep the invariant.
LEMMA EnvironmentKnown ==
  ASSUME TypeOK, KnownInv, OneTask, Environment
  PROVE  KnownInv' /\ OneTask'
  <1> USE DEF guiVars, envVars, phaseVars
  <1>0. Gui \in Thread /\ \A k \in Loaders : k \in Thread /\ k # Gui
    BY DEF Thread
  <1>1. UNCHANGED <<status, tx, tasks>> /\ (pool' = pool \/ pool' = {})
    BY DEF Environment, ChangeHideModule, BeginDelete, Destroy, ToggleVisible
  <1>2. \/ pc' = pc \/ pc' = [pc EXCEPT ![Gui] = "resume"]
        \/ pc' = [pc EXCEPT ![Gui] = "joinDelete"]
    BY DEF Environment, ChangeHideModule, BeginDelete, Destroy, ToggleVisible
  <1>3. pc[Gui] = "idle"
    BY DEF Environment, ChangeHideModule, BeginDelete, Destroy, ToggleVisible, Idle
  <1>4. pc'[Gui] \notin {"clear", "start"} /\ \A k \in Loaders : pc'[k] = pc[k]
    BY <1>0, <1>2, <1>3 DEF TypeOK
  <1>5. QED
    BY <1>1, <1>4, KnownFrame

\* Every step of LoadDataTask keeps the invariant.
LEMMA TaskKnown ==
  ASSUME TypeOK, RestInv, KnownInv, OneTask, ~Overlap, NEW l \in Loaders, TaskStep(l)
  PROVE  KnownInv' /\ OneTask'
  <1> USE DEF guiVars, envVars, phaseVars
  <1>0. Gui \in Thread /\ l # Gui /\ \A k \in Loaders : k \in Thread /\ k # Gui
    BY DEF Thread
  <1>1. CASE TransitionStep(l)
    BY <1>0, <1>1, KnownTransition
  <1>2. CASE ~TransitionStep(l)
    <2>0. \/ TaskStart(l) \/ LoadLibrary(l) \/ LibraryBroken(l)
          \/ CreateData(l) \/ MoveThread(l) \/ TaskEnd(l)
      BY <1>2 DEF TaskStep
    <2>1. tasks[l] # 0 /\ UNCHANGED <<status, tasks>> /\ pool' \subseteq pool
      BY <2>0 DEF TaskStart, LoadLibrary, LibraryBroken, CreateData, MoveThread, TaskEnd, KnownInv
    <2>2. \A u \in Thread \ {l} : pc'[u] = pc[u]
      BY <1>0, <2>0
      DEF TaskStart, LoadLibrary, LibraryBroken, CreateData, MoveThread, TaskEnd, TypeOK
    <2>3. tx' = tx \/ \E bits \in SUBSET Bit : Begin(l, l, bits)
      <3>1. /\ {"DataErr"} \in SUBSET Bit /\ {"DataLoad"} \in SUBSET Bit
            /\ {"DataEnd"} \in SUBSET Bit
        BY DEF Bit
      <3>2. QED
        BY <2>0, <3>1
        DEF TaskStart, LoadLibrary, LibraryBroken, CreateData, MoveThread, TaskEnd
    <2>4. /\ \A u \in Thread \ {l} : tx'[u] = tx[u]
          /\ tx'[l].of = l /\ (tx'[l] = tx[l] \/ tx'[l].step # "store")
      <3>1. CASE tx' = tx
        BY <3>1 DEF KnownInv
      <3>2. ASSUME NEW bits \in SUBSET Bit, Begin(l, l, bits)
            PROVE  /\ \A u \in Thread \ {l} : tx'[u] = tx[u]
                   /\ tx'[l].of = l /\ tx'[l].step # "store"
        BY <1>0, <3>2, BeginEffect
      <3>3. QED
        BY <2>3, <3>1, <3>2
    <2>5. \A k \in Loaders : tasks'[k] > 0 => Known(k)'
      BY <1>0, <2>1, <2>4 DEF KnownInv, Known
    <2>6. \A t \in Thread :
            tx'[t].step = "store" /\ tasks'[tx'[t].of] > 0 => "DataBegin" \in tx'[t].new
      BY <2>1, <2>4 DEF KnownInv
    <2>7. \A k \in Loaders : tasks'[k] = 0 => k \notin pool' /\ pc'[k] = "off" /\ Resting(k)'
      BY <1>0, <2>1, <2>2, <2>4 DEF KnownInv, Resting
    <2>8. QED
      BY <1>0, <2>1, <2>2, <2>4, <2>5, <2>6, <2>7 DEF KnownInv, OneTask, Resting
  <1>3. QED
    BY <1>1, <1>2

\* Every step keeps the invariant as long as the two threads do not overlap.
LEMMA NextKnown ==
  ASSUME TypeOK, RestInv, KnownInv, OneTask, ~Overlap, [Next]_vars
  PROVE  KnownInv' /\ OneTask'
  <1>1. CASE UNCHANGED vars
    BY <1>1 DEF vars, guiVars, KnownInv, Known, OneTask, Resting
  <1>2. QED
    BY <1>1, GuiKnown, EnvironmentKnown, TaskKnown DEF Next

\* A plugin's library is loaded by one task, however often its status is reset and whatever
\* stale events arrive, as long as the two threads never change one status at a time.
THEOREM OneTaskPerPlugin == Spec => OneDataTask
  <1>1. QED
    BY InitTypeOK, NextTypeOK, InitData, RestStep, InitKnown, NextKnown, PTL
    DEF Spec, OneDataTask

-----------------------------------------------------------------------------
(* One main object per plugin, as long as no plugin is given a second task. *)

MainBits == {"MainObjLoad", "MainObjEnd"}

\* What the GUI thread may still bring into l's status.
GuiCarry(l) == IF tx[Gui].of = l THEN Carried(Gui) ELSE {}

\* l's main object is being built, or has been.
MainStarted(l) ==
  \/ status[l] \cap MainBits # {} \/ GuiCarry(l) \cap MainBits # {}
  \/ pc[Gui] = "main" /\ tx[Gui].of = l
  \/ mains[l] > 0

\* l's status has PluginEnd, or gets it from the transition in flight.
Ending(l) ==
  \/ "PluginEnd" \in status[l]
  \/ tx[Gui].of = l /\ tx[Gui].step = "load" /\ "PluginEnd" \in tx[Gui].bits
  \/ tx[Gui].of = l /\ tx[Gui].step = "store" /\ "PluginEnd" \in tx[Gui].new

\* Nothing is written over a status the GUI thread builds a main object from: DataEnd is
\* the last thing the task stores, and it keeps updateVisible away.
MainOf(l) ==
  /\ "DataEnd" \in status[l] \cup GuiCarry(l) => tx[l].step \notin {"load", "store"}
  /\ Carried(l) \cap MainBits = {}
  /\ MainStarted(l) =>
       /\ "DataEnd" \in status[l]
       /\ tx[Gui].of = l => /\ pc[Gui] \notin {"reset", "clear"}
                            /\ tx[Gui].step = "store" => "DataEnd" \in tx[Gui].new
  /\ mains[l] > 0 =>
       /\ Ending(l)
       /\ tx[Gui].of = l /\ tx[Gui].step = "store" => "PluginEnd" \in tx[Gui].new
  /\ mains[l] <= 1

MainInv ==
  /\ \A l \in Loaders : MainOf(l)
  /\ pc[Gui] = "start" => \A l \in Loaders : tasks[l] = 0

\* Nothing is built before loadModules starts.
LEMMA InitMain == Init => MainInv
  <1> SUFFICES ASSUME Init PROVE MainInv
    OBVIOUS
  <1>1. /\ Gui \in Thread /\ \A l \in Loaders : l \in Thread
        /\ \A t \in Thread : tx[t].step = "none" /\ tx[t].bits = {} /\ tx[t].new = {}
    BY DEF Init, Thread
  <1>2. \A l \in Loaders : status[l] = {} /\ mains[l] = 0 /\ tasks[l] = 0
    BY DEF Init
  <1>3. pc[Gui] = "start"
    BY <1>1 DEF Init
  <1>4. \A t \in Thread : Carried(t) = {}
    BY <1>1 DEF Carried
  <1>5. \A l \in Loaders : MainOf(l)
    BY <1>1, <1>2, <1>3, <1>4 DEF MainOf, MainStarted, GuiCarry
  <1>6. QED
    BY <1>2, <1>5 DEF MainInv

\* A step that at most adds DataBegin to the status.
LEMMA MainFrame ==
  ASSUME MainInv, UNCHANGED <<tx, mains>>,
         \A k \in Loaders : status'[k] = status[k] \/ status'[k] = status[k] \cup {"DataBegin"},
         pc'[Gui] \notin {"main", "start", "reset", "clear"}
  PROVE  MainInv'
  <1>1. \A k \in Loaders : Carried(k)' = Carried(k) /\ GuiCarry(k)' = GuiCarry(k)
    BY DEF Carried, GuiCarry
  <1>2. \A k \in Loaders : MainStarted(k)' => MainStarted(k)
    BY <1>1 DEF MainStarted, MainBits
  <1>3. \A k \in Loaders : mains[k] > 0 => Ending(k)'
    BY DEF MainInv, MainOf, Ending
  <1>4. \A k \in Loaders : MainOf(k)'
    BY <1>1, <1>2, <1>3 DEF MainInv, MainOf
  <1>5. QED
    BY <1>4 DEF MainInv

\* The GUI thread starts a transition on l.
LEMMA MainBegin ==
  ASSUME TypeOK, RestInv, MainInv, Resting(Gui), pc[Gui] # "clear", UNCHANGED status,
         NEW l \in Loaders, NEW bits \in SUBSET Bit, Begin(Gui, l, bits),
         "DataEnd" \notin bits,
         bits \cap MainBits # {} \/ pc'[Gui] = "main" \/ mains' # mains => "DataEnd" \in status[l],
         pc'[Gui] \notin {"start", "reset", "clear"},
         \/ mains' = mains
         \/ /\ mains' = [mains EXCEPT ![l] = @ + 1]
            /\ "PluginEnd" \notin status[l] /\ "PluginEnd" \in bits
  PROVE  MainInv'
  <1>0. Gui \in Thread /\ \A k \in Loaders : k \in Thread /\ k # Gui /\ mains[k] \in Nat
    BY DEF Thread, TypeOK
  <1>1. /\ tx'[Gui].of = l /\ tx'[Gui].bits = bits /\ tx'[Gui].new = {} /\ tx'[Gui].step = "load"
        /\ \A k \in Loaders : tx'[k] = tx[k]
    BY <1>0, BeginEffect
  <1>2. /\ \A k \in Loaders : Carried(k)' = Carried(k)
        /\ GuiCarry(l)' = bits /\ \A k \in Loaders : k # l => GuiCarry(k)' = {}
    BY <1>1 DEF Carried, GuiCarry
  <1>3. \A k \in Loaders : mains[k] > 0 => "PluginEnd" \in status[k]
    BY DEF MainInv, MainOf, Ending, Resting
  <1>4. \A k \in Loaders : k # l => mains'[k] = mains[k]
    BY DEF TypeOK
  <1>5. ASSUME NEW k \in Loaders, k # l
        PROVE  MainOf(k)'
    <2>1. MainStarted(k)' => MainStarted(k)
      BY <1>1, <1>2, <1>4, <1>5 DEF MainStarted
    <2>2. mains'[k] > 0 => Ending(k)'
      BY <1>3, <1>4, <1>5 DEF Ending
    <2>3. QED
      BY <1>1, <1>2, <1>4, <1>5, <2>1, <2>2 DEF MainInv, MainOf
  <1>6. MainOf(l)'
    <2>1. MainStarted(l)' => "DataEnd" \in status[l]
      BY <1>1, <1>2 DEF MainStarted, MainInv, MainOf
    <2>2. mains'[l] > 0 => Ending(l)'
      BY <1>1, <1>3 DEF Ending
    <2>3. mains'[l] <= 1
      <3>1. CASE mains' = mains
        BY <3>1 DEF MainInv, MainOf
      <3>2. CASE mains' # mains
        <4>1. mains[l] = 0
          BY <1>0, <1>3, <3>2
        <4>2. mains'[l] = 1
          BY <3>2, <4>1 DEF TypeOK
        <4>3. QED
          BY <4>2
      <3>3. QED
        BY <3>1, <3>2
    <2>4. "DataEnd" \in status'[l] \cup GuiCarry(l)' => tx'[l].step \notin {"load", "store"}
      BY <1>1, <1>2 DEF MainInv, MainOf
    <2>5. QED
      BY <1>1, <1>2, <2>1, <2>2, <2>3, <2>4 DEF MainInv, MainOf
  <1>7. QED
    BY <1>5, <1>6 DEF MainInv

\* What each of the three steps of transitionStatus does to the transition and the status.
LEMMA TransitionEffect ==
  ASSUME TypeOK, NEW t \in Thread
  PROVE  /\ TransitionStep(t) =>
              /\ \A u \in Thread \ {t} : tx'[u] = tx[u]
              /\ tx'[t].of = tx[t].of
              /\ UNCHANGED <<pc, pool, tasks, data, mains>>
         /\ TxLoad(t) =>
              /\ tx[t].step = "load" /\ tx'[t].step = "store" /\ tx'[t].bits = tx[t].bits
              /\ tx'[t].new = status[tx[t].of] \cup tx[t].bits /\ UNCHANGED status
         /\ TxStore(t) =>
              /\ tx[t].step = "store" /\ tx'[t].step = "check" /\ tx'[t].bits = tx[t].bits
              /\ tx'[t].new = {} /\ status'[tx[t].of] = tx[t].new
              /\ \A k \in Loaders : k # tx[t].of => status'[k] = status[k]
         /\ TxCheck(t) =>
              /\ tx[t].step = "check" /\ tx'[t].step = "none" /\ tx'[t].bits = {}
              /\ tx'[t].new = tx[t].new /\ UNCHANGED status
  <1> USE DEF guiVars, envVars, phaseVars
  <1>1. tx[t] \in Transition /\ tx[t].of \in Loaders
    BY DEF TypeOK, Transition
  <1>2. TransitionStep(t) =>
          /\ \A u \in Thread \ {t} : tx'[u] = tx[u]
          /\ UNCHANGED <<pc, pool, tasks, data, mains>>
    BY DEF TransitionStep, TxLoad, TxStore, TxCheck, TypeOK
  <1>3. TransitionStep(t) => tx'[t].of = tx[t].of
    BY <1>1 DEF TransitionStep, TxLoad, TxStore, TxCheck, TypeOK, Transition
  <1>4. ASSUME TxLoad(t)
        PROVE  /\ tx[t].step = "load" /\ tx'[t].step = "store" /\ tx'[t].bits = tx[t].bits
               /\ tx'[t].new = status[tx[t].of] \cup tx[t].bits /\ UNCHANGED status
    BY <1>1, <1>4 DEF TxLoad, TypeOK, Transition
  <1>5. ASSUME TxStore(t)
        PROVE  /\ tx[t].step = "store" /\ tx'[t].step = "check" /\ tx'[t].bits = tx[t].bits
               /\ tx'[t].new = {} /\ status'[tx[t].of] = tx[t].new
               /\ \A k \in Loaders : k # tx[t].of => status'[k] = status[k]
    BY <1>1, <1>5 DEF TxStore, TypeOK, Transition
  <1>6. ASSUME TxCheck(t)
        PROVE  /\ tx[t].step = "check" /\ tx'[t].step = "none" /\ tx'[t].bits = {}
               /\ tx'[t].new = tx[t].new /\ UNCHANGED status
    BY <1>1, <1>6 DEF TxCheck, TypeOK, Transition
  <1>7. QED
    BY <1>2, <1>3, <1>4, <1>5, <1>6

\* A step of transitionStatus by the GUI thread.
LEMMA MainGuiTransition ==
  ASSUME TypeOK, RestInv, MainInv, TransitionStep(Gui)
  PROVE  MainInv'
  <1> USE DEF guiVars, envVars, phaseVars
  <1>0. Gui \in Thread /\ \A k \in Loaders : k \in Thread /\ k # Gui
    BY DEF Thread
  <1>1. tx[Gui] \in Transition /\ tx[Gui].of \in Loaders
    BY <1>0 DEF TypeOK, Transition
  <1>2. /\ UNCHANGED <<pc, tasks, mains>>
        /\ \A k \in Loaders : tx'[k] = tx[k]
        /\ tx'[Gui].of = tx[Gui].of
    BY <1>0, TransitionEffect
  <1> DEFINE g == tx[Gui].of
  <1>3. \A k \in Loaders : Carried(k)' = Carried(k)
    BY <1>2 DEF Carried
  <1>4. Carried(Gui)' \subseteq Carried(Gui) \cup status[g]
    BY <1>0, TransitionEffect DEF TransitionStep, Carried
  <1>5. /\ \A k \in Loaders : k # g => status'[k] = status[k]
        /\ status'[g] = status[g] \/ (tx[Gui].step = "store" /\ status'[g] = tx[Gui].new)
    BY <1>0, TransitionEffect DEF TransitionStep
  <1>6. ASSUME NEW k \in Loaders, k # g
        PROVE  MainOf(k)'
    <2>1. GuiCarry(k) = {} /\ GuiCarry(k)' = {}
      BY <1>2, <1>6 DEF GuiCarry
    <2>2. MainStarted(k)' => MainStarted(k)
      BY <1>2, <1>5, <1>6, <2>1 DEF MainStarted
    <2>3. Ending(k) => Ending(k)'
      BY <1>5, <1>6 DEF Ending
    <2>4. QED
      BY <1>2, <1>3, <1>5, <1>6, <2>1, <2>2, <2>3 DEF MainInv, MainOf
  <1>7. MainOf(g)'
    <2>1. GuiCarry(g) = Carried(Gui) /\ GuiCarry(g)' = Carried(Gui)'
      BY <1>2 DEF GuiCarry
    <2>2. status'[g] \cup GuiCarry(g)' \subseteq status[g] \cup GuiCarry(g)
      BY <1>4, <1>5, <2>1 DEF Carried
    <2>3. MainStarted(g)' => MainStarted(g)
      BY <1>2, <2>2 DEF MainStarted
    <2>4. MainStarted(g) => "DataEnd" \in status'[g]
      BY <1>1, <1>5 DEF MainInv, MainOf
    <2>5. tx'[Gui].step = "store" =>
            tx'[Gui].new = status[g] \cup tx[Gui].bits /\ UNCHANGED status /\ tx[Gui].step = "load"
      BY <1>0, TransitionEffect DEF TransitionStep
    <2>6. mains[g] > 0 => Ending(g)'
      <3>1. CASE TxLoad(Gui)
        <4>1. tx'[Gui].step = "store" /\ tx[Gui].step = "load"
          BY <1>0, <3>1, TransitionEffect
        <4>2. QED
          BY <1>1, <1>2, <2>5, <4>1 DEF MainInv, MainOf, Ending
      <3>2. CASE TxStore(Gui)
        <4>1. tx[Gui].step = "store" /\ status'[g] = tx[Gui].new
          BY <1>0, <3>2, TransitionEffect
        <4>2. QED
          BY <1>1, <1>2, <4>1 DEF MainInv, MainOf, Ending
      <3>3. CASE TxCheck(Gui)
        <4>1. tx[Gui].step = "check" /\ UNCHANGED status
          BY <1>0, <3>3, TransitionEffect
        <4>2. QED
          BY <1>1, <1>2, <4>1 DEF MainInv, MainOf, Ending
      <3>4. QED
        BY <3>1, <3>2, <3>3 DEF TransitionStep
    <2>7. mains[g] > 0 /\ tx'[Gui].step = "store" => "PluginEnd" \in tx'[Gui].new
      BY <1>1, <2>5 DEF MainInv, MainOf, Ending
    <2>8. QED
      BY <1>1, <1>2, <1>3, <2>2, <2>3, <2>4, <2>5, <2>6, <2>7 DEF MainInv, MainOf
  <1>8. QED
    BY <1>2, <1>6, <1>7 DEF MainInv

\* updateVisible never touches a plugin whose main object has been started.
LEMMA MainReset ==
  ASSUME TypeOK, RestInv, MainInv, ResetRead \/ ResetStore \/ \E l \in Loaders : UpdateVisible(l)
  PROVE  MainInv'
  <1> USE DEF guiVars, envVars, phaseVars
  <1>0. Gui \in Thread /\ \A k \in Loaders : k \in Thread /\ k # Gui
    BY DEF Thread
  <1>a. tx[Gui] \in Transition /\ tx[Gui].of \in Loaders /\ tx \in [Thread -> Transition]
    BY <1>0 DEF TypeOK, Transition
  <1>b. UNCHANGED <<mains, tasks>> /\ pc[Gui] \in {"resume", "reset", "clear"}
    BY DEF ResetRead, ResetStore, UpdateVisible
  <1>1. CASE ResetRead
    <2>1. /\ tx'[Gui].of = tx[Gui].of /\ tx'[Gui].bits = status[tx[Gui].of] \ {"PluginEnd"}
          /\ tx'[Gui].new = {} /\ tx'[Gui].step = "none" /\ tx[Gui].step = "none"
          /\ \A k \in Loaders : tx'[k] = tx[k]
          /\ UNCHANGED status /\ pc[Gui] = "reset" /\ pc'[Gui] = "clear"
      BY <1>0, <1>a, <1>1 DEF ResetRead, RestInv, TypeOK, Transition
    <2>2. ~MainStarted(tx[Gui].of)
      BY <1>a, <2>1 DEF MainInv, MainOf
    <2>3. /\ \A k \in Loaders : Carried(k)' = Carried(k)
          /\ Carried(Gui)' \subseteq status[tx[Gui].of]
      BY <2>1 DEF Carried
    <2>4. \A k \in Loaders : MainStarted(k)' => MainStarted(k) /\ k # tx[Gui].of
      BY <1>b, <2>1, <2>2, <2>3 DEF MainStarted, GuiCarry
    <2>5. \A k \in Loaders : mains[k] > 0 => Ending(k)'
      BY <2>1 DEF MainInv, MainOf, Ending
    <2>6. \A k \in Loaders : "DataEnd" \in status'[k] \cup GuiCarry(k)' => "DataEnd" \in status[k]
      BY <2>1, <2>3 DEF GuiCarry
    <2>7. \A k \in Loaders : MainOf(k)'
      BY <1>b, <2>1, <2>3, <2>4, <2>5, <2>6 DEF MainInv, MainOf
    <2>8. QED
      BY <2>1, <2>7 DEF MainInv
  <1>2. CASE ResetStore
    <2>1. pc[Gui] = "clear" /\ pc'[Gui] = "resume" /\ tx[Gui].step = "none" /\ tx[Gui].new = {}
      BY <1>0, <1>2 DEF ResetStore, RestInv, TypeOK
    <2>2. /\ tx'[Gui].of = tx[Gui].of /\ tx'[Gui].bits = tx[Gui].bits
          /\ tx'[Gui].new = tx[Gui].new /\ tx'[Gui].step = "load"
          /\ \A k \in Loaders : tx'[k] = tx[k]
      BY <1>0, <1>a, <1>2 DEF ResetStore, Transition
    <2>3. /\ \A k \in Loaders : k # tx[Gui].of => status'[k] = status[k]
          /\ status'[tx[Gui].of] = {}
      BY <1>a, <1>2 DEF ResetStore, TypeOK
    <2>4. ~MainStarted(tx[Gui].of)
      BY <1>a, <2>1 DEF MainInv, MainOf
    <2>5. \A k \in Loaders : Carried(k)' = Carried(k) /\ GuiCarry(k)' = GuiCarry(k)
      BY <2>2 DEF Carried, GuiCarry
    <2>6. \A k \in Loaders : MainStarted(k)' => MainStarted(k) /\ k # tx[Gui].of
      BY <1>b, <2>1, <2>2, <2>3, <2>4, <2>5 DEF MainStarted
    <2>7. \A k \in Loaders : mains[k] > 0 => k # tx[Gui].of
      BY <2>4 DEF MainStarted
    <2>8. \A k \in Loaders : mains[k] > 0 => Ending(k)'
      BY <2>2, <2>3, <2>7 DEF MainInv, MainOf, Ending
    <2>9. \A k \in Loaders : MainOf(k)'
      BY <1>b, <2>1, <2>2, <2>3, <2>5, <2>6, <2>8 DEF MainInv, MainOf
    <2>10. QED
      BY <2>1, <2>9 DEF MainInv
  <1>3. ASSUME NEW l \in Loaders, UpdateVisible(l)
        PROVE  MainInv'
    <2>1. /\ UNCHANGED status /\ pc[Gui] = "resume" /\ tx[Gui].step = "none"
          /\ tx[Gui].bits = {} /\ tx[Gui].new = {}
      BY <1>0, <1>3 DEF UpdateVisible, Resting, RestInv
    <2>2. CASE UNCHANGED <<pc, tx>>
      <3>1. pc'[Gui] = "resume"
        BY <2>1, <2>2
      <3>2. QED
        BY <1>b, <2>1, <2>2, <3>1, MainFrame
    <2>3. CASE ~UNCHANGED <<pc, tx>>
      <3>1. /\ tx' = [tx EXCEPT ![Gui].of = l] /\ pc' = [pc EXCEPT ![Gui] = "reset"]
            /\ ~Has(l, "DataEnd")
        BY <1>3, <2>3 DEF UpdateVisible
      <3>2. tx'[Gui] = [tx[Gui] EXCEPT !.of = l] /\ \A k \in Loaders : tx'[k] = tx[k]
        BY <1>0, <1>a, <3>1
      <3>3. tx'[Gui].bits = {} /\ tx'[Gui].new = {} /\ tx'[Gui].step = "none" /\ tx'[Gui].of = l
        BY <1>a, <2>1, <3>2 DEF Transition
      <3>4. pc'[Gui] = "reset"
        BY <1>0, <3>1 DEF TypeOK
      <3>5. /\ \A k \in Loaders : Carried(k)' = Carried(k)
            /\ \A k \in Loaders : GuiCarry(k) = {} /\ GuiCarry(k)' = {}
        BY <2>1, <3>2, <3>3 DEF Carried, GuiCarry
      <3>6. \A k \in Loaders : MainStarted(k)' => MainStarted(k)
        BY <1>b, <2>1, <3>4, <3>5 DEF MainStarted
      <3>7. \A k \in Loaders : mains[k] > 0 => Ending(k)'
        BY <2>1 DEF MainInv, MainOf, Ending
      <3>8. ~MainStarted(l)
        BY <3>1 DEF MainInv, MainOf, Has
      <3>9. \A k \in Loaders : MainOf(k)'
        BY <1>b, <2>1, <3>2, <3>3, <3>5, <3>6, <3>7, <3>8 DEF MainInv, MainOf
      <3>10. QED
        BY <3>4, <3>9 DEF MainInv
    <2>4. QED
      BY <2>2, <2>3
  <1>4. QED
    BY <1>1, <1>2, <1>3

\* Handing loaders to the pool adds DataBegin to their status, and nothing else.
LEMMA HandOverStatus ==
  ASSUME NEW S, HandOver(S)
  PROVE  \A k \in Loaders : status'[k] = status[k] \/ status'[k] = status[k] \cup {"DataBegin"}
  BY DEF HandOver

\* Every step of the GUI thread keeps MainInv.
LEMMA GuiMain ==
  ASSUME TypeOK, RestInv, DataInv, MainInv, GuiStep
  PROVE  MainInv'
  <1> USE DEF guiVars, envVars, phaseVars
  <1>0. Gui \in Thread /\ \A k \in Loaders : k \in Thread /\ k # Gui
    BY DEF Thread
  <1>a. tx[Gui].of \in Loaders
    BY <1>0 DEF TypeOK, Transition
  <1>1. CASE TransitionStep(Gui)
    BY <1>1, MainGuiTransition
  <1>2. CASE ResetRead \/ ResetStore \/ \E l \in Loaders : UpdateVisible(l)
    BY <1>2, MainReset
  <1>3. CASE AllStarted \/ FireTimer
    <2>1. pc'[Gui] = "idle" /\ UNCHANGED <<tx, mains>>
      BY <1>0, <1>3 DEF AllStarted, FireTimer, Idle, TypeOK
    <2>2. \E S \in SUBSET Loaders : HandOver(S)
      BY <1>3 DEF AllStarted, FireTimer, CheckNavigationFinished, TasksToStart, Ready
    <2>3. QED
      BY <2>1, <2>2, HandOverStatus, MainFrame
  <1>4. CASE TimerDue \/ Join \/ Resumed
    <2>1. pc'[Gui] \in {"idle", "deleted"} /\ UNCHANGED <<status, tx, mains>>
      BY <1>0, <1>4 DEF TimerDue, Idle, Join, Resumed, TypeOK
    <2>2. QED
      BY <2>1, MainFrame
  <1>5. CASE LoadMain
    <2>1. pc[Gui] = "main" /\ pc'[Gui] = "idle" /\ Resting(Gui) /\ UNCHANGED <<status, mains>>
      BY <1>0, <1>5 DEF LoadMain, TypeOK
    <2>2. "DataEnd" \in status[tx[Gui].of]
      BY <1>a, <2>1 DEF MainInv, MainOf, MainStarted
    <2>3. {"MainObjEnd"} \in SUBSET Bit /\ Begin(Gui, tx[Gui].of, {"MainObjEnd"})
      BY <1>5 DEF LoadMain, Bit
    <2>4. QED
      BY <1>a, <2>1, <2>2, <2>3, MainBegin
  <1>6. CASE LoadModule
    <2>1. pc[Gui] = "module" /\ pc'[Gui] = "idle" /\ Resting(Gui) /\ UNCHANGED <<status, mains>>
      BY <1>0, <1>6 DEF LoadModule, TypeOK
    <2>2. \E bits \in SUBSET Bit : /\ "DataEnd" \notin bits /\ bits \cap MainBits = {}
                                   /\ Begin(Gui, tx[Gui].of, bits)
      <3>1. /\ {"ModuleEnd"} \in SUBSET Bit /\ {"ModuleEnd"} \cap MainBits = {}
            /\ {"ModuleEnd", "PluginEnd"} \in SUBSET Bit
            /\ {"ModuleEnd", "PluginEnd"} \cap MainBits = {}
        BY DEF Bit, MainBits
      <3>2. QED
        BY <1>6, <3>1 DEF LoadModule
    <2>3. QED
      BY <1>a, <2>1, <2>2, MainBegin
  <1>7. ASSUME NEW l \in Loaders, StartLoader(l)
        PROVE  MainInv'
    <2>1. /\ UNCHANGED <<tx, pc, tasks, mains>> /\ pc[Gui] = "start"
          /\ status' = [status EXCEPT ![l] = MetaDataBits(l)]
      BY <1>7 DEF StartLoader
    <2>2. \A k \in Loaders : ~MainStarted(k)
      BY <2>1 DEF MainInv, MainOf, DataInv, Fresh, Clean, Final
    <2>3. \A k \in Loaders : Carried(k)' = Carried(k) /\ GuiCarry(k)' = GuiCarry(k)
      BY <2>1 DEF Carried, GuiCarry
    <2>4. \A k \in Loaders : /\ "DataEnd" \in status'[k] => "DataEnd" \in status[k]
                             /\ status'[k] \cap MainBits # {} => status[k] \cap MainBits # {}
      BY <2>1 DEF TypeOK, MetaDataBits, MainBits
    <2>5. \A k \in Loaders : ~MainStarted(k)'
      BY <2>1, <2>2, <2>3, <2>4 DEF MainStarted
    <2>6. \A k \in Loaders : ~(mains[k] > 0)
      BY <2>2 DEF MainStarted
    <2>7. \A k \in Loaders : MainOf(k)'
      BY <2>1, <2>3, <2>4, <2>5, <2>6 DEF MainInv, MainOf
    <2>8. QED
      BY <2>1, <2>7 DEF MainInv
  <1>8. ASSUME NEW l \in Loaders, DropEvent(l) \/ FinishPlugin(l) \/ ModuleDone(l)
        PROVE  MainInv'
    <2>1. /\ pc[Gui] = "idle" /\ (pc' = pc \/ pc' = [pc EXCEPT ![Gui] = "join"])
          /\ UNCHANGED <<tx, mains>>
      BY <1>8 DEF DropEvent, FinishPlugin, ModuleDone, Dispatch, Delivered, Idle
    <2>2. pc'[Gui] \in {"idle", "join"}
      BY <1>0, <2>1 DEF TypeOK
    <2>3. UNCHANGED status \/ \E S \in SUBSET Loaders : HandOver(S)
      BY <1>8 DEF DropEvent, FinishPlugin, ModuleDone, CheckNavigationFinished, TasksToStart, Ready
    <2>4. QED
      BY <2>1, <2>2, <2>3, HandOverStatus, MainFrame
  <1>9. ASSUME NEW l \in Loaders, AddMain(l)
        PROVE  MainInv'
    <2>1. /\ pc[Gui] = "idle" /\ UNCHANGED <<pc, status>> /\ Resting(Gui)
          /\ Begin(Gui, l, {"PluginEnd"}) /\ mains' = [mains EXCEPT ![l] = @ + 1]
      BY <1>9 DEF AddMain, Dispatch, Delivered, Idle
    <2>2. "PluginEnd" \notin status[l] /\ "DataEnd" \in status[l]
      BY <1>9 DEF AddMain, Has, MainInv, MainOf, MainStarted, MainBits
    <2>3. {"PluginEnd"} \in SUBSET Bit
      BY DEF Bit
    <2>4. QED
      BY <2>1, <2>2, <2>3, MainBegin
  <1>10. ASSUME NEW l \in Loaders, StartMain(l)
         PROVE  MainInv'
    <2>1. /\ pc[Gui] = "idle" /\ UNCHANGED <<status, mains>> /\ Resting(Gui)
          /\ Begin(Gui, l, {"MainObjLoad"}) /\ pc' = [pc EXCEPT ![Gui] = "main"]
      BY <1>10 DEF StartMain, Dispatch, Delivered, Idle
    <2>2. "DataEnd" \in status[l] /\ pc'[Gui] = "main"
      BY <1>0, <1>10, <2>1 DEF StartMain, MainPending, Has, TypeOK
    <2>3. {"MainObjLoad"} \in SUBSET Bit
      BY DEF Bit
    <2>4. QED
      BY <2>1, <2>2, <2>3, MainBegin
  <1>11. ASSUME NEW l \in Loaders, StartModule(l) \/ LoadMetaData(l)
         PROVE  MainInv'
    <2>1. /\ pc[Gui] = "idle" /\ UNCHANGED <<status, mains>> /\ Resting(Gui)
          /\ pc' = pc \/ pc' = [pc EXCEPT ![Gui] = "module"]
      BY <1>11 DEF StartModule, LoadMetaData, Dispatch, Delivered, Idle
    <2>2. pc'[Gui] \in {"idle", "module"}
      BY <1>0, <2>1 DEF TypeOK
    <2>3. \E bits \in SUBSET Bit : /\ "DataEnd" \notin bits /\ bits \cap MainBits = {}
                                   /\ Begin(Gui, l, bits)
      <3>1. /\ {"ModuleLoad"} \in SUBSET Bit /\ {"ModuleLoad"} \cap MainBits = {}
            /\ MetaDataBits(l) \in SUBSET Bit /\ MetaDataBits(l) \cap MainBits = {}
            /\ "DataEnd" \notin MetaDataBits(l)
        BY DEF Bit, MainBits, MetaDataBits
      <3>2. QED
        BY <1>11, <3>1 DEF StartModule, LoadMetaData
    <2>4. QED
      BY <2>1, <2>2, <2>3, MainBegin
  <1>12. QED
    BY <1>1, <1>2, <1>3, <1>4, <1>5, <1>6, <1>7, <1>8, <1>9, <1>10, <1>11
    DEF GuiStep, LoadPlugin

\* Every step of LoadDataTask keeps MainInv: its last store is DataEnd's.
LEMMA TaskMain ==
  ASSUME TypeOK, DataInv, MainInv, NEW l \in Loaders, TaskStep(l)
  PROVE  MainInv'
  <1> USE DEF guiVars, envVars, phaseVars
  <1>0. Gui \in Thread /\ l \in Thread /\ l # Gui /\ \A k \in Loaders : k \in Thread /\ k # Gui
    BY DEF Thread
  <1>1. tx[l].of = l
    BY DEF DataInv, TaskInv
  <1>2. /\ UNCHANGED <<tasks, mains>> /\ pc'[Gui] = pc[Gui]
        /\ \A k \in Loaders : k # l => status'[k] = status[k]
    <2>1. CASE TransitionStep(l)
      BY <1>0, <1>1, <2>1, TransitionEffect DEF TransitionStep
    <2>2. CASE ~TransitionStep(l)
      BY <1>0, <2>2 DEF TaskStep, TaskStart, LoadLibrary, LibraryBroken, CreateData, MoveThread,
                        TaskEnd, TypeOK
    <2>3. QED
      BY <2>1, <2>2
  <1>3. ASSUME \A u \in Thread \ {l} : tx'[u] = tx[u], MainOf(l)'
        PROVE  MainInv'
    <2>1. ASSUME NEW k \in Loaders, k # l
          PROVE  MainOf(k)'
      <3>1. tx'[k] = tx[k] /\ tx'[Gui] = tx[Gui] /\ status'[k] = status[k]
        BY <1>0, <1>2, <1>3, <2>1
      <3>2. Carried(k)' = Carried(k) /\ GuiCarry(k)' = GuiCarry(k)
        BY <3>1 DEF Carried, GuiCarry
      <3>3. (MainStarted(k)' <=> MainStarted(k)) /\ (Ending(k)' <=> Ending(k))
        BY <1>2, <3>1, <3>2 DEF MainStarted, Ending
      <3>4. QED
        BY <1>2, <3>1, <3>2, <3>3 DEF MainInv, MainOf
    <2>2. QED
      BY <1>2, <1>3, <2>1 DEF MainInv
  <1>4. CASE TransitionStep(l)
    <2>1. \A u \in Thread \ {l} : tx'[u] = tx[u]
      BY <1>0, <1>4, TransitionEffect
    <2>2. GuiCarry(l)' = GuiCarry(l) /\ tx'[Gui] = tx[Gui]
      BY <1>0, <2>1 DEF GuiCarry, Carried
    <2>3. CASE TxLoad(l)
      <3>1. /\ tx[l].step = "load" /\ tx'[l].bits = tx[l].bits
            /\ tx'[l].new = status[l] \cup tx[l].bits /\ UNCHANGED status
        BY <1>0, <1>1, <2>3, TransitionEffect
      <3>2. "DataEnd" \notin status[l] \cup GuiCarry(l) /\ ~MainStarted(l)
        BY <3>1 DEF MainInv, MainOf
      <3>3. Carried(l)' \cap MainBits = {}
        BY <3>1, <3>2 DEF MainInv, MainOf, MainStarted, Carried
      <3>4. ~MainStarted(l)' /\ ~(mains'[l] > 0)
        BY <1>2, <2>2, <3>1, <3>2 DEF MainStarted
      <3>5. MainOf(l)'
        BY <1>2, <2>2, <3>1, <3>2, <3>3, <3>4 DEF MainInv, MainOf
      <3>6. QED
        BY <1>3, <2>1, <3>5
    <2>4. CASE TxStore(l)
      <3>1. /\ tx[l].step = "store" /\ tx'[l].step = "check" /\ tx'[l].bits = tx[l].bits
            /\ tx'[l].new = {} /\ status'[l] = tx[l].new
        BY <1>0, <1>1, <2>4, TransitionEffect
      <3>2. ~MainStarted(l) /\ Carried(l) \cap MainBits = {}
        BY <3>1 DEF MainInv, MainOf
      <3>3. ~MainStarted(l)' /\ ~(mains'[l] > 0)
        BY <1>2, <2>2, <3>1, <3>2 DEF MainStarted, Carried
      <3>4. MainOf(l)'
        BY <1>2, <3>1, <3>2, <3>3 DEF MainInv, MainOf, Carried
      <3>5. QED
        BY <1>3, <2>1, <3>4
    <2>5. CASE TxCheck(l)
      <3>1. /\ tx'[l].step = "none" /\ tx'[l].bits = {} /\ tx'[l].new = tx[l].new
            /\ UNCHANGED status
        BY <1>0, <1>1, <2>5, TransitionEffect
      <3>2. (MainStarted(l)' <=> MainStarted(l)) /\ (Ending(l)' <=> Ending(l))
        BY <1>2, <2>2, <3>1 DEF MainStarted, Ending
      <3>3. MainOf(l)'
        BY <1>2, <2>2, <3>1, <3>2 DEF MainInv, MainOf, Carried
      <3>4. QED
        BY <1>3, <2>1, <3>3
    <2>6. QED
      BY <1>4, <2>3, <2>4, <2>5 DEF TransitionStep
  <1>5. CASE TaskStart(l) \/ TaskEnd(l) \/ (CreateData(l) /\ UNCHANGED tx)
    <2>1. UNCHANGED <<tx, status>>
      BY <1>5 DEF TaskStart, TaskEnd, CreateData
    <2>2. /\ GuiCarry(l)' = GuiCarry(l) /\ Carried(l)' = Carried(l)
          /\ (MainStarted(l)' <=> MainStarted(l)) /\ (Ending(l)' <=> Ending(l))
      BY <1>2, <2>1 DEF GuiCarry, Carried, MainStarted, Ending
    <2>3. MainOf(l)'
      BY <1>2, <2>1, <2>2 DEF MainInv, MainOf
    <2>4. QED
      BY <1>3, <2>1, <2>3
  <1>6. ASSUME NEW bits \in SUBSET Bit, bits \cap MainBits = {}, Begin(l, l, bits),
               UNCHANGED status, pc[l] \in {"library", "broken", "loaded", "created"}
        PROVE  MainInv'
    <2>1. /\ tx'[l].of = l /\ tx'[l].bits = bits /\ tx'[l].new = {}
          /\ \A u \in Thread \ {l} : tx'[u] = tx[u]
      BY <1>0, <1>6, BeginEffect
    <2>2. GuiCarry(l)' = GuiCarry(l) /\ tx'[Gui] = tx[Gui]
      BY <1>0, <2>1 DEF GuiCarry, Carried
    <2>3. "DataEnd" \notin status[l] \cup GuiCarry(l)
      BY <1>6 DEF DataInv, Fresh, Clean, Final, GuiCarry
    <2>4. ~MainStarted(l)
      BY <2>3 DEF MainInv, MainOf
    <2>5. ~MainStarted(l)' /\ ~(mains'[l] > 0)
      BY <1>2, <1>6, <2>2, <2>4 DEF MainStarted
    <2>6. MainOf(l)'
      BY <1>2, <1>6, <2>1, <2>2, <2>3, <2>5 DEF MainInv, MainOf, Carried
    <2>7. QED
      BY <1>3, <2>1, <2>6
  <1>7. CASE LoadLibrary(l) \/ LibraryBroken(l) \/ (CreateData(l) /\ ~UNCHANGED tx) \/ MoveThread(l)
    <2>1. UNCHANGED status /\ pc[l] \in {"library", "broken", "loaded", "created"}
      BY <1>7 DEF LoadLibrary, LibraryBroken, CreateData, MoveThread
    <2>2. /\ {"DataErr"} \in SUBSET Bit /\ {"DataErr"} \cap MainBits = {}
          /\ {"DataLoad"} \in SUBSET Bit /\ {"DataLoad"} \cap MainBits = {}
          /\ {"DataEnd"} \in SUBSET Bit /\ {"DataEnd"} \cap MainBits = {}
      BY DEF Bit, MainBits
    <2>3. \E bits \in SUBSET Bit : bits \cap MainBits = {} /\ Begin(l, l, bits)
      BY <1>7, <2>2 DEF LoadLibrary, LibraryBroken, CreateData, MoveThread
    <2>4. QED
      BY <1>6, <2>1, <2>3
  <1>8. QED
    BY <1>4, <1>5, <1>7 DEF TaskStep

\* Every step keeps MainInv.
LEMMA NextMain ==
  ASSUME TypeOK, RestInv, DataInv, MainInv, [Next]_vars
  PROVE  MainInv'
  <1> USE DEF guiVars, envVars, phaseVars
  <1>1. CASE UNCHANGED vars
    BY <1>1 DEF vars, MainInv, MainOf, MainStarted, Ending, GuiCarry, Carried
  <1>2. CASE Environment
    <2>1. UNCHANGED <<status, tx, mains>> /\ pc[Gui] = "idle"
      BY <1>2 DEF Environment, ChangeHideModule, BeginDelete, Destroy, ToggleVisible, Idle
    <2>2. \/ pc' = pc \/ pc' = [pc EXCEPT ![Gui] = "resume"]
          \/ pc' = [pc EXCEPT ![Gui] = "joinDelete"]
      BY <1>2 DEF Environment, ChangeHideModule, BeginDelete, Destroy, ToggleVisible
    <2>3. pc'[Gui] \in {"idle", "resume", "joinDelete"}
      BY <2>1, <2>2 DEF TypeOK, Thread
    <2>4. QED
      BY <2>1, <2>3, MainFrame
  <1>3. QED
    BY <1>1, <1>2, GuiMain, TaskMain DEF Next

\* As long as no plugin is given a second task, its main object is announced once: neither
\* a stale event nor a resumption comes between DataEnd and PluginEnd.
THEOREM OneMainPerPlugin == Spec => []OneMain
  <1> DEFINE Inv == OneTask => DataInv /\ MainInv
  <1>1. Init => Inv /\ RestInv
    BY InitData, InitMain
  <1>2. ASSUME TypeOK, RestInv, Inv, [Next]_vars
        PROVE  Inv'
    <2>1. OneTask' => OneTask
      BY <1>2 DEF Next, vars, OneTask
    <2>2. QED
      BY <1>2, <2>1, NextData, NextMain
  <1>3. Inv => OneMain
    BY DEF MainInv, MainOf, OneMain
  <1>4. QED
    BY <1>1, <1>2, <1>3, InitTypeOK, NextTypeOK, RestStep, PTL DEF Spec

-----------------------------------------------------------------------------
(* Plugin loading goes through the phases of LoadPhases.                    *)

\* A plugin in phase p whose data object is with d may be in phase q next.
MayMove(p, q, d) ==
  \/ p = q
  \/ p = "module" /\ q \in {"ready", "skipped"}
  \/ p = "skipped" /\ q = "module"
  \/ p \in {"data", "interrupted"} /\ q \in {"data", "interrupted", "lost"}
  \/ p = "data" /\ q = "main" /\ d # "worker"
  \/ p = "main" /\ q = "done"

\* A step in which one plugin at most changes its phase, as it may, is one of LoadPhases.
LEMMA OneMoves ==
  ASSUME NEW l \in Loaders, \A k \in Loaders : k # l => PhaseOf(k)' = PhaseOf(k),
         MayMove(PhaseOf(l), PhaseOf(l)', data[l]), UNCHANGED <<data, navFinished, allLoadFinished>>
  PROVE  [Phases!Next]_(Phases!vars)
  <1> DEFINE f == [k \in Loaders |-> PhaseOf(k)]
  <1>1. f[l] = PhaseOf(l) /\ f' = [f EXCEPT ![l] = PhaseOf(l)']
    OBVIOUS
  <1>2. CASE PhaseOf(l)' = PhaseOf(l)
    <2>1. f' = f
      BY <1>2
    <2> QED BY <2>1 DEF Phases!vars
  <1>3. CASE PhaseOf(l)' # PhaseOf(l)
    <2>1. /\ f[l] = "module" /\ f' = [f EXCEPT ![l] = "ready"] => Phases!Prepare(l)
          /\ f[l] = "module" /\ f' = [f EXCEPT ![l] = "skipped"] => Phases!Skip(l)
          /\ f[l] = "skipped" /\ f' = [f EXCEPT ![l] = "module"] => Phases!Restart(l)
          /\ f[l] = "data" /\ f' = [f EXCEPT ![l] = "interrupted"] => Phases!Interrupt(l)
          /\ f[l] = "interrupted" /\ f' = [f EXCEPT ![l] = "data"] => Phases!Continue(l)
          /\ f[l] \in {"data", "interrupted"} /\ f' = [f EXCEPT ![l] = "lost"] => Phases!Forget(l)
          /\ f[l] = "data" /\ f' = [f EXCEPT ![l] = "main"] /\ data[l] # "worker" => Phases!BuildMain(l)
          /\ f[l] = "main" /\ f' = [f EXCEPT ![l] = "done"] => Phases!Complete(l)
      BY DEF Phases!Prepare, Phases!Skip, Phases!Restart, Phases!Interrupt, Phases!Continue,
             Phases!Forget, Phases!BuildMain, Phases!Complete, Phases!Move
    <2> HIDE DEF f
    <2>2. \/ Phases!Prepare(l) \/ Phases!Skip(l) \/ Phases!Restart(l) \/ Phases!Interrupt(l)
          \/ Phases!Continue(l) \/ Phases!Forget(l) \/ Phases!BuildMain(l) \/ Phases!Complete(l)
      BY <1>1, <1>3, <2>1 DEF MayMove
    <2> QED BY <2>2 DEF Phases!Next
  <1> QED BY <1>2, <1>3

\* The phase of a plugin with n tasks, status s and what the GUI thread carries for it.
Stage(n, s, c) ==
  IF n = 0 THEN IF "PluginEnd" \in s THEN "skipped"
                ELSE IF "ModuleEnd" \in s THEN "ready" ELSE "module"
  ELSE IF n > 1 \/ "DataBegin" \notin s \cup c THEN "lost"
  ELSE IF "MainObjLoad" \in s THEN IF "PluginEnd" \in s THEN "done" ELSE "main"
  ELSE IF "DataBegin" \in s /\ "PluginEnd" \notin s THEN "data" ELSE "interrupted"

\* That is the phase the loaders' state is read as, before a step and after it.
LEMMA PhaseIs ==
  ASSUME NEW l \in Loaders, tasks[l] \in Nat, tasks'[l] \in Nat
  PROVE  /\ PhaseOf(l) = Stage(tasks[l], status[l], GuiCarry(l))
         /\ PhaseOf(l)' = Stage(tasks'[l], status'[l], GuiCarry(l)')
  <1>1. ASSUME NEW n \in Nat, NEW s, NEW c
        PROVE  Stage(n, s, c) =
          CASE n = 0 /\ "PluginEnd" \in s -> "skipped"
            [] n = 0 /\ ~("PluginEnd" \in s) -> IF "ModuleEnd" \in s THEN "ready" ELSE "module"
            [] n > 1 \/ (n > 0 /\ "DataBegin" \notin s \cup c) -> "lost"
            [] OTHER ->
                 IF "MainObjLoad" \in s
                   THEN IF "PluginEnd" \in s THEN "done" ELSE "main"
                   ELSE IF "DataBegin" \in s /\ ~("PluginEnd" \in s) THEN "data" ELSE "interrupted"
    BY DEF Stage
  <1>2. Forgotten(l) <=> tasks[l] > 0 /\ "DataBegin" \notin status[l] \cup GuiCarry(l)
    BY DEF Forgotten, GuiCarry, Carried, Has
  <1>3. Forgotten(l)' <=> tasks'[l] > 0 /\ "DataBegin" \notin status'[l] \cup GuiCarry(l)'
    BY DEF Forgotten, GuiCarry, Carried, Has
  <1>4. PhaseOf(l) = Stage(tasks[l], status[l], GuiCarry(l))
    BY <1>1, <1>2 DEF PhaseOf, Has
  <1>5. PhaseOf(l)' = Stage(tasks'[l], status'[l], GuiCarry(l)')
    BY <1>1, <1>3 DEF PhaseOf, Has
  <1> QED BY <1>4, <1>5

\* What may become of a plugin without a task: its status is emptied when it had ended, or
\* grows, and does not get PluginEnd once it is ready.
LEMMA MovesBefore ==
  ASSUME NEW s, NEW t, NEW c, NEW e, NEW d,
         \/ t = {} /\ "PluginEnd" \in s
         \/ /\ "PluginEnd" \in s => "PluginEnd" \in t
            /\ "ModuleEnd" \in s => "ModuleEnd" \in t
            /\ "PluginEnd" \in t /\ "PluginEnd" \notin s => "ModuleEnd" \notin s
  PROVE  MayMove(Stage(0, s, c), Stage(0, t, e), d)
  BY DEF Stage, MayMove

\* What may become of a plugin with a task: without a main object anything that does not
\* remember a forgotten task; with one, its status grows; and in between PluginEnd is away.
LEMMA MovesAfter ==
  ASSUME NEW s, NEW t, NEW c, NEW e, NEW d,
         "DataBegin" \notin s \cup c => "DataBegin" \notin t \cup e,
         \/ "MainObjLoad" \notin s \cup t
         \/ /\ "MainObjLoad" \in s \cap t /\ ("PluginEnd" \in s => "PluginEnd" \in t)
            /\ "DataBegin" \in s \cup c => "DataBegin" \in t \cup e
         \/ /\ "MainObjLoad" \notin s /\ "PluginEnd" \notin s \cup t /\ d # "worker"
            /\ "DataBegin" \in s \cup c => "DataBegin" \in s /\ "DataBegin" \in t
  PROVE  MayMove(Stage(1, s, c), Stage(1, t, e), d)
  BY DEF Stage, MayMove

-----------------------------------------------------------------------------
(* What the steps of the phases rest on.                                    *)

\* l's main object is begun.
Built(l) == "MainObjLoad" \in status[l] \cup GuiCarry(l)

\* DataBegin is in l's status, or the GUI thread is about to put it there.
Kept(l) ==
  \/ "DataBegin" \in status[l]
  \/ /\ tx[Gui].of = l /\ (tx[Gui].step \in {"load", "store"} \/ pc[Gui] = "clear")
     /\ "DataBegin" \in Carried(Gui)

\* Before l has a task only the GUI thread writes its status, and l gets PluginEnd before
\* ModuleEnd or with it.
BeforeTask(l) ==
  /\ Resting(l) /\ "DataBegin" \notin status[l] \cup GuiCarry(l)
  /\ "PluginEnd" \in GuiCarry(l) => "PluginEnd" \in status[l] \/ "ModuleEnd" \notin status[l]
  /\ tx[Gui].of = l /\ pc[Gui] \in {"reset", "clear"} => "PluginEnd" \in status[l]
  /\ tx[Gui].of = l /\ pc[Gui] = "module" => "ModuleEnd" \notin status[l] \cup GuiCarry(l)

\* A forgotten task is not remembered: neither thread has read a status that still had
\* DataBegin when the other is about to write one without it.
StaysForgotten(l) ==
  /\ "DataBegin" \notin tx[l].bits
  /\ ~Kept(l) => "DataBegin" \notin tx[l].new
  /\ tx[Gui].of = l /\ (tx[Gui].step = "store" \/ pc[Gui] = "clear") /\ "DataBegin" \notin Carried(Gui)
       => "DataBegin" \notin status[l] \cup tx[l].new

\* From the moment the main object is begun the GUI thread alone writes the status, and
\* what it carries is no older than that.
AfterBuild(l) ==
  Built(l) => /\ "DataBegin" \in GuiCarry(l) => "DataBegin" \in status[l]
              /\ "MainObjLoad" \in status[l] \/ "PluginEnd" \notin status[l] \cup GuiCarry(l)

StageOf(l) ==
  /\ tasks[l] = 0 => BeforeTask(l)
  /\ Fresh(l) /\ pc[l] # "created" => data[l] = "none"
  /\ StaysForgotten(l)
  /\ tx[Gui].of = l /\ tx[Gui].step = "store" =>
       /\ tx[Gui].bits \subseteq tx[Gui].new
       /\ tasks[l] = 0 \/ Built(l) => tx[Gui].new = status[l] \cup tx[Gui].bits
  /\ AfterBuild(l)
  /\ l \in unloaded => status[l] = {}

StageInv ==
  /\ \A l \in Loaders : StageOf(l)
  /\ IF pc[Gui] = "start" THEN Resting(Gui) ELSE unloaded = {}

\* The whole of what holds as long as no plugin has a second task.
PhasesInv == DataInv /\ MainInv /\ StageInv

\* Nothing has begun at the start.
LEMMA InitStage == Init => StageInv
  <1> SUFFICES ASSUME Init PROVE StageInv
    OBVIOUS
  <1>1. /\ Gui \in Thread /\ \A l \in Loaders : l \in Thread /\ l # Gui
        /\ \A t \in Thread : tx[t].step = "none" /\ tx[t].bits = {} /\ tx[t].new = {}
    BY DEF Init, Thread
  <1>2. \A l \in Loaders : status[l] = {} /\ tasks[l] = 0 /\ data[l] = "none" /\ GuiCarry(l) = {}
    BY <1>1 DEF Init, GuiCarry, Carried
  <1>3. pc[Gui] = "start"
    BY <1>1 DEF Init
  <1>4. \A l \in Loaders : StageOf(l)
    BY <1>1, <1>2, <1>3 DEF StageOf, BeforeTask, StaysForgotten, AfterBuild, Built, Resting
  <1> QED BY <1>1, <1>3, <1>4 DEF StageInv, Resting

\* Whose main object is begun has data that is ready and a task that writes no more.
LEMMA BuiltFacts ==
  ASSUME DataInv, MainInv, NEW l \in Loaders, Built(l)
  PROVE  /\ "DataEnd" \in status[l] /\ tx[l].step \notin {"load", "store"}
         /\ ~Fresh(l) /\ tasks[l] # 0 /\ data[l] # "worker"
         /\ tx[Gui].of = l => pc[Gui] \notin {"reset", "clear"}
  <1>1. MainStarted(l)
    BY DEF Built, MainStarted, MainBits
  <1>2. /\ "DataEnd" \in status[l] /\ tx[l].step \notin {"load", "store"}
        /\ tx[Gui].of = l => pc[Gui] \notin {"reset", "clear"}
    BY <1>1 DEF MainInv, MainOf
  <1>3. ~Fresh(l)
    BY <1>2 DEF DataInv, Clean, Final
  <1> QED BY <1>2, <1>3 DEF Fresh, DataInv, TaskInv

\* A plugin whose status, task and part of the GUI thread's transition stay has its phase.
LEMMA SamePhase ==
  ASSUME TypeOK, TypeOK', NEW k \in Loaders, status'[k] = status[k], tasks'[k] = tasks[k],
         "DataBegin" \in status[k] \cup GuiCarry(k)' <=> "DataBegin" \in status[k] \cup GuiCarry(k)
  PROVE  PhaseOf(k)' = PhaseOf(k)
  <1>1. tasks[k] \in Nat /\ tasks'[k] \in Nat
    BY DEF TypeOK
  <1> QED BY <1>1, PhaseIs DEF Stage

\* A step that does not touch k's status, nor any transition.
LEMMA StageFrame ==
  ASSUME NEW k \in Loaders, StageOf(k), status'[k] = status[k], tasks'[k] = tasks[k],
         data'[k] = data[k], tx'[k] = tx[k], tx'[Gui] = tx[Gui],
         pc'[Gui] = pc[Gui] \/ (pc[Gui] # "clear" /\ pc'[Gui] \notin {"reset", "clear", "module"}),
         Fresh(k)' /\ pc'[k] # "created" => Fresh(k) /\ pc[k] # "created",
         k \in unloaded' => k \in unloaded
  PROVE  StageOf(k)'
  <1>1. GuiCarry(k)' = GuiCarry(k) /\ Carried(Gui)' = Carried(Gui)
    BY DEF GuiCarry, Carried
  <1>2. (Built(k)' <=> Built(k)) /\ (Kept(k) => Kept(k)')
    BY <1>1 DEF Built, Kept
  <1>3. (tasks[k] = 0 => BeforeTask(k)') /\ StaysForgotten(k)' /\ AfterBuild(k)'
    BY <1>1, <1>2 DEF StageOf, BeforeTask, StaysForgotten, AfterBuild, Resting
  <1> QED BY <1>2, <1>3 DEF StageOf

\* A step after which the GUI thread has nothing to do with k, and had nothing to bring.
LEMMA StageAway ==
  ASSUME NEW k \in Loaders, StageOf(k), status'[k] = status[k], tasks'[k] = tasks[k],
         data'[k] = data[k], tx'[k] = tx[k],
         GuiCarry(k) = {}, tx'[Gui].of # k,
         Fresh(k)' /\ pc'[k] # "created" => Fresh(k) /\ pc[k] # "created",
         k \in unloaded' => k \in unloaded
  PROVE  StageOf(k)'
  <1>1. GuiCarry(k)' = {} /\ (Kept(k) => Kept(k)') /\ (Built(k)' <=> Built(k))
    BY DEF GuiCarry, Kept, Built
  <1>2. (tasks[k] = 0 => BeforeTask(k)') /\ StaysForgotten(k)' /\ AfterBuild(k)'
    BY <1>1 DEF StageOf, BeforeTask, StaysForgotten, AfterBuild, Resting
  <1> QED BY <1>1, <1>2 DEF StageOf

\* What the GUI thread begins is no DataBegin, and no PluginEnd for a plugin that is ready.
LEMMA StageBegin ==
  ASSUME TypeOK, TypeOK', RestInv, PhasesInv, Resting(Gui), pc[Gui] # "clear",
         UNCHANGED <<status, tasks, data>>, pool' \subseteq pool, unloaded' \subseteq unloaded,
         \A k \in Loaders : pc'[k] = pc[k], pc'[Gui] \notin {"reset", "clear"},
         NEW l \in Loaders, NEW bits \in SUBSET Bit, Begin(Gui, l, bits), "DataBegin" \notin bits,
         tasks[l] = 0 /\ "PluginEnd" \in bits => "PluginEnd" \in status[l] \/ "ModuleEnd" \notin status[l],
         tasks[l] = 0 /\ pc'[Gui] = "module" => "ModuleEnd" \notin status[l] \cup bits,
         "MainObjLoad" \in bits => "PluginEnd" \notin status[l] \cup bits
  PROVE  \A k \in Loaders : StageOf(k)' /\ PhaseOf(k)' = PhaseOf(k)
  <1>1. Gui \in Thread /\ \A k \in Loaders : k \in Thread /\ k # Gui
    BY DEF Thread
  <1>2. /\ tx'[Gui].of = l /\ tx'[Gui].bits = bits /\ tx'[Gui].new = {} /\ tx'[Gui].step = "load"
        /\ \A k \in Loaders : tx'[k] = tx[k]
    BY <1>1, BeginEffect
  <1>3. /\ \A k \in Loaders : GuiCarry(k) = {}
        /\ GuiCarry(l)' = bits /\ \A k \in Loaders : k # l => GuiCarry(k)' = {}
    BY <1>1, <1>2 DEF RestInv, Resting, GuiCarry, Carried
  <1>4. \A k \in Loaders : Fresh(k)' => Fresh(k)
    BY DEF Fresh
  <1>5. ASSUME NEW k \in Loaders
        PROVE  PhaseOf(k)' = PhaseOf(k)
    BY <1>3, SamePhase
  <1>6. ASSUME NEW k \in Loaders, k # l
        PROVE  StageOf(k)'
    BY <1>2, <1>3, <1>4, <1>6, StageAway DEF PhasesInv, StageInv
  <1>7. StageOf(l)'
    <2>1. StageOf(l)
      BY DEF PhasesInv, StageInv
    <2>2. Kept(l) => Kept(l)'
      BY <1>3 DEF Kept, GuiCarry
    <2>3. tasks[l] = 0 => BeforeTask(l)'
      BY <1>2, <1>3, <2>1 DEF StageOf, BeforeTask, Resting
    <2>4. StaysForgotten(l)'
      BY <1>2, <2>1, <2>2 DEF StageOf, StaysForgotten
    <2>5. AfterBuild(l)'
      BY <1>3, <2>1 DEF StageOf, AfterBuild, Built
    <2> QED BY <1>2, <1>4, <2>1, <2>3, <2>4, <2>5 DEF StageOf
  <1> QED BY <1>5, <1>6, <1>7

\* A step of transitionStatus by the GUI thread.
LEMMA StageGuiTransition ==
  ASSUME TypeOK, TypeOK', RestInv, PhasesInv, OneTask, TransitionStep(Gui),
         NEW g, g = tx[Gui].of, NEW b, b = tx[Gui].bits, NEW n, n = tx[Gui].new
  PROVE  /\ \A k \in Loaders : StageOf(k)' /\ (k # g => PhaseOf(k)' = PhaseOf(k))
         /\ MayMove(PhaseOf(g), PhaseOf(g)', data[g])
  <1>1. Gui \in Thread /\ \A k \in Loaders : k \in Thread /\ k # Gui
    BY DEF Thread
  <1>2. /\ g \in Loaders /\ tx'[Gui].of = g
        /\ \A k \in Loaders : tx'[k] = tx[k] /\ pc'[k] = pc[k] /\ data'[k] = data[k] /\ tasks'[k] = tasks[k]
        /\ pc' = pc /\ pool' = pool /\ unloaded' = unloaded
        /\ tx[Gui].step # "none" /\ pc[Gui] \notin {"reset", "clear"}
    <2>1. g \in Loaders
      BY <1>1 DEF TypeOK, Transition
    <2>2. tx[Gui].step # "none" /\ unloaded' = unloaded
      BY DEF TransitionStep, TxLoad, TxStore, TxCheck, guiVars
    <2> QED BY <1>1, <2>1, <2>2, TransitionEffect DEF RestInv
  <1>3. /\ \A k \in Loaders : k # g => GuiCarry(k) = {} /\ GuiCarry(k)' = {} /\ status'[k] = status[k]
        /\ GuiCarry(g) = b \cup n /\ Carried(Gui) = b \cup n
        /\ GuiCarry(g)' = Carried(Gui)' /\ Carried(Gui)' = tx'[Gui].bits \cup tx'[Gui].new
    BY <1>1, <1>2, TransitionEffect DEF GuiCarry, Carried, TransitionStep
  <1>4. \A k \in Loaders : Fresh(k)' => Fresh(k)
    BY <1>2 DEF Fresh
  <1>5. ASSUME NEW k \in Loaders, k # g
        PROVE  StageOf(k)' /\ PhaseOf(k)' = PhaseOf(k)
    <2>1. StageOf(k)'
      BY <1>2, <1>3, <1>4, <1>5, StageAway DEF PhasesInv, StageInv
    <2>2. PhaseOf(k)' = PhaseOf(k)
      BY <1>2, <1>3, <1>5, SamePhase
    <2> QED BY <2>1, <2>2
  <1>6. /\ StageOf(g) /\ (tasks[g] = 0 \/ tasks[g] = 1)
        /\ PhaseOf(g) = Stage(tasks[g], status[g], GuiCarry(g))
        /\ PhaseOf(g)' = Stage(tasks[g], status'[g], GuiCarry(g)')
        /\ Built(g) => data[g] # "worker" /\ tasks[g] # 0
    <2>1. tasks[g] \in Nat /\ tasks[g] <= 1 /\ tasks'[g] = tasks[g]
      BY <1>2 DEF TypeOK, OneTask
    <2>2. StageOf(g) /\ (Built(g) => data[g] # "worker" /\ tasks[g] # 0)
      BY <1>2, BuiltFacts DEF PhasesInv, StageInv
    <2> QED BY <1>2, <2>1, <2>2, PhaseIs
  <1>7. CASE TxLoad(Gui)
    <2>1. /\ tx'[Gui].step = "store" /\ tx'[Gui].bits = b /\ tx'[Gui].new = status[g] \cup b
          /\ tx[Gui].step = "load" /\ UNCHANGED status /\ n = {}
      BY <1>1, <1>7, TransitionEffect DEF RestInv
    <2>2. (Built(g)' <=> Built(g)) /\ (Kept(g) => Kept(g)') /\ GuiCarry(g)' = status[g] \cup b
      BY <1>2, <1>3, <2>1 DEF Built, Kept
    <2>3. tasks[g] = 0 => BeforeTask(g)'
      BY <1>2, <1>3, <1>6, <2>1, <2>2 DEF StageOf, BeforeTask, Resting
    <2>4. StaysForgotten(g)'
      BY <1>2, <1>3, <1>6, <2>1, <2>2 DEF StageOf, StaysForgotten, Kept
    <2>5. AfterBuild(g)'
      BY <1>3, <1>6, <2>1, <2>2 DEF StageOf, AfterBuild
    <2>6. StageOf(g)'
      BY <1>2, <1>4, <1>6, <2>1, <2>2, <2>3, <2>4, <2>5 DEF StageOf
    <2>7. PhaseOf(g)' = PhaseOf(g)
      BY <1>2, <1>3, <2>1, <2>2, SamePhase
    <2> QED BY <1>5, <2>6, <2>7 DEF MayMove
  <1>8. CASE TxStore(Gui)
    <2>1. /\ tx'[Gui].step = "check" /\ tx'[Gui].bits = b /\ tx'[Gui].new = {}
          /\ tx[Gui].step = "store" /\ status'[g] = n
      BY <1>1, <1>8, TransitionEffect
    <2>2. b \subseteq n /\ (tasks[g] = 0 \/ Built(g) => n = status[g] \cup b)
      BY <1>6, <2>1 DEF StageOf
    <2>3. (Built(g)' => Built(g)) /\ GuiCarry(g)' = b
      BY <1>3, <2>1, <2>2 DEF Built
    <2>4. tasks[g] = 0 => BeforeTask(g)'
      BY <1>2, <1>3, <1>6, <2>1, <2>2, <2>3 DEF StageOf, BeforeTask, Resting
    <2>5. StaysForgotten(g)'
      BY <1>2, <1>3, <1>6, <2>1, <2>2, <2>3 DEF StageOf, StaysForgotten, Kept
    <2>6. AfterBuild(g)'
      BY <1>3, <1>6, <2>1, <2>2, <2>3 DEF StageOf, AfterBuild, Built
    <2>7. StageOf(g)'
      <3>1. g \in unloaded' => status'[g] = {}
        <4>1. g \notin unloaded
          BY <1>2 DEF PhasesInv, StageInv, Resting
        <4> QED BY <1>2, <4>1
      <3> QED BY <1>2, <1>4, <1>6, <2>1, <2>4, <2>5, <2>6, <3>1 DEF StageOf
    <2>8. MayMove(PhaseOf(g), PhaseOf(g)', data[g])
      <3>1. CASE tasks[g] = 0
        <4>1. n = status[g] \cup b /\ BeforeTask(g)
          BY <1>6, <2>2, <3>1 DEF StageOf
        <4>2. "PluginEnd" \in n /\ "PluginEnd" \notin status[g] => "ModuleEnd" \notin status[g]
          BY <1>3, <4>1 DEF BeforeTask
        <4> QED BY <1>6, <2>1, <3>1, <4>1, <4>2, MovesBefore
      <3>2. CASE tasks[g] = 1 /\ ~Built(g)
        <4>1. "MainObjLoad" \notin status[g] \cup n
          BY <1>3, <3>2 DEF Built
        <4> QED BY <1>3, <1>6, <2>1, <2>2, <2>3, <3>2, <4>1, MovesAfter
      <3>3. CASE tasks[g] = 1 /\ Built(g)
        <4>1. n = status[g] \cup b /\ "MainObjLoad" \in n /\ AfterBuild(g)
          BY <1>3, <1>6, <2>2, <3>3 DEF StageOf, Built
        <4>2. "DataBegin" \in status[g] \cup GuiCarry(g) <=> "DataBegin" \in status[g]
          BY <3>3, <4>1 DEF AfterBuild
        <4>3. "MainObjLoad" \notin status[g] => "PluginEnd" \notin status[g] \cup n
          BY <1>3, <3>3, <4>1 DEF AfterBuild
        <4>4. "DataBegin" \in n \cup b <=> "DataBegin" \in status[g]
          BY <1>3, <2>2, <4>1, <4>2
        <4> QED BY <1>6, <2>1, <2>3, <3>3, <4>1, <4>2, <4>3, <4>4, MovesAfter
      <3> QED BY <1>6, <3>1, <3>2, <3>3
    <2> QED BY <1>5, <2>7, <2>8
  <1>9. CASE TxCheck(Gui)
    <2>1. /\ tx'[Gui].step = "none" /\ tx'[Gui].bits = {} /\ tx'[Gui].new = {}
          /\ tx[Gui].step = "check" /\ UNCHANGED status
      BY <1>1, <1>9, TransitionEffect DEF RestInv
    <2>2. (Built(g)' => Built(g)) /\ GuiCarry(g)' = {} /\ (Kept(g) => Kept(g)')
      BY <1>2, <1>3, <2>1 DEF Built, Kept
    <2>3. tasks[g] = 0 => BeforeTask(g)'
      BY <1>2, <1>3, <1>6, <2>1, <2>2 DEF StageOf, BeforeTask, Resting
    <2>4. StaysForgotten(g)'
      BY <1>2, <1>6, <2>1, <2>2 DEF StageOf, StaysForgotten
    <2>5. AfterBuild(g)'
      BY <1>6, <2>1, <2>2 DEF StageOf, AfterBuild, Built
    <2>6. StageOf(g)'
      BY <1>2, <1>4, <1>6, <2>1, <2>2, <2>3, <2>4, <2>5 DEF StageOf
    <2>7. MayMove(PhaseOf(g), PhaseOf(g)', data[g])
      <3>1. CASE tasks[g] = 0
        BY <1>6, <2>1, <3>1, MovesBefore
      <3>2. CASE tasks[g] = 1 /\ "MainObjLoad" \notin status[g]
        BY <1>6, <2>1, <2>2, <3>2, MovesAfter
      <3>3. CASE tasks[g] = 1 /\ "MainObjLoad" \in status[g]
        <4>1. "DataBegin" \in GuiCarry(g) => "DataBegin" \in status[g]
          BY <1>6, <3>3 DEF StageOf, AfterBuild, Built
        <4> QED BY <1>6, <2>1, <2>2, <3>3, <4>1, MovesAfter
      <3> QED BY <1>6, <3>1, <3>2, <3>3
    <2> QED BY <1>5, <2>6, <2>7
  <1> QED BY <1>7, <1>8, <1>9 DEF TransitionStep

\* Handing loaders to the pool again while the GUI thread carries nothing: those without a
\* task begin to load their data, the others have forgotten it and stay lost.
LEMMA HandOverPhases ==
  ASSUME TypeOK, TypeOK', RestInv, PhasesInv, Resting(Gui), pc[Gui] # "clear", tx' = tx,
         NEW S \in SUBSET Ready, HandOver(S)
  PROVE  /\ \A k \in Loaders : PhaseOf(k)' = IF k \in S /\ PhaseOf(k) = "ready" THEN "data" ELSE PhaseOf(k)
         /\ \A k \in S : PhaseOf(k) \in {"ready", "lost"}
  <1>1. \A k \in Loaders : GuiCarry(k) = {} /\ GuiCarry(k)' = {}
    BY DEF RestInv, Resting, GuiCarry, Carried, Thread
  <1>2. \A k \in Loaders : tasks[k] \in Nat /\ tasks'[k] \in Nat
    BY DEF TypeOK
  <1>3. \A k \in Loaders : k \notin S => status'[k] = status[k] /\ tasks'[k] = tasks[k]
    BY DEF HandOver
  <1>4. \A k \in S : /\ k \in Loaders /\ "ModuleEnd" \in status[k]
                     /\ "DataBegin" \notin status[k] /\ "PluginEnd" \notin status[k]
                     /\ status'[k] = status[k] \cup {"DataBegin"} /\ tasks'[k] = tasks[k] + 1
    BY DEF HandOver, Ready, Has
  <1>5. ASSUME NEW k \in Loaders, k \notin S
        PROVE  PhaseOf(k)' = PhaseOf(k)
    BY <1>1, <1>3, <1>5, SamePhase
  <1>6. ASSUME NEW k \in S, tasks[k] = 0
        PROVE  PhaseOf(k) = "ready" /\ PhaseOf(k)' = "data"
    <2>1. "MainObjLoad" \notin status[k]
      BY <1>4, <1>6 DEF PhasesInv, DataInv, Fresh, Clean, Final
    <2>2. Stage(0, status[k], {}) = "ready" /\ Stage(1, status[k] \cup {"DataBegin"}, {}) = "data"
      BY <1>4, <2>1 DEF Stage
    <2>3. /\ PhaseOf(k) = Stage(tasks[k], status[k], {})
          /\ PhaseOf(k)' = Stage(tasks'[k], status'[k], {})
      BY <1>1, <1>2, <1>4, PhaseIs
    <2>4. tasks[k] = 0 /\ tasks'[k] = 1 /\ status'[k] = status[k] \cup {"DataBegin"}
      BY <1>4, <1>6
    <2> QED BY <2>2, <2>3, <2>4
  <1>7. ASSUME NEW k \in S, tasks[k] # 0
        PROVE  PhaseOf(k) = "lost" /\ PhaseOf(k)' = "lost"
    <2>1. k \in Loaders /\ tasks[k] \in Nat /\ tasks'[k] \in Nat
      BY <1>2, <1>4
    <2>2. PhaseOf(k) = Stage(tasks[k], status[k], {}) /\ PhaseOf(k)' = Stage(tasks[k] + 1, status'[k], {})
      BY <1>1, <1>4, <2>1, PhaseIs
    <2> QED BY <1>4, <1>7, <2>1, <2>2 DEF Stage
  <1> QED BY <1>5, <1>6, <1>7

\* Loaders are handed to the pool for the first time: what is known of every loader stays.
LEMMA StageHandOver ==
  ASSUME TypeOK, TypeOK', OneTask', RestInv, PhasesInv, Resting(Gui), UNCHANGED <<tx, data, unloaded>>,
         \A k \in Loaders : pc'[k] = pc[k], pc[Gui] # "clear", unloaded = {},
         pc'[Gui] \notin {"reset", "clear", "module", "start"},
         NEW S \in SUBSET Ready, HandOver(S), pool' \subseteq pool \cup S
  PROVE  StageInv'
  <1>1. \A k \in Loaders : GuiCarry(k) = {} /\ GuiCarry(k)' = {} /\ k # Gui
    BY DEF RestInv, Resting, GuiCarry, Carried, Thread
  <1>2. \A k \in Loaders : k \notin S => status'[k] = status[k] /\ tasks'[k] = tasks[k]
    BY DEF HandOver
  <1>3. \A k \in S : /\ k \in Loaders /\ status'[k] = status[k] \cup {"DataBegin"}
                     /\ tasks[k] = 0 /\ tasks'[k] = 1
    BY DEF HandOver, Ready, TypeOK, OneTask
  <1>4. \A k \in Loaders : Fresh(k)' => Fresh(k)
    BY <1>2, <1>3 DEF Fresh
  <1>5. ASSUME NEW k \in Loaders, k \notin S
        PROVE  StageOf(k)'
    <2>1. StageOf(k)
      BY DEF PhasesInv, StageInv
    <2> QED BY <1>2, <1>4, <1>5, <2>1, StageFrame
  <1>6. ASSUME NEW k \in S
        PROVE  StageOf(k)'
    <2>1. StageOf(k)
      BY <1>3 DEF PhasesInv, StageInv
    <2>2. Kept(k)'
      BY <1>3 DEF Kept
    <2>3. StaysForgotten(k)'
      BY <2>1, <2>2 DEF StageOf, StaysForgotten, Resting
    <2>4. AfterBuild(k)'
      BY <1>1, <1>3, <2>1 DEF StageOf, AfterBuild, Built
    <2> QED BY <1>3, <1>4, <2>1, <2>3, <2>4 DEF StageOf, Resting
  <1> QED BY <1>5, <1>6 DEF StageInv

\* The phases when startDataPhase may run: who is ready is in Ready, and the navigation is
\* ready when no plugin is in its first phase.
LEMMA ReadyPhases ==
  ASSUME TypeOK, PhasesInv, NEW k \in Loaders
  PROVE  /\ PhaseOf(k) = "ready" => k \in Ready
         /\ PhaseOf(k) = "module" => status[k] \cap {"ModuleEnd", "PluginEnd"} = {}
         /\ Has(k, "PluginEnd") => PhaseOf(k) \in {"done", "skipped", "interrupted", "lost"}
  <1>1. tasks[k] \in Nat /\ (tasks[k] = 0 => "DataBegin" \notin status[k])
    BY DEF TypeOK, PhasesInv, StageInv, StageOf, BeforeTask
  <1> DEFINE n == tasks[k]
             s == status[k]
             c == GuiCarry(k)
  <1>2. PhaseOf(k) = Stage(n, s, c)
    BY <1>1 DEF PhaseOf, Stage, Forgotten, GuiCarry, Carried, Has
  <1>3. n \in Nat /\ (n = 0 => "DataBegin" \notin s)
    BY <1>1
  <1> HIDE DEF n, s, c
  <1>4. /\ Stage(n, s, c) = "ready" => "ModuleEnd" \in s /\ "DataBegin" \notin s /\ "PluginEnd" \notin s
        /\ Stage(n, s, c) = "module" => s \cap {"ModuleEnd", "PluginEnd"} = {}
        /\ "PluginEnd" \in s => Stage(n, s, c) \in {"done", "skipped", "interrupted", "lost"}
    BY <1>3 DEF Stage
  <1> QED BY <1>2, <1>4 DEF Ready, Has, s

\* Who is handed over moves as LoadPhases says, when the navigation is ready.
LEMMA LoadsData ==
  ASSUME NEW S \in SUBSET Loaders, S # {}, navFinished' = TRUE, \A k \in S : PhaseOf(k) \in {"ready", "lost"},
         \A k \in Loaders : PhaseOf(k)' = IF k \in S /\ PhaseOf(k) = "ready" THEN "data" ELSE PhaseOf(k)
  PROVE  Phases!LoadData(S)
  <1> DEFINE f == [k \in Loaders |-> PhaseOf(k)]
  <1>1. \A k \in S : f[k] \in {"ready", "lost"}
    OBVIOUS
  <1>2. f' = [k \in Loaders |-> IF k \in S /\ f[k] = "ready" THEN "data" ELSE f[k]]
    OBVIOUS
  <1> QED BY <1>1, <1>2 DEF Phases!LoadData

\* The timer's startDataPhase is MoreData, or changes nothing.
LEMMA TimerPhases ==
  ASSUME TypeOK, TypeOK', RestInv, PhaseInv, PhasesInv, FireTimer
  PROVE  [Phases!Next]_(Phases!vars)
  <1>1. /\ Resting(Gui) /\ pc[Gui] # "clear" /\ tx' = tx /\ HandOver(Ready)
        /\ navFinished' = TRUE /\ UNCHANGED <<data, navFinished, allLoadFinished>>
    BY DEF FireTimer, Idle, PhaseInv, TypeOK
  <1>2. Ready \in SUBSET Loaders
    BY DEF Ready
  <1>3. /\ \A k \in Loaders : PhaseOf(k)' = IF k \in Ready /\ PhaseOf(k) = "ready" THEN "data" ELSE PhaseOf(k)
        /\ \A k \in Ready : PhaseOf(k) \in {"ready", "lost"}
    BY <1>1, HandOverPhases
  <1>4. CASE Ready = {}
    <2>1. PICK l \in Loaders : TRUE
      OBVIOUS
    <2>2. \A k \in Loaders : PhaseOf(k)' = PhaseOf(k)
      BY <1>3, <1>4
    <2> QED BY <1>1, <2>2, OneMoves DEF MayMove
  <1>5. CASE Ready # {}
    <2>1. Phases!LoadData(Ready)
      BY <1>1, <1>2, <1>3, <1>5, LoadsData
    <2>2. Phases!MoreData
      BY <1>1, <1>2, <2>1 DEF Phases!MoreData
    <2> QED BY <2>2 DEF Phases!Next
  <1> QED BY <1>4, <1>5

\* checkNavigationFinished is Navigate, or changes nothing; at the end of loading, Finish.
LEMMA CheckPhases ==
  ASSUME TypeOK, TypeOK', RestInv, PhaseInv, PhasesInv, Resting(Gui), pc[Gui] # "clear", UNCHANGED <<tx, data>>,
         NEW events, CheckNavigationFinished(events),
         \/ UNCHANGED allLoadFinished
         \/ AllFinished /\ allLoadFinished' = TRUE
  PROVE  [Phases!Next]_(Phases!vars)
  <1>1. /\ TasksToStart \in SUBSET Ready /\ Ready \in SUBSET Loaders /\ HandOver(TasksToStart)
        /\ AllNavReady => navFinished' = TRUE
        /\ ~AllNavReady => TasksToStart = {} /\ navFinished' = navFinished
    BY DEF CheckNavigationFinished, TasksToStart, StartsDataPhase, Ready, TypeOK
  <1>2. /\ \A k \in Loaders : PhaseOf(k)' = IF k \in TasksToStart /\ PhaseOf(k) = "ready" THEN "data" ELSE PhaseOf(k)
        /\ \A k \in TasksToStart : PhaseOf(k) \in {"ready", "lost"}
    BY <1>1, HandOverPhases
  <1> DEFINE f == [k \in Loaders |-> PhaseOf(k)]
  <1>3. TasksToStart = {} => f' = f
    BY <1>2
  <1>4. AllFinished => AllNavReady /\ TasksToStart = {}
    BY <1>1 DEF AllFinished, AllNavReady, Ready, Has
  <1>5. CASE ~AllNavReady
    <2>1. f' = f /\ UNCHANGED <<data, navFinished, allLoadFinished>>
      BY <1>1, <1>3, <1>4, <1>5
    <2> QED BY <2>1 DEF Phases!vars
  <1>6. CASE AllNavReady /\ UNCHANGED allLoadFinished
    <2>1. Phases!AllPrepared
      <3>1. \A k \in Loaders : PhaseOf(k) # "module"
        BY <1>6, ReadyPhases DEF AllNavReady
      <3>2. \A k \in Loaders : f[k] # "module"
        BY <3>1
      <3> QED BY <3>2 DEF Phases!AllPrepared
    <2>2. \/ f' = f
          \/ \E S \in SUBSET {k \in Loaders : f[k] = "lost"} :
                Phases!LoadData(S \cup {k \in Loaders : f[k] = "ready"})
      <3>1. CASE TasksToStart = {}
        BY <1>3, <3>1
      <3>2. CASE TasksToStart # {}
        <4>1. TasksToStart = Ready
          BY <3>2 DEF TasksToStart
        <4> DEFINE S == {k \in Ready : PhaseOf(k) = "lost"}
        <4>2. S \in SUBSET {k \in Loaders : f[k] = "lost"}
          BY <1>1
        <4>3. S \cup {k \in Loaders : f[k] = "ready"} = TasksToStart
          BY <1>1, <1>2, <4>1, ReadyPhases
        <4>4. TasksToStart \in SUBSET Loaders
          BY <1>1
        <4>5. Phases!LoadData(TasksToStart)
          BY <1>1, <1>2, <1>6, <3>2, <4>4, LoadsData
        <4> HIDE DEF S, f
        <4> QED BY <4>2, <4>3, <4>5
      <3> QED BY <3>1, <3>2
    <2>3. Phases!Navigate
      BY <1>1, <1>6, <2>1, <2>2 DEF Phases!Navigate
    <2> QED BY <2>3 DEF Phases!Next
  <1>7. CASE AllFinished /\ allLoadFinished' = TRUE
    <2>1. \A k \in Loaders : f[k] \in {"done", "skipped", "interrupted", "lost"}
      BY <1>7, ReadyPhases DEF AllFinished
    <2>2. f' = f /\ navFinished' = TRUE /\ allLoadFinished' = TRUE /\ data' = data
      BY <1>1, <1>3, <1>4, <1>7
    <2>3. Phases!Finish
      BY <2>1, <2>2 DEF Phases!Finish
    <2> QED BY <2>3 DEF Phases!Next
  <1> QED BY <1>5, <1>6, <1>7

\* A step that writes no status and begins no transition.
LEMMA StageQuiet ==
  ASSUME TypeOK, TypeOK', PhasesInv,
         UNCHANGED <<status, tx, tasks, data, unloaded, navFinished, allLoadFinished>>,
         pc'[Gui] = "start" <=> pc[Gui] = "start",
         pc'[Gui] = pc[Gui] \/ (pc[Gui] # "clear" /\ pc'[Gui] \notin {"reset", "clear", "module"}),
         \A k \in Loaders : Fresh(k)' /\ pc'[k] # "created" => Fresh(k) /\ pc[k] # "created"
  PROVE  StageInv' /\ [Phases!Next]_(Phases!vars)
  <1>1. ASSUME NEW k \in Loaders
        PROVE  StageOf(k)' /\ PhaseOf(k)' = PhaseOf(k)
    <2>1. GuiCarry(k)' = GuiCarry(k)
      BY DEF GuiCarry, Carried
    <2>2. StageOf(k)
      BY DEF PhasesInv, StageInv
    <2>3. StageOf(k)'
      BY <2>2, StageFrame
    <2>4. PhaseOf(k)' = PhaseOf(k)
      BY <2>1, SamePhase
    <2> QED BY <2>3, <2>4
  <1>2. StageInv'
    BY <1>1 DEF PhasesInv, StageInv, Resting
  <1>3. PICK l \in Loaders : TRUE
    OBVIOUS
  <1>4. [Phases!Next]_(Phases!vars)
    BY <1>1, <1>3, OneMoves DEF MayMove
  <1> QED BY <1>2, <1>4

\* updateVisible takes PluginEnd back from a plugin that has not loaded its data.
LEMMA StageUpdate ==
  ASSUME TypeOK, TypeOK', RestInv, PhasesInv, NEW l \in Loaders, UpdateVisible(l)
  PROVE  StageInv' /\ [Phases!Next]_(Phases!vars)
  <1> USE DEF guiVars, envVars, phaseVars
  <1>1. Gui \in Thread /\ \A k \in Loaders : k \in Thread /\ k # Gui
    BY DEF Thread
  <1>2. /\ UNCHANGED <<status, pool, tasks, data, unloaded, navFinished, allLoadFinished>>
        /\ pc[Gui] = "resume" /\ tx[Gui].step = "none" /\ tx[Gui].bits = {} /\ tx[Gui].new = {}
    BY <1>1 DEF UpdateVisible, Resting, RestInv
  <1>3. CASE UNCHANGED <<pc, tx>>
    BY <1>2, <1>3, StageQuiet DEF Fresh
  <1>4. CASE ~UNCHANGED <<pc, tx>>
    <2>1. /\ tx' = [tx EXCEPT ![Gui].of = l] /\ pc' = [pc EXCEPT ![Gui] = "reset"]
          /\ "PluginEnd" \in status[l]
      BY <1>2, <1>4 DEF UpdateVisible, Has
    <2>2. tx \in [Thread -> Transition] /\ tx[Gui] \in Transition
      BY <1>1 DEF TypeOK
    <2>3. tx'[Gui] = [tx[Gui] EXCEPT !.of = l] /\ \A k \in Loaders : tx'[k] = tx[k]
      BY <1>1, <2>1, <2>2
    <2>4. tx'[Gui].bits = {} /\ tx'[Gui].new = {} /\ tx'[Gui].step = "none" /\ tx'[Gui].of = l
      BY <1>2, <2>2, <2>3 DEF Transition
    <2>5. pc'[Gui] = "reset" /\ \A k \in Loaders : pc'[k] = pc[k]
      BY <1>1, <2>1 DEF TypeOK
    <2>6. \A k \in Loaders : GuiCarry(k) = {} /\ GuiCarry(k)' = {}
      BY <1>2, <2>4 DEF GuiCarry, Carried
    <2>7. \A k \in Loaders : Fresh(k)' => Fresh(k)
      BY <1>2, <2>5 DEF Fresh
    <2>8. ASSUME NEW k \in Loaders, k # l
          PROVE  StageOf(k)'
      <3>1. StageOf(k)
        BY DEF PhasesInv, StageInv
      <3> QED BY <1>2, <2>3, <2>4, <2>5, <2>6, <2>7, <2>8, <3>1, StageAway
    <2>9. StageOf(l)'
      <3>1. StageOf(l)
        BY DEF PhasesInv, StageInv
      <3>2. Kept(l) => Kept(l)'
        BY <1>2 DEF Kept
      <3>3. tasks[l] = 0 => BeforeTask(l)'
        BY <1>2, <2>1, <2>3, <2>5, <2>6, <3>1 DEF StageOf, BeforeTask, Resting
      <3>4. StaysForgotten(l)' /\ AfterBuild(l)'
        BY <1>2, <2>3, <2>4, <2>5, <2>6, <3>1, <3>2 DEF StageOf, StaysForgotten, AfterBuild, Built
      <3> QED BY <1>2, <2>4, <2>5, <2>7, <3>1, <3>3, <3>4 DEF StageOf
    <2>10. StageInv'
      BY <1>2, <2>5, <2>8, <2>9 DEF PhasesInv, StageInv
    <2>11. \A k \in Loaders : PhaseOf(k)' = PhaseOf(k)
      BY <1>2, <2>6, SamePhase
    <2>12. [Phases!Next]_(Phases!vars)
      BY <1>2, <2>11, OneMoves DEF MayMove
    <2> QED BY <2>10, <2>12
  <1> QED BY <1>3, <1>4

\* Then it empties the status, and puts back what it read: only a plugin without a main
\* object comes here, and one without a task has ended.
LEMMA StageReset ==
  ASSUME TypeOK, TypeOK', RestInv, PhasesInv, OneTask, ResetRead \/ ResetStore,
         NEW g, g = tx[Gui].of
  PROVE  StageInv' /\ [Phases!Next]_(Phases!vars)
  <1> USE DEF guiVars, envVars, phaseVars
  <1>1. Gui \in Thread /\ g \in Loaders /\ \A k \in Loaders : k \in Thread /\ k # Gui
    BY DEF Thread, TypeOK, Transition
  <1>2. /\ UNCHANGED <<pool, tasks, data, unloaded, navFinished, allLoadFinished>>
        /\ pc[Gui] \in {"reset", "clear"} /\ tx[Gui].step = "none" /\ tx[Gui].new = {}
        /\ pc'[Gui] = IF pc[Gui] = "reset" THEN "clear" ELSE "resume"
        /\ \A k \in Loaders : pc'[k] = pc[k]
    <2>1. UNCHANGED <<pool, tasks, data, unloaded, navFinished, allLoadFinished>>
      BY DEF ResetRead, ResetStore
    <2>2. pc[Gui] \in {"reset", "clear"} /\ tx[Gui].step = "none" /\ tx[Gui].new = {}
      BY <1>1 DEF ResetRead, ResetStore, RestInv
    <2>3. pc' = [pc EXCEPT ![Gui] = IF pc[Gui] = "reset" THEN "clear" ELSE "resume"]
      BY DEF ResetRead, ResetStore
    <2>4. /\ pc'[Gui] = IF pc[Gui] = "reset" THEN "clear" ELSE "resume"
          /\ \A k \in Loaders : pc'[k] = pc[k]
      BY <1>1, <2>3 DEF TypeOK
    <2> QED BY <2>1, <2>2, <2>4
  <1>3. /\ tx'[Gui].of = g /\ tx'[Gui].new = {} /\ \A k \in Loaders : tx'[k] = tx[k]
        /\ ResetRead => /\ tx[Gui].bits = {} /\ tx'[Gui].bits = status[g] \ {"PluginEnd"}
                        /\ tx'[Gui].step = "none" /\ UNCHANGED status /\ pc[Gui] = "reset"
        /\ ResetStore => /\ tx'[Gui].bits = tx[Gui].bits /\ tx'[Gui].step = "load"
                         /\ status'[g] = {} /\ pc[Gui] = "clear"
                         /\ \A k \in Loaders : k # g => status'[k] = status[k]
    <2>1. tx \in [Thread -> Transition] /\ tx[Gui] \in Transition
      BY <1>1 DEF TypeOK
    <2>2. CASE ResetRead
      <3>1. pc[Gui] = "reset" /\ tx' = [tx EXCEPT ![Gui].bits = status[g] \ {"PluginEnd"}] /\ UNCHANGED status
        BY <2>2 DEF ResetRead
      <3>2. tx'[Gui] = [tx[Gui] EXCEPT !.bits = status[g] \ {"PluginEnd"}] /\ \A k \in Loaders : tx'[k] = tx[k]
        BY <1>1, <2>1, <3>1
      <3>3. tx[Gui].bits = {}
        BY <1>1, <1>2, <3>1 DEF RestInv
      <3>4. ~ResetStore
        BY <3>1 DEF ResetStore
      <3> QED BY <1>2, <2>1, <3>1, <3>2, <3>3, <3>4 DEF Transition
    <2>3. CASE ResetStore
      <3>1. pc[Gui] = "clear" /\ tx' = [tx EXCEPT ![Gui].step = "load", ![Gui].old = {}]
            /\ status' = [status EXCEPT ![g] = {}]
        BY <2>3 DEF ResetStore
      <3>2. tx'[Gui] = [tx[Gui] EXCEPT !.step = "load", !.old = {}] /\ \A k \in Loaders : tx'[k] = tx[k]
        BY <1>1, <2>1, <3>1
      <3>3. status'[g] = {} /\ \A k \in Loaders : k # g => status'[k] = status[k]
        BY <1>1, <3>1 DEF TypeOK
      <3>4. ~ResetRead
        BY <3>1 DEF ResetRead
      <3>5. DOMAIN tx[Gui] = {"step", "of", "bits", "old", "new"}
        BY <2>1 DEF Transition
      <3> DEFINE r == [tx[Gui] EXCEPT !.step = "load"]
      <3>6. /\ DOMAIN r = {"step", "of", "bits", "old", "new"} /\ r.of = tx[Gui].of
            /\ r.bits = tx[Gui].bits /\ r.new = tx[Gui].new /\ r.step = "load"
        BY <3>5
      <3>7. tx'[Gui] = [r EXCEPT !.old = {}]
        BY <3>2
      <3> HIDE DEF r
      <3>8. /\ tx'[Gui].of = g /\ tx'[Gui].new = {} /\ tx'[Gui].bits = tx[Gui].bits
            /\ tx'[Gui].step = "load"
        BY <1>2, <3>6, <3>7
      <3> QED BY <3>1, <3>2, <3>3, <3>4, <3>8
    <2> QED BY <2>2, <2>3
  <1>4. /\ \A k \in Loaders : k # g => GuiCarry(k) = {} /\ GuiCarry(k)' = {} /\ status'[k] = status[k]
        /\ GuiCarry(g) = tx[Gui].bits /\ GuiCarry(g)' = tx'[Gui].bits
        /\ Carried(Gui) = tx[Gui].bits /\ Carried(Gui)' = tx'[Gui].bits
    BY <1>2, <1>3 DEF GuiCarry, Carried
  <1>5. \A k \in Loaders : Fresh(k)' => Fresh(k)
    BY <1>2 DEF Fresh
  <1>6. ASSUME NEW k \in Loaders, k # g
        PROVE  StageOf(k)' /\ PhaseOf(k)' = PhaseOf(k)
    <2>1. StageOf(k)
      BY DEF PhasesInv, StageInv
    <2>2. StageOf(k)'
      BY <1>2, <1>3, <1>4, <1>5, <1>6, <2>1, StageAway
    <2>3. PhaseOf(k)' = PhaseOf(k)
      BY <1>2, <1>4, <1>6, SamePhase
    <2> QED BY <2>2, <2>3
  <1>7. StageOf(g) /\ ~Built(g) /\ ~Built(g)' /\ (tasks[g] = 0 \/ tasks[g] = 1)
    <2>1. ~Built(g)
      BY <1>1, <1>2, BuiltFacts DEF PhasesInv
    <2>2. ~Built(g)'
      BY <1>3, <1>4, <2>1 DEF Built
    <2>3. tasks[g] = 0 \/ tasks[g] = 1
      <3>1. tasks[g] \in Nat /\ tasks[g] <= 1
        BY <1>1 DEF TypeOK, OneTask
      <3> QED BY <3>1
    <2> QED BY <1>1, <2>1, <2>2, <2>3 DEF PhasesInv, StageInv
  <1>8. StageOf(g)' /\ MayMove(PhaseOf(g), PhaseOf(g)', data[g])
    <2>1. AfterBuild(g)'
      BY <1>7 DEF AfterBuild
    <2>2. CASE ResetRead
      <3>1. Kept(g) => Kept(g)'
        BY <1>2, <1>3, <2>2 DEF Kept
      <3>2. tasks[g] = 0 => BeforeTask(g)'
        BY <1>1, <1>2, <1>3, <1>4, <1>7, <2>2 DEF StageOf, BeforeTask, Resting
      <3>3. "DataBegin" \in status[g] => Kept(g)
        BY DEF Kept
      <3>4. StaysForgotten(g)'
        BY <1>1, <1>2, <1>3, <1>4, <1>7, <2>2, <3>1, <3>3 DEF StageOf, StaysForgotten, Kept
      <3>5. StageOf(g)'
        BY <1>1, <1>2, <1>3, <1>5, <1>7, <2>1, <2>2, <3>2, <3>4 DEF StageOf
      <3>6. PhaseOf(g)' = PhaseOf(g)
        BY <1>1, <1>2, <1>3, <1>4, <2>2, SamePhase
      <3> QED BY <3>5, <3>6 DEF MayMove
    <2>3. CASE ResetStore
      <3>1. tasks[g] = 0 => BeforeTask(g)'
        BY <1>1, <1>2, <1>3, <1>4, <1>7, <2>3 DEF StageOf, BeforeTask, Resting
      <3>2. "DataBegin" \in Carried(Gui) => Kept(g)'
        BY <1>3, <1>4, <2>3 DEF Kept
      <3>3. StaysForgotten(g)'
        BY <1>1, <1>2, <1>3, <1>4, <1>7, <2>3, <3>2 DEF StageOf, StaysForgotten
      <3>4. unloaded = {}
        BY <1>2 DEF PhasesInv, StageInv
      <3>5. StageOf(g)'
        BY <1>1, <1>2, <1>3, <1>5, <1>7, <2>1, <2>3, <3>1, <3>3, <3>4 DEF StageOf
      <3>6. /\ PhaseOf(g) = Stage(tasks[g], status[g], GuiCarry(g))
            /\ PhaseOf(g)' = Stage(tasks[g], {}, GuiCarry(g))
        <4>1. tasks[g] \in Nat /\ tasks'[g] \in Nat /\ tasks'[g] = tasks[g]
          BY <1>1, <1>2 DEF TypeOK
        <4>2. status'[g] = {} /\ GuiCarry(g)' = GuiCarry(g)
          BY <1>3, <1>4, <2>3
        <4> QED BY <1>1, <4>1, <4>2, PhaseIs
      <3>7. CASE tasks[g] = 0
        <4>1. "PluginEnd" \in status[g]
          BY <1>2, <1>7, <3>7 DEF StageOf, BeforeTask
        <4> QED BY <3>5, <3>6, <3>7, <4>1, MovesBefore
      <3>8. CASE tasks[g] = 1
        <4>1. "MainObjLoad" \notin status[g]
          BY <1>7 DEF Built
        <4> QED BY <3>5, <3>6, <3>8, <4>1, MovesAfter
      <3> QED BY <1>7, <3>7, <3>8
    <2> QED BY <2>2, <2>3
  <1>9. StageInv'
    BY <1>2, <1>6, <1>8 DEF PhasesInv, StageInv
  <1>10. [Phases!Next]_(Phases!vars)
    BY <1>1, <1>2, <1>6, <1>8, OneMoves
  <1> QED BY <1>9, <1>10

\* loadModules starts a plugin.
LEMMA StageStart ==
  ASSUME TypeOK, TypeOK', RestInv, PhasesInv, NEW l \in Loaders, StartLoader(l)
  PROVE  StageInv' /\ [Phases!Next]_(Phases!vars)
  <1> USE DEF guiVars, envVars, phaseVars
  <1>1. /\ UNCHANGED <<tx, pc, pool, tasks, data, navFinished, allLoadFinished>> /\ pc[Gui] = "start"
        /\ l \in unloaded /\ unloaded' = unloaded \ {l}
        /\ status' = [status EXCEPT ![l] = MetaDataBits(l)]
    BY DEF StartLoader
  <1>2. status'[l] = MetaDataBits(l) /\ \A k \in Loaders : k # l => status'[k] = status[k]
    BY <1>1 DEF TypeOK
  <1>3. Resting(Gui) /\ tasks[l] = 0 /\ status[l] = {} /\ StageOf(l)
    BY <1>1 DEF PhasesInv, MainInv, StageInv, StageOf
  <1>4. \A k \in Loaders : GuiCarry(k) = {} /\ GuiCarry(k)' = {}
    BY <1>1, <1>3 DEF RestInv, Resting, GuiCarry, Carried, Thread
  <1>5. \A k \in Loaders : Fresh(k)' <=> Fresh(k)
    BY <1>1 DEF Fresh
  <1>6. ASSUME NEW k \in Loaders, k # l
        PROVE  StageOf(k)' /\ PhaseOf(k)' = PhaseOf(k)
    <2>1. StageOf(k)
      BY DEF PhasesInv, StageInv
    <2>2. StageOf(k)'
      BY <1>1, <1>2, <1>5, <1>6, <2>1, StageFrame
    <2>3. PhaseOf(k)' = PhaseOf(k)
      BY <1>1, <1>2, <1>4, <1>6, SamePhase
    <2> QED BY <2>2, <2>3
  <1>7. "DataBegin" \notin MetaDataBits(l) /\ "MainObjLoad" \notin MetaDataBits(l)
    BY DEF MetaDataBits
  <1>8. StageOf(l)'
    <2>1. ~Kept(l) /\ ~Built(l)'
      BY <1>1, <1>2, <1>3, <1>4, <1>7 DEF Kept, Resting, Built
    <2>2. BeforeTask(l)'
      BY <1>1, <1>2, <1>3, <1>4, <1>7 DEF StageOf, BeforeTask, Resting
    <2>3. StaysForgotten(l)'
      BY <1>1, <1>3, <2>1 DEF StageOf, StaysForgotten, Resting
    <2>4. AfterBuild(l)'
      BY <2>1 DEF AfterBuild
    <2> QED BY <1>1, <1>3, <1>5, <2>2, <2>3, <2>4 DEF StageOf, Resting
  <1>9. StageInv'
    BY <1>1, <1>3, <1>6, <1>8 DEF StageInv, Resting
  <1>10. MayMove(PhaseOf(l), PhaseOf(l)', data[l])
    <2>1. PhaseOf(l) = Stage(0, {}, {}) /\ PhaseOf(l)' = Stage(0, MetaDataBits(l), {})
      <3>1. tasks[l] \in Nat /\ tasks'[l] \in Nat /\ tasks'[l] = 0
        BY <1>1, <1>3
      <3> QED BY <1>2, <1>3, <1>4, <3>1, PhaseIs
    <2> QED BY <2>1, MovesBefore
  <1>11. [Phases!Next]_(Phases!vars)
    BY <1>1, <1>6, <1>10, OneMoves
  <1> QED BY <1>9, <1>11

\* The GUI thread advances a plugin: a transition begins, and no phase ends yet.
LEMMA StageAdvance ==
  ASSUME TypeOK, TypeOK', RestInv, PhasesInv, NEW l \in Loaders,
         \/ AddMain(l) \/ StartMain(l) \/ StartModule(l) \/ LoadMetaData(l)
         \/ l = tx[Gui].of /\ (LoadMain \/ LoadModule)
  PROVE  StageInv' /\ [Phases!Next]_(Phases!vars)
  <1> USE DEF guiVars, envVars, phaseVars
  <1>1. Gui \in Thread /\ \A k \in Loaders : k \in Thread /\ k # Gui
    BY DEF Thread
  <1>2. /\ UNCHANGED <<status, tasks, data, pool, unloaded, navFinished, allLoadFinished>>
        /\ Resting(Gui) /\ pc[Gui] \in {"idle", "main", "module"}
    BY DEF AddMain, StartMain, StartModule, LoadMetaData, LoadMain, LoadModule, Dispatch, Delivered, Idle
  <1>3. pc'[Gui] \in {"idle", "main", "module"} /\ \A k \in Loaders : pc'[k] = pc[k]
    <2>1. \/ pc' = pc \/ pc' = [pc EXCEPT ![Gui] = "main"] \/ pc' = [pc EXCEPT ![Gui] = "module"]
          \/ pc' = [pc EXCEPT ![Gui] = "idle"]
      BY DEF AddMain, StartMain, StartModule, LoadMetaData, LoadMain, LoadModule
    <2> QED BY <1>1, <1>2, <2>1 DEF TypeOK
  <1>4. StageOf(l) /\ (tasks[l] = 0 => BeforeTask(l) /\ "DataBegin" \notin status[l])
    BY DEF PhasesInv, StageInv, StageOf, BeforeTask
  <1>5. \E bits \in SUBSET Bit :
          /\ Begin(Gui, l, bits) /\ "DataBegin" \notin bits
          /\ tasks[l] = 0 /\ "PluginEnd" \in bits => "PluginEnd" \in status[l] \/ "ModuleEnd" \notin status[l]
          /\ tasks[l] = 0 /\ pc'[Gui] = "module" => "ModuleEnd" \notin status[l] \cup bits
          /\ "MainObjLoad" \in bits => "PluginEnd" \notin status[l] \cup bits
    <2>1. CASE AddMain(l)
      <3>1. Begin(Gui, l, {"PluginEnd"}) /\ pc'[Gui] # "module" /\ {"PluginEnd"} \in SUBSET Bit
        BY <2>1 DEF AddMain, Dispatch, Delivered, Idle, Bit
      <3>2. MainStarted(l)
        BY <2>1 DEF AddMain, Has, MainStarted, MainBits
      <3>3. tasks[l] # 0
        BY <3>2 DEF PhasesInv, MainInv, MainOf, DataInv, Fresh, Clean, Final
      <3> QED BY <3>1, <3>3
    <2>2. CASE StartMain(l)
      <3>1. Begin(Gui, l, {"MainObjLoad"}) /\ "PluginEnd" \notin status[l] /\ {"MainObjLoad"} \in SUBSET Bit
        BY <2>2 DEF StartMain, Has, Bit
      <3>2. pc'[Gui] # "module"
        BY <1>1, <2>2 DEF StartMain, TypeOK
      <3> QED BY <3>1, <3>2
    <2>3. CASE StartModule(l)
      <3>1. Begin(Gui, l, {"ModuleLoad"}) /\ ~ModuleReady(l) /\ {"ModuleLoad"} \in SUBSET Bit
        BY <2>3 DEF StartModule, Bit
      <3> QED BY <1>4, <3>1 DEF ModuleReady, Has
    <2>4. CASE LoadMetaData(l)
      <3>1. Begin(Gui, l, MetaDataBits(l)) /\ ~ModuleReady(l) /\ MetaDataBits(l) \in SUBSET Bit
        BY <2>4 DEF LoadMetaData, Bit, MetaDataBits
      <3>2. \A b \in {"DataBegin", "MainObjLoad", "ModuleEnd"} : b \notin MetaDataBits(l)
        BY DEF MetaDataBits
      <3> QED BY <1>4, <3>1, <3>2 DEF ModuleReady, Has
    <2>5. CASE l = tx[Gui].of /\ LoadMain
      <3>1. Begin(Gui, l, {"MainObjEnd"}) /\ {"MainObjEnd"} \in SUBSET Bit
        BY <2>5 DEF LoadMain, Bit
      <3>2. pc'[Gui] # "module"
        BY <1>1, <2>5 DEF LoadMain, TypeOK
      <3> QED BY <3>1, <3>2
    <2>6. CASE l = tx[Gui].of /\ LoadModule
      <3>1. /\ pc[Gui] = "module"
            /\ Begin(Gui, l, {"ModuleEnd"}) \/ Begin(Gui, l, {"ModuleEnd", "PluginEnd"})
            /\ {"ModuleEnd"} \in SUBSET Bit /\ {"ModuleEnd", "PluginEnd"} \in SUBSET Bit
        BY <2>6 DEF LoadModule, Bit
      <3>2. pc'[Gui] # "module"
        BY <1>1, <2>6 DEF LoadModule, TypeOK
      <3>3. tasks[l] = 0 => "ModuleEnd" \notin status[l]
        BY <1>4, <2>6, <3>1 DEF BeforeTask
      <3> QED BY <3>1, <3>2, <3>3
    <2> QED BY <2>1, <2>2, <2>3, <2>4, <2>5, <2>6
  <1>6. \A k \in Loaders : StageOf(k)' /\ PhaseOf(k)' = PhaseOf(k)
    BY <1>2, <1>3, <1>5, StageBegin
  <1>7. StageInv'
    BY <1>2, <1>3, <1>6 DEF PhasesInv, StageInv
  <1>8. [Phases!Next]_(Phases!vars)
    BY <1>2, <1>6, OneMoves DEF MayMove
  <1> QED BY <1>7, <1>8

\* A step of l's task disturbs no other plugin.
LEMMA StageTaskFrame ==
  ASSUME TypeOK, TypeOK', PhasesInv, NEW l \in Loaders,
         UNCHANGED <<tasks, unloaded>>, pool' \subseteq pool,
         \A u \in Thread \ {l} : pc'[u] = pc[u] /\ tx'[u] = tx[u],
         \A k \in Loaders \ {l} : status'[k] = status[k] /\ data'[k] = data[k],
         StageOf(l)'
  PROVE  StageInv' /\ \A k \in Loaders \ {l} : PhaseOf(k)' = PhaseOf(k)
  <1>1. Gui \in Thread \ {l} /\ \A k \in Loaders \ {l} : k \in Thread \ {l}
    BY DEF Thread
  <1>2. ASSUME NEW k \in Loaders \ {l}
        PROVE  StageOf(k)' /\ PhaseOf(k)' = PhaseOf(k)
    <2>1. StageOf(k) /\ (Fresh(k)' => Fresh(k))
      BY <1>1 DEF PhasesInv, StageInv, Fresh
    <2>2. GuiCarry(k)' = GuiCarry(k)
      BY <1>1 DEF GuiCarry, Carried
    <2>3. StageOf(k)'
      BY <1>1, <2>1, StageFrame
    <2>4. PhaseOf(k)' = PhaseOf(k)
      BY <2>2, SamePhase
    <2> QED BY <2>3, <2>4
  <1> QED BY <1>1, <1>2 DEF PhasesInv, StageInv, Resting

\* A step of transitionStatus by l's task: it brings back no forgotten DataBegin, and there
\* is no main object yet when it stores.
LEMMA StageTaskTransition ==
  ASSUME TypeOK, TypeOK', RestInv, PhasesInv, OneTask, NEW l \in Loaders, TransitionStep(l)
  PROVE  StageInv' /\ [Phases!Next]_(Phases!vars)
  <1>1. Gui \in Thread /\ l \in Thread /\ l # Gui /\ \A k \in Loaders : k \in Thread
    BY DEF Thread
  <1>2. /\ UNCHANGED <<pc, pool, tasks, data, unloaded, navFinished, allLoadFinished>>
        /\ tx[l].of = l /\ tx'[l].of = l /\ tx[l].step # "none"
        /\ \A u \in Thread \ {l} : tx'[u] = tx[u]
    <2>1. UNCHANGED <<unloaded, navFinished, allLoadFinished>> /\ tx[l].step # "none"
      BY DEF TransitionStep, TxLoad, TxStore, TxCheck, guiVars, phaseVars
    <2> QED BY <1>1, <2>1, TransitionEffect DEF PhasesInv, DataInv, TaskInv
  <1>3. \A k \in Loaders \ {l} : status'[k] = status[k]
    BY <1>1, <1>2, TransitionEffect DEF TransitionStep
  <1>4. tx'[Gui] = tx[Gui] /\ GuiCarry(l)' = GuiCarry(l) /\ Carried(Gui)' = Carried(Gui)
    BY <1>1, <1>2 DEF GuiCarry, Carried
  <1>5. StageOf(l) /\ tasks[l] = 1
    <2>1. StageOf(l) /\ tasks[l] # 0
      BY <1>2 DEF PhasesInv, StageInv, StageOf, BeforeTask, Resting
    <2>2. tasks[l] \in Nat /\ tasks[l] <= 1
      BY DEF TypeOK, OneTask
    <2> QED BY <2>1, <2>2
  <1>6. Fresh(l)' <=> Fresh(l)
    BY <1>2 DEF Fresh
  <1>7. ASSUME StageOf(l)', MayMove(PhaseOf(l), PhaseOf(l)', data[l])
        PROVE  StageInv' /\ [Phases!Next]_(Phases!vars)
    <2>1. StageInv' /\ \A k \in Loaders \ {l} : PhaseOf(k)' = PhaseOf(k)
      BY <1>2, <1>3, <1>7, StageTaskFrame
    <2>2. [Phases!Next]_(Phases!vars)
      BY <1>2, <1>7, <2>1, OneMoves
    <2> QED BY <2>1, <2>2
  <1>8. CASE TxLoad(l)
    <2>1. /\ tx[l].step = "load" /\ tx'[l].step = "store" /\ tx'[l].bits = tx[l].bits
          /\ tx'[l].new = status[l] \cup tx[l].bits /\ UNCHANGED status
      BY <1>1, <1>2, <1>8, TransitionEffect
    <2>2. (Kept(l)' <=> Kept(l)) /\ (Built(l)' <=> Built(l)) /\ ("DataBegin" \in status[l] => Kept(l))
      BY <1>2, <1>4, <2>1 DEF Kept, Built
    <2>3. StaysForgotten(l)'
      BY <1>2, <1>4, <1>5, <2>1, <2>2 DEF StageOf, StaysForgotten
    <2>4. AfterBuild(l)'
      BY <1>4, <1>5, <2>1, <2>2 DEF StageOf, AfterBuild
    <2>5. StageOf(l)'
      BY <1>2, <1>4, <1>5, <1>6, <2>1, <2>2, <2>3, <2>4 DEF StageOf
    <2>6. PhaseOf(l)' = PhaseOf(l)
      BY <1>2, <1>4, <2>1, SamePhase
    <2> QED BY <1>7, <2>5, <2>6 DEF MayMove
  <1>9. CASE TxStore(l)
    <2>1. /\ tx[l].step = "store" /\ tx'[l].step = "check" /\ tx'[l].bits = tx[l].bits
          /\ tx'[l].new = {} /\ status'[l] = tx[l].new
      BY <1>1, <1>2, <1>9, TransitionEffect
    <2>2. ~Built(l) /\ ~Built(l)' /\ "MainObjLoad" \notin status[l] \cup status'[l]
      <3>1. ~Built(l)
        BY <2>1, BuiltFacts DEF PhasesInv
      <3>2. "MainObjLoad" \notin tx[l].new
        BY DEF PhasesInv, MainInv, MainOf, MainBits, Carried
      <3> QED BY <1>4, <2>1, <3>1, <3>2 DEF Built
    <2>3. StaysForgotten(l)'
      BY <1>2, <1>4, <1>5, <2>1 DEF StageOf, StaysForgotten
    <2>4. unloaded = {}
      BY <1>5 DEF PhasesInv, MainInv, StageInv
    <2>5. StageOf(l)'
      BY <1>2, <1>4, <1>5, <1>6, <2>1, <2>2, <2>3, <2>4 DEF StageOf, AfterBuild
    <2>6. "DataBegin" \notin status[l] \cup GuiCarry(l) => "DataBegin" \notin tx[l].new
      <3>1. "DataBegin" \notin status[l] \cup GuiCarry(l) => ~Kept(l)
        BY DEF Kept, GuiCarry
      <3> QED BY <1>5, <3>1 DEF StageOf, StaysForgotten
    <2>7. /\ PhaseOf(l) = Stage(1, status[l], GuiCarry(l))
          /\ PhaseOf(l)' = Stage(1, tx[l].new, GuiCarry(l))
      <3>1. tasks[l] \in Nat /\ tasks'[l] \in Nat /\ tasks'[l] = 1
        BY <1>2, <1>5
      <3> QED BY <1>4, <1>5, <2>1, <3>1, PhaseIs
    <2>8. MayMove(Stage(1, status[l], GuiCarry(l)), Stage(1, tx[l].new, GuiCarry(l)), data[l])
      BY <2>1, <2>2, <2>6, MovesAfter
    <2> QED BY <1>7, <2>5, <2>7, <2>8
  <1>10. CASE TxCheck(l)
    <2>1. /\ tx'[l].step = "none" /\ tx'[l].bits = {} /\ tx'[l].new = tx[l].new /\ UNCHANGED status
      BY <1>1, <1>2, <1>10, TransitionEffect
    <2>2. (Kept(l)' <=> Kept(l)) /\ (Built(l)' <=> Built(l))
      BY <1>2, <1>4, <2>1 DEF Kept, Built
    <2>3. StaysForgotten(l)' /\ AfterBuild(l)'
      BY <1>2, <1>4, <1>5, <2>1, <2>2 DEF StageOf, StaysForgotten, AfterBuild
    <2>4. StageOf(l)'
      BY <1>2, <1>4, <1>5, <1>6, <2>1, <2>2, <2>3 DEF StageOf
    <2>5. PhaseOf(l)' = PhaseOf(l)
      BY <1>2, <1>4, <2>1, SamePhase
    <2> QED BY <1>7, <2>4, <2>5 DEF MayMove
  <1> QED BY <1>8, <1>9, <1>10 DEF TransitionStep

\* Every step of LoadDataTask: the data object is created while the plugin loads its data,
\* or after it has been interrupted or forgotten.
LEMMA StageTask ==
  ASSUME TypeOK, TypeOK', RestInv, PhasesInv, OneTask, NEW l \in Loaders, TaskStep(l)
  PROVE  StageInv' /\ [Phases!Next]_(Phases!vars)
  <1> USE DEF guiVars, envVars, phaseVars
  <1>1. Gui \in Thread /\ l \in Thread /\ l # Gui /\ \A k \in Loaders : k \in Thread
    BY DEF Thread
  <1>2. StageOf(l) /\ TaskInv(l)
    BY DEF PhasesInv, StageInv, DataInv
  <1>3. CASE TransitionStep(l)
    BY <1>3, StageTaskTransition
  <1>4. CASE TaskStart(l) \/ TaskEnd(l) \/ (CreateData(l) /\ UNCHANGED <<tx, data>>)
    <2>1. /\ UNCHANGED <<status, tx, tasks, data, unloaded, navFinished, allLoadFinished>>
          /\ pool' \subseteq pool
      BY <1>4 DEF TaskStart, TaskEnd, CreateData
    <2>2. \A u \in Thread \ {l} : pc'[u] = pc[u]
      BY <1>1, <1>4 DEF TaskStart, TaskEnd, CreateData, TypeOK
    <2>3. ASSUME NEW k \in Loaders, Fresh(k)', pc'[k] # "created"
          PROVE  Fresh(k) /\ pc[k] # "created"
      <3>1. CASE k # l
        BY <1>1, <2>1, <2>2, <2>3, <3>1 DEF Fresh
      <3>2. CASE k = l
        <4>1. TaskStart(l) => l \in pool /\ pc[l] = "off"
          BY DEF TaskStart
        <4>2. TaskEnd(l) => pc[l] = "ended" /\ pc'[l] = "off" /\ pool' = pool
          BY <1>1 DEF TaskEnd, TypeOK
        <4>3. CreateData(l) => pc[l] = "loaded"
          BY DEF CreateData
        <4> QED BY <1>4, <2>1, <2>3, <3>2, <4>1, <4>2, <4>3 DEF Fresh
      <3> QED BY <3>1, <3>2
    <2>4. pc'[Gui] = pc[Gui]
      BY <1>1, <2>2
    <2> QED BY <2>1, <2>3, <2>4, StageQuiet
  <1>5. ASSUME UNCHANGED <<status, tasks, pool, unloaded, navFinished, allLoadFinished>>,
               \A u \in Thread \ {l} : pc'[u] = pc[u] /\ tx'[u] = tx[u],
               \A k \in Loaders \ {l} : data'[k] = data[k],
               tx'[l] = tx[l] \/ (tx'[l].bits \cap {"DataBegin"} = {} /\ tx'[l].new = {}),
               pc[l] \in {"library", "broken", "loaded", "created"},
               Fresh(l)' /\ pc'[l] # "created" => data'[l] = "none"
        PROVE  /\ StageInv' /\ (data' = data => [Phases!Next]_(Phases!vars))
               /\ PhaseOf(l) \in {"data", "interrupted", "lost"}
               /\ \A k \in Loaders : PhaseOf(k)' = PhaseOf(k)
    <2>1. tx'[Gui] = tx[Gui] /\ GuiCarry(l)' = GuiCarry(l) /\ Carried(Gui)' = Carried(Gui) /\ pc'[Gui] = pc[Gui]
      BY <1>1, <1>5 DEF GuiCarry, Carried
    <2>2. tasks[l] # 0 /\ Fresh(l)
      BY <1>2, <1>5 DEF TaskInv, Fresh
    <2>3. (Kept(l)' <=> Kept(l)) /\ (Built(l)' <=> Built(l))
      BY <1>5, <2>1 DEF Kept, Built
    <2>4. StaysForgotten(l)' /\ AfterBuild(l)'
      BY <1>2, <1>5, <2>1, <2>3 DEF StageOf, StaysForgotten, AfterBuild
    <2>5. StageOf(l)'
      BY <1>2, <1>5, <2>1, <2>2, <2>3, <2>4 DEF StageOf
    <2>6. StageInv' /\ \A k \in Loaders \ {l} : PhaseOf(k)' = PhaseOf(k)
      BY <1>5, <2>5, StageTaskFrame
    <2>7. PhaseOf(l)' = PhaseOf(l)
      BY <1>5, <2>1, SamePhase
    <2>8. PhaseOf(l) \in {"data", "interrupted", "lost"}
      <3>1. "MainObjLoad" \notin status[l]
        BY <2>2 DEF PhasesInv, DataInv, Clean, Final
      <3>2. tasks[l] \in Nat /\ tasks'[l] \in Nat
        BY DEF TypeOK
      <3>3. PhaseOf(l) = Stage(tasks[l], status[l], GuiCarry(l))
        BY <3>2, PhaseIs
      <3>4. \A c : Stage(tasks[l], status[l], c) \in {"data", "interrupted", "lost"}
        BY <2>2, <3>1 DEF Stage
      <3> QED BY <3>3, <3>4
    <2>9. data' = data => [Phases!Next]_(Phases!vars)
      BY <1>5, <2>6, <2>7, OneMoves DEF MayMove
    <2> QED BY <2>6, <2>7, <2>8, <2>9
  <1>6. ASSUME NEW bits \in SUBSET Bit, "DataBegin" \notin bits, Begin(l, l, bits)
        PROVE  /\ \A u \in Thread \ {l} : tx'[u] = tx[u]
               /\ tx'[l].bits \cap {"DataBegin"} = {} /\ tx'[l].new = {}
    BY <1>1, <1>6, BeginEffect
  <1>7. /\ {"DataErr"} \in SUBSET Bit /\ {"DataLoad"} \in SUBSET Bit /\ {"DataEnd"} \in SUBSET Bit
        /\ "DataBegin" \notin {"DataErr"} /\ "DataBegin" \notin {"DataLoad"} /\ "DataBegin" \notin {"DataEnd"}
    BY DEF Bit
  <1>8. CASE LoadLibrary(l) \/ LibraryBroken(l) \/ (CreateData(l) /\ ~UNCHANGED tx)
    <2>1. /\ UNCHANGED <<status, tasks, pool, data, unloaded, navFinished, allLoadFinished>>
          /\ pc[l] \in {"library", "broken", "loaded"}
          /\ Begin(l, l, {"DataErr"}) \/ Begin(l, l, {"DataLoad"})
      BY <1>8 DEF LoadLibrary, LibraryBroken, CreateData
    <2>2. \A u \in Thread \ {l} : pc'[u] = pc[u]
      BY <1>1, <1>8 DEF LoadLibrary, LibraryBroken, CreateData, TypeOK
    <2>3. data'[l] = "none"
      BY <1>2, <2>1 DEF StageOf, Fresh
    <2> QED BY <1>5, <1>6, <1>7, <2>1, <2>2, <2>3
  <1>9. CASE CreateData(l) /\ ~UNCHANGED data
    <2>1. /\ UNCHANGED <<status, tx, tasks, pool, unloaded, navFinished, allLoadFinished>>
          /\ pc[l] = "loaded" /\ pc' = [pc EXCEPT ![l] = "created"] /\ data' = [data EXCEPT ![l] = "worker"]
      BY <1>9 DEF CreateData
    <2>2. /\ pc'[l] = "created" /\ \A u \in Thread \ {l} : pc'[u] = pc[u]
          /\ \A k \in Loaders \ {l} : data'[k] = data[k]
      BY <1>1, <2>1 DEF TypeOK
    <2>3. StageInv' /\ PhaseOf(l) \in {"data", "interrupted", "lost"} /\ \A k \in Loaders : PhaseOf(k)' = PhaseOf(k)
      BY <1>5, <2>1, <2>2
    <2>4. data[l] = "none"
      BY <1>2, <2>1 DEF StageOf, Fresh
    <2> DEFINE f == [k \in Loaders |-> PhaseOf(k)]
    <2>5. f[l] \in {"data", "interrupted", "lost"} /\ f' = f
      BY <2>3
    <2>6. Phases!Create(l)
      BY <2>1, <2>4, <2>5 DEF Phases!Create, Phases!Loading
    <2> QED BY <2>3, <2>6 DEF Phases!Next
  <1>10. CASE MoveThread(l)
    <2>1. /\ UNCHANGED <<status, tasks, pool, unloaded, navFinished, allLoadFinished>>
          /\ pc[l] = "created" /\ pc' = [pc EXCEPT ![l] = "ended"]
          /\ data' = [data EXCEPT ![l] = IF data[l] = "worker" THEN "gui" ELSE data[l]]
          /\ Begin(l, l, {"DataEnd"})
      BY <1>10 DEF MoveThread
    <2>2. /\ pc'[l] = "ended" /\ \A u \in Thread \ {l} : pc'[u] = pc[u]
          /\ \A k \in Loaders \ {l} : data'[k] = data[k]
      BY <1>1, <2>1 DEF TypeOK
    <2>3. ~Fresh(l)'
      BY <1>2, <2>1, <2>2 DEF TaskInv, Fresh
    <2>4. /\ StageInv' /\ (data' = data => [Phases!Next]_(Phases!vars))
          /\ PhaseOf(l) \in {"data", "interrupted", "lost"} /\ \A k \in Loaders : PhaseOf(k)' = PhaseOf(k)
      BY <1>5, <1>6, <1>7, <2>1, <2>2, <2>3
    <2>5. CASE data[l] # "worker"
      <3>1. data' = data
        BY <2>1, <2>5 DEF TypeOK
      <3> QED BY <2>4, <3>1
    <2>6. CASE data[l] = "worker"
      <3> DEFINE f == [k \in Loaders |-> PhaseOf(k)]
      <3>1. f[l] \in {"data", "interrupted", "lost"} /\ f' = f
        BY <2>4
      <3>2. data' = [data EXCEPT ![l] = "gui"]
        BY <2>1, <2>6
      <3>3. Phases!Hand(l)
        BY <2>1, <2>6, <3>1, <3>2 DEF Phases!Hand, Phases!Loading
      <3> QED BY <2>4, <3>3 DEF Phases!Next
    <2> QED BY <2>5, <2>6
  <1> QED BY <1>3, <1>4, <1>8, <1>9, <1>10 DEF TaskStep

\* Every step is one of LoadPhases, or changes nothing there, and keeps what that rests on.
LEMMA NextStage ==
  ASSUME TypeOK, TypeOK', RestInv, PhaseInv, PhasesInv, OneTask, Next
  PROVE  [Phases!Next]_(Phases!vars) /\ (OneTask' => StageInv')
  <1> USE DEF guiVars, envVars, phaseVars
  <1>1. Gui \in Thread /\ \A k \in Loaders : k \in Thread /\ k # Gui
    BY DEF Thread
  <1>2. CASE TransitionStep(Gui)
    <2>1. PICK g, b, n : g = tx[Gui].of /\ b = tx[Gui].bits /\ n = tx[Gui].new
      OBVIOUS
    <2>2. /\ \A k \in Loaders : StageOf(k)' /\ (k # g => PhaseOf(k)' = PhaseOf(k))
          /\ MayMove(PhaseOf(g), PhaseOf(g)', data[g])
      BY <1>2, <2>1, StageGuiTransition
    <2>3. /\ UNCHANGED <<pc, data, unloaded, navFinished, allLoadFinished>> /\ ~Resting(Gui)
          /\ g \in Loaders
      BY <1>1, <1>2, <2>1 DEF TransitionStep, TxLoad, TxStore, TxCheck, Resting, TypeOK, Transition
    <2>4. StageInv'
      BY <2>2, <2>3 DEF PhasesInv, StageInv
    <2> QED BY <2>2, <2>3, <2>4, OneMoves
  <1>3. ASSUME AllStarted \/ FireTimer \/ \E l \in Loaders : FinishPlugin(l) \/ ModuleDone(l)
        PROVE  [Phases!Next]_(Phases!vars) /\ (OneTask' => StageInv')
    <2>1. /\ UNCHANGED <<tx, data, unloaded>> /\ pc[Gui] \in {"start", "idle"} /\ Resting(Gui) /\ unloaded = {}
          /\ pc' = pc \/ pc' = [pc EXCEPT ![Gui] = "idle"] \/ pc' = [pc EXCEPT ![Gui] = "join"]
          /\ AllStarted \/ pc[Gui] = "idle"
      BY <1>3 DEF AllStarted, FireTimer, FinishPlugin, ModuleDone, Dispatch, Delivered, Idle, PhasesInv, StageInv
    <2>2. \A k \in Loaders : pc'[k] = pc[k]
      BY <1>1, <2>1 DEF TypeOK
    <2>3. pc'[Gui] \in {"idle", "join"}
      BY <1>1, <2>1 DEF AllStarted, TypeOK
    <2>4. \E S \in SUBSET Ready : HandOver(S) /\ pool' \subseteq pool \cup S
      BY <1>3 DEF AllStarted, FireTimer, FinishPlugin, ModuleDone, CheckNavigationFinished, TasksToStart
    <2>5. OneTask' => StageInv'
      BY <2>1, <2>2, <2>3, <2>4, StageHandOver
    <2>6. CASE FireTimer
      BY <2>5, <2>6, TimerPhases
    <2>7. CASE ~FireTimer
      <3>1. /\ \E events : CheckNavigationFinished(events)
            /\ UNCHANGED allLoadFinished \/ (AllFinished /\ allLoadFinished' = TRUE)
        BY <1>3, <2>7 DEF AllStarted, FinishPlugin, ModuleDone
      <3>2. [Phases!Next]_(Phases!vars)
        BY <2>1, <3>1, CheckPhases
      <3> QED BY <2>5, <3>2
    <2> QED BY <2>6, <2>7
  <1>4. ASSUME Environment \/ TimerDue \/ Join \/ Resumed \/ \E l \in Loaders : DropEvent(l)
        PROVE  [Phases!Next]_(Phases!vars) /\ StageInv'
    <2>1. /\ UNCHANGED <<status, tx, tasks, data, unloaded, navFinished, allLoadFinished>>
          /\ pool' \subseteq pool /\ pc[Gui] \in {"idle", "join", "joinDelete", "resume"}
      BY <1>4 DEF Environment, ChangeHideModule, BeginDelete, Destroy, ToggleVisible, TimerDue, Join,
                  Resumed, DropEvent, Delivered, Idle
    <2>2. \/ pc' = pc
          \/ \E s \in {"idle", "resume", "joinDelete", "deleted"} : pc' = [pc EXCEPT ![Gui] = s]
      BY <1>4 DEF Environment, ChangeHideModule, BeginDelete, Destroy, ToggleVisible, TimerDue, Join,
                  Resumed, DropEvent
    <2>3. /\ pc'[Gui] \in {"idle", "join", "resume", "joinDelete", "deleted"}
          /\ \A k \in Loaders : pc'[k] = pc[k]
      BY <1>1, <2>1, <2>2 DEF TypeOK
    <2>4. \A k \in Loaders : Fresh(k)' => Fresh(k)
      BY <2>1, <2>3 DEF Fresh
    <2> QED BY <2>1, <2>3, <2>4, StageQuiet
  <1>5. CASE ResetRead \/ ResetStore
    <2>1. PICK g : g = tx[Gui].of
      OBVIOUS
    <2> QED BY <1>5, <2>1, StageReset
  <1>6. ASSUME NEW l \in Loaders, StartLoader(l) \/ UpdateVisible(l)
        PROVE  [Phases!Next]_(Phases!vars) /\ StageInv'
    BY <1>6, StageStart, StageUpdate
  <1>7. ASSUME NEW l \in Loaders,
               \/ AddMain(l) \/ StartMain(l) \/ StartModule(l) \/ LoadMetaData(l)
               \/ l = tx[Gui].of /\ (LoadMain \/ LoadModule)
        PROVE  [Phases!Next]_(Phases!vars) /\ StageInv'
    BY <1>7, StageAdvance
  <1>8. tx[Gui].of \in Loaders
    BY <1>1 DEF TypeOK, Transition
  <1>9. CASE GuiStep
    BY <1>2, <1>3, <1>4, <1>5, <1>6, <1>7, <1>8, <1>9 DEF GuiStep, LoadPlugin
  <1>10. CASE Environment
    BY <1>4, <1>10
  <1>11. CASE \E l \in Loaders : TaskStep(l)
    BY <1>11, StageTask
  <1> QED BY <1>9, <1>10, <1>11 DEF Next

\* Initially LoadPhases starts: every plugin is in its first phase, without data.
LEMMA InitPhases == Init => Phases!Init
  <1> SUFFICES ASSUME Init PROVE Phases!Init
    OBVIOUS
  <1>1. \A l \in Loaders : status[l] = {} /\ tasks[l] = 0 /\ tasks[l] \in Nat
    BY DEF Init
  <1>2. ASSUME NEW l \in Loaders
        PROVE  PhaseOf(l) = "module"
    <2>1. PhaseOf(l) = Stage(tasks[l], status[l], GuiCarry(l))
      BY <1>1 DEF PhaseOf, Stage, Forgotten, GuiCarry, Carried, Has
    <2> QED BY <1>1, <2>1 DEF Stage
  <1> QED BY <1>2 DEF Init, Phases!Init

\* Status bits, queued events, resets and tasks implement the loading order the
\* documentation promises: every step of the two threads is a step of LoadPhases, or one
\* that changes nothing there.
THEOREM LoadingFollowsPhases == Spec => ImplementsPhases
  <1> DEFINE Inv == OneTask => PhasesInv
  <1>1. Init => Inv /\ RestInv
    BY InitData, InitMain, InitStage DEF PhasesInv
  <1>2. ASSUME TypeOK, TypeOK', RestInv, PhaseInv, Inv, [Next]_vars
        PROVE  Inv' /\ [Phases!Next]_(Phases!vars)
    <2>1. CASE UNCHANGED vars
      <3> USE DEF vars, guiVars, envVars, phaseVars
      <3>1. (PhasesInv' <=> PhasesInv) /\ (OneTask' <=> OneTask)
        BY <2>1 DEF PhasesInv, DataInv, TaskInv, Fresh, Clean, MainInv, MainOf, MainStarted, Ending,
                    GuiCarry, Carried, StageInv, StageOf, BeforeTask, StaysForgotten, AfterBuild,
                    Built, Kept, Resting, OneTask
      <3>2. \A k \in Loaders : PhaseOf(k)' = PhaseOf(k)
        BY <2>1 DEF PhaseOf, Has, Forgotten
      <3>3. PICK l \in Loaders : TRUE
        OBVIOUS
      <3>4. [Phases!Next]_(Phases!vars)
        BY <2>1, <3>2, <3>3, OneMoves DEF MayMove
      <3> QED BY <1>2, <3>1, <3>4
    <2>2. CASE Next
      <3>1. OneTask /\ PhasesInv
        BY <1>2, <2>2 DEF Next
      <3>2. [Phases!Next]_(Phases!vars) /\ (OneTask' => StageInv')
        BY <1>2, <2>2, <3>1, NextStage
      <3>3. OneTask' => DataInv' /\ MainInv'
        BY <1>2, <3>1, NextData, NextMain DEF PhasesInv
      <3> QED BY <3>2, <3>3 DEF PhasesInv
    <2> QED BY <1>2, <2>1, <2>2
  <1> QED
    BY <1>1, <1>2, InitTypeOK, NextTypeOK, InitPhase, NextPhase, RestStep, InitPhases, PTL
    DEF Spec, ImplementsPhases, Phases!Spec
=============================================================================
