------------------------------- MODULE LoadPhases -------------------------------
(***************************************************************************)
(* What plugin loading promises to the rest of dde-control-center, without *)
(* status bits, events or threads: each plugin goes through its phases in  *)
(* the order of the loading section of docs/v25-dcc-interface.zh_CN.md,    *)
(* the navigation is announced before any plugin library is touched, and   *)
(* the end of loading only when every plugin has ended.                    *)
(***************************************************************************)
CONSTANT Loaders

VARIABLES
  phase,      \* [Loaders -> Phase]
  data,       \* [Loaders -> {"none","worker","gui"}], the data object and its thread
  navReady,   \* navigationReady has been emitted
  finished    \* loadAllFinished has been emitted

vars == <<phase, data, navReady, finished>>

\* "skipped" is the end of a plugin that is not shown, "done" of one that is; a plugin
\* hidden while its library is loaded is "interrupted".  "lost" is a plugin whose started
\* task has been forgotten: neither its main object nor a single task is promised then.
Phase == {"module", "ready", "data", "main", "done", "skipped", "interrupted", "lost"}

Init ==
  /\ phase = [l \in Loaders |-> "module"]
  /\ data = [l \in Loaders |-> "none"]
  /\ navReady = FALSE /\ finished = FALSE

Move(l, from, to) == phase[l] = from /\ phase' = [phase EXCEPT ![l] = to]

\* The module object of a visible plugin exists.
Prepare(l) == Move(l, "module", "ready") /\ UNCHANGED <<data, navReady, finished>>

\* The plugin is in hideModule, or its module object is not visible.
Skip(l) == Move(l, "module", "skipped") /\ UNCHANGED <<data, navReady, finished>>

\* A skipped plugin is shown after all: it starts over.
Restart(l) == Move(l, "skipped", "module") /\ UNCHANGED <<data, navReady, finished>>

\* Some prepared plugins have their libraries loaded, once the navigation is up.
LoadData(S) ==
  /\ S # {} /\ \A l \in S : phase[l] \in {"ready", "lost"}
  /\ phase' = [l \in Loaders |->
               IF l \in S /\ phase[l] = "ready" THEN "data" ELSE phase[l]]
  /\ navReady'

AllPrepared == \A l \in Loaders : phase[l] # "module"

Navigate ==
  /\ AllPrepared /\ navReady' = TRUE
  /\ \/ UNCHANGED phase
     \/ \E S \in SUBSET {l \in Loaders : phase[l] = "lost"} :
          LoadData(S \cup {l \in Loaders : phase[l] = "ready"})
  /\ UNCHANGED <<data, finished>>

MoreData ==
  /\ \E S \in SUBSET Loaders : LoadData(S)
  /\ UNCHANGED <<data, navReady, finished>>

\* The data object is created on a worker thread, once, then moved to the GUI thread.
Loading(l) == phase[l] \in {"data", "interrupted", "lost"}

Create(l) ==
  /\ Loading(l) /\ data[l] = "none"
  /\ data' = [data EXCEPT ![l] = "worker"]
  /\ UNCHANGED <<phase, navReady, finished>>

Hand(l) ==
  /\ Loading(l) /\ data[l] = "worker"
  /\ data' = [data EXCEPT ![l] = "gui"]
  /\ UNCHANGED <<phase, navReady, finished>>

\* Hiding a plugin does not stop its task; shown again, the plugin may go on.
Interrupt(l) == Move(l, "data", "interrupted") /\ UNCHANGED <<data, navReady, finished>>
Continue(l) == Move(l, "interrupted", "data") /\ UNCHANGED <<data, navReady, finished>>

\* Two threads changing its progress at once may forget that the task has started.
Forget(l) ==
  /\ phase[l] \in {"data", "interrupted"}
  /\ phase' = [phase EXCEPT ![l] = "lost"]
  /\ UNCHANGED <<data, navReady, finished>>

BuildMain(l) ==
  /\ data[l] # "worker" /\ Move(l, "data", "main")
  /\ UNCHANGED <<data, navReady, finished>>

Complete(l) == Move(l, "main", "done") /\ UNCHANGED <<data, navReady, finished>>

Finish ==
  /\ \A l \in Loaders : phase[l] \in {"done", "skipped", "interrupted", "lost"}
  /\ navReady' = TRUE /\ finished' = TRUE
  /\ UNCHANGED <<phase, data>>

Next ==
  \/ Navigate \/ MoreData \/ Finish
  \/ \E l \in Loaders : \/ Prepare(l) \/ Skip(l) \/ Restart(l)
                        \/ Create(l) \/ Hand(l) \/ Interrupt(l)
                        \/ Continue(l) \/ Forget(l) \/ BuildMain(l) \/ Complete(l)

Spec == Init /\ [][Next]_vars
=============================================================================
