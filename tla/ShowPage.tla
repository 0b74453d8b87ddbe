-------------------------------- MODULE ShowPage --------------------------------
(***************************************************************************)
(* How DccManager answers requests to show a page while plugins are still  *)
(* being loaded: the queued calls waitShowPage and doShowPage, the one     *)
(* pending request that tryShow polls for, the five second fallback to the *)
(* home page, the window, and the ten second automatic exit.               *)
(*                                                                         *)
(* Everything here runs on the GUI thread.  `queue` holds its posted calls *)
(* in order; a timer that is due may be activated before any of them.      *)
(* Pages come and go and plugins finish loading on their own: PluginLoad   *)
(* models how.  A page stands for the page an item's url leads to.         *)
(***************************************************************************)
EXTENDS Naturals, Sequences, FiniteSets

CONSTANTS
  Pages,                  \* the objects urls lead to
  Home,                   \* the root object, the target of an empty url
  None,                   \* no page, no request
  Requests,               \* the requests the environment may make, once each
  MaxRequests,            \* bound on the requests made in a behaviour
  Rank,                   \* [Pages -> Nat], the order of the root's children
  Attached0,              \* pages in the tree at start
  ShowOnNavigationReady,  \* m_plugins->showOnNavigationReady()
  ShowLoadPage,           \* FALSE on treeland: no window without a page
  MayLeave,               \* bound on the pages that leave the tree
  MaxUnloads,             \* bound on plugins that start loading again
  MaxHides                \* bound on hiding the window

\* cmd is the part of the url after '?'; dbus tells a D-Bus call, which wants a reply,
\* from the command line of this or a second instance.
Request == [target : Pages \cup {Home}, cmd : {"none", "indicator", "command"},
            dbus : BOOLEAN]

ASSUME TargetsAssumption == Home \notin Pages /\ None \notin Pages \cup {Home}
ASSUME RequestsAssumption ==
  /\ Requests \subseteq Request /\ None \notin Requests
  /\ \A r \in Requests : r.target = Home => r.cmd = "none"
ASSUME RankAssumption ==
  /\ Rank \in [Pages -> Nat] /\ \A p, q \in Pages : Rank[p] = Rank[q] => p = q
ASSUME SetupAssumption ==
  /\ Attached0 \subseteq Pages /\ MayLeave \subseteq Pages
  /\ ShowOnNavigationReady \in BOOLEAN /\ ShowLoadPage \in BOOLEAN
  /\ MaxRequests \in Nat /\ MaxUnloads \in Nat /\ MaxHides \in Nat

VARIABLES
  queue,          \* Seq(Call), calls posted to the GUI thread
  made,           \* requests that have been made
  showUrl,        \* m_showUrl and m_showMessage: the request waiting for its page
  showTimer,      \* m_showTimer is running
  fallbackTimer,  \* m_showFallbackTimer is running
  exitTimer,      \* m_autoExitTimer is running
  pagePending,    \* m_showPagePending
  active,         \* m_activeObject
  needShow,       \* m_needShow
  visible,        \* the window is visible
  attached,       \* pages that hang below the root
  left,           \* pages that have left the tree
  gone,           \* pages that have been destroyed
  loadFinished,   \* DccPluginManager::loadFinished()
  announced,      \* signals the plugin manager has emitted
  unloads,        \* times a plugin started loading again
  hides,          \* times the window was hidden
  deleting,       \* m_plugins->isDeleting()
  replies,        \* history: [Requests -> Seq], replies sent over D-Bus
  dropped,        \* history: pending requests given up for a newer one
  activated,      \* history: requests whose command was emitted as active(cmd)
  latest,         \* history: the last request waitShowPage has handled
  asked           \* history: the requests that asked for the window since it was last
                  \* hidden; None for a call without a page

windowVars == <<needShow, visible, asked>>
pluginVars == <<attached, left, gone, loadFinished, announced, unloads>>
timerVars == <<showTimer, fallbackTimer, exitTimer>>
historyVars == <<replies, dropped, activated, latest>>
vars == <<queue, made, showUrl, pagePending, active, hides, deleting, windowVars,
          pluginVars, timerVars, historyVars>>

Call == [do : {"call", "wait"}, req : Requests]
        \cup [do : {"show"}, page : Pages \cup {Home}, req : Requests \cup {None}]
        \cup [do : {"navigation", "loaded"}]

Show(page, r) == [do |-> "show", page |-> page, req |-> r]

HasCommand(r) == r # None /\ r.cmd = "command"

\* m_root->getChildren().first()
FirstPage == CHOOSE p \in attached : \A q \in attached : Rank[p] <= Rank[q]

Delivered(c) == queue # <<>> /\ Head(queue) = c

-----------------------------------------------------------------------------
(* The window.                                                              *)

\* Variant: a request for the window that comes too early is forgotten.
Raise_Forget(page) ==
  /\ visible' = (visible \/ ShowLoadPage \/ page # None)
  /\ needShow' = FALSE

\* show(), once page is the active object.
Raise(page) ==
  /\ visible' = (visible \/ ShowLoadPage \/ page # None)
  /\ needShow' = ~(ShowLoadPage \/ page # None)

\* doShowPage sets the active object, stops the fallback and opens the window.
Activate(page) ==
  /\ active' = page
  /\ fallbackTimer' = FALSE
  /\ IF needShow THEN Raise(page) ELSE UNCHANGED <<needShow, visible>>
  /\ UNCHANGED asked

-----------------------------------------------------------------------------
(* Requests.                                                                *)

\* A D-Bus call opens the window unless it carries a command for the page; the command
\* line calls show() itself.
AsksForWindow(r) == r.dbus => r.cmd # "command"

MakeRequest(r) ==
  /\ r \notin made /\ Cardinality(made) < MaxRequests /\ ~deleting
  /\ made' = made \cup {r}
  /\ queue' = Append(queue, [do |-> "call", req |-> r])
  /\ UNCHANGED <<showUrl, pagePending, active, hides, deleting, windowVars, pluginVars,
                 timerVars, historyVars>>

\* showPage(url)
ShowPageUrl(r) ==
  /\ Delivered([do |-> "call", req |-> r]) /\ ~deleting
  /\ queue' = Append(Tail(queue), [do |-> "wait", req |-> r])
  /\ IF AsksForWindow(r) THEN Raise(active) /\ asked' = asked \cup {r} ELSE UNCHANGED windowVars
  /\ UNCHANGED <<made, showUrl, pagePending, active, hides, deleting, pluginVars,
                 timerVars, historyVars>>

\* replyShowPageRequest
Reply(r, answer) ==
  replies' = IF r.dbus THEN [replies EXCEPT ![r] = Append(@, answer)] ELSE replies

\* clearShowParam, called by waitShowPage: the pending request gives way to r.
Supersede(r) ==
  /\ dropped' = dropped \cup ({showUrl} \ {None})
  /\ latest' = r

Found(r) == r.target = Home \/ r.target \in attached

\* waitShowPage finds the page: doShowPage is posted and the caller gets its reply.
WaitFound(r) ==
  /\ Delivered([do |-> "wait", req |-> r]) /\ ~deleting /\ Found(r)
  /\ Supersede(r) /\ showUrl' = None /\ showTimer' = FALSE
  /\ queue' = Append(Tail(queue), Show(r.target, r))
  /\ pagePending' = TRUE
  /\ Reply(r, "found")
  /\ UNCHANGED <<made, active, hides, deleting, windowVars, pluginVars, fallbackTimer,
                 exitTimer, activated>>

\* The page is not there yet: startPendingShow.
WaitPending(r) ==
  /\ Delivered([do |-> "wait", req |-> r]) /\ ~deleting /\ ~Found(r) /\ ~loadFinished
  /\ Supersede(r) /\ showUrl' = r /\ showTimer' = TRUE
  /\ queue' = Tail(queue)
  /\ UNCHANGED <<made, pagePending, active, hides, deleting, windowVars, pluginVars,
                 fallbackTimer, exitTimer, replies, activated>>

WaitNotFound(r) ==
  /\ Delivered([do |-> "wait", req |-> r]) /\ ~deleting /\ ~Found(r) /\ loadFinished
  /\ Supersede(r) /\ showUrl' = None /\ showTimer' = FALSE
  /\ queue' = Tail(queue)
  /\ Reply(r, "notFound")
  /\ UNCHANGED <<made, pagePending, active, hides, deleting, windowVars, pluginVars,
                 fallbackTimer, exitTimer, activated>>

WaitDeleting(r) ==
  /\ Delivered([do |-> "wait", req |-> r]) /\ deleting
  /\ queue' = Tail(queue)
  /\ dropped' = dropped \cup {r} /\ latest' = r
  /\ UNCHANGED <<made, showUrl, pagePending, active, hides, deleting, windowVars, pluginVars,
                 timerVars, replies, activated>>

-----------------------------------------------------------------------------
(* doShowPage.                                                              *)

\* Where a posted show leads to when it is delivered.
Destination(c) == IF c.page = Home THEN FirstPage ELSE c.page

\* Variant: a page that is shown already does not get its command.
Commands_NotActive(c) == HasCommand(c.req) /\ c.page \notin gone /\ active # c.page

Commands(c) == HasCommand(c.req) /\ c.page \notin gone

Switches(c) ==
  /\ ~HasCommand(c.req)
  /\ c.page = Home => attached # {}
  /\ Destination(c) \in attached
  /\ active = Destination(c) => c.req # None /\ c.req.cmd = "indicator"

\* Every delivery resets m_showPagePending, whatever it does (PendingGuard).
DoShow(c) ==
  /\ Delivered(c)
  /\ queue' = Tail(queue)
  /\ pagePending' = FALSE
  /\ UNCHANGED <<made, showUrl, hides, deleting, pluginVars, showTimer, exitTimer,
                 replies, dropped, latest>>

DoShowPage(c) ==
  /\ DoShow(c) /\ ~deleting /\ Switches(c)
  /\ Activate(Destination(c))
  /\ UNCHANGED activated

DoShowCommand(c) ==
  /\ DoShow(c) /\ ~deleting /\ Commands(c)
  /\ activated' = activated \cup {c.req}
  /\ UNCHANGED <<active, windowVars, fallbackTimer>>

\* The page has been destroyed or detached, is shown already, or there is no page at all.
DoShowNothing(c) ==
  /\ DoShow(c) /\ (deleting \/ ~(Commands(c) \/ Switches(c)))
  /\ UNCHANGED <<active, windowVars, fallbackTimer, activated>>

-----------------------------------------------------------------------------
(* tryShow and tryShowFallback.                                             *)

\* Variant: the fallback shows the active object instead of the root.
ShowHome_Active(q) == queue' = Append(q, Show(active, None)) /\ pagePending' = TRUE

\* showPage(m_root), after the calls q.
ShowHome(q) == queue' = Append(q, Show(Home, None)) /\ pagePending' = TRUE

\* Variant: the answered request stays pending.
Resolve_Twice(q) ==
  /\ showUrl' = showUrl /\ showTimer' = FALSE
  /\ IF Found(showUrl)
       THEN /\ queue' = Append(q, Show(showUrl.target, showUrl))
            /\ pagePending' = TRUE
            /\ Reply(showUrl, "found")
       ELSE /\ IF active = None THEN ShowHome(q) ELSE queue' = q /\ UNCHANGED pagePending
            /\ Reply(showUrl, "notFound")

\* tryShow when all plugins are loaded; q is what is already posted.
Resolve(q) ==
  /\ showUrl' = None /\ showTimer' = FALSE
  /\ IF Found(showUrl)
       THEN /\ queue' = Append(q, Show(showUrl.target, showUrl))
            /\ pagePending' = TRUE
            /\ Reply(showUrl, "found")
       ELSE /\ IF active = None THEN ShowHome(q) ELSE queue' = q /\ UNCHANGED pagePending
            /\ Reply(showUrl, "notFound")

\* Variant: tryShow leaves the rest to loadAllFinished.
TryShow_Once ==
  /\ showTimer
  /\ IF loadFinished
       THEN Resolve(queue)
       ELSE showTimer' = FALSE /\ UNCHANGED <<queue, showUrl, pagePending, replies>>
  /\ UNCHANGED <<made, active, hides, deleting, windowVars, pluginVars, fallbackTimer,
                 exitTimer, dropped, activated, latest>>

\* tryShow from the 60 ms timer, which it starts again while plugins are loading.
TryShow ==
  /\ showTimer
  /\ IF loadFinished
       THEN Resolve(queue)
       ELSE showTimer' = ~deleting /\ UNCHANGED <<queue, showUrl, pagePending, replies>>
  /\ UNCHANGED <<made, active, hides, deleting, windowVars, pluginVars, fallbackTimer,
                 exitTimer, dropped, activated, latest>>

\* Variant: the fallback does not look whether a show is already on its way.
NothingToShow_Eager == ~deleting /\ showUrl = None /\ active = None

NothingToShow == ~deleting /\ showUrl = None /\ active = None /\ ~pagePending

\* The 5 s timer is a single shot: it is gone even if there was a reason not to go home.
TryShowFallback ==
  /\ fallbackTimer
  /\ fallbackTimer' = FALSE
  /\ IF NothingToShow THEN ShowHome(queue) ELSE UNCHANGED <<queue, pagePending>>
  /\ UNCHANGED <<made, showUrl, active, hides, deleting, windowVars, pluginVars,
                 showTimer, exitTimer, historyVars>>

\* handleShowReady without a pending request.
HomeIfIdle ==
  IF fallbackTimer /\ NothingToShow
    THEN ShowHome(Tail(queue)) /\ fallbackTimer' = FALSE
    ELSE queue' = Tail(queue) /\ UNCHANGED <<pagePending, fallbackTimer>>

HandleNavigationReady ==
  /\ Delivered([do |-> "navigation"])
  /\ IF ShowOnNavigationReady /\ showUrl = None
       THEN HomeIfIdle
       ELSE queue' = Tail(queue) /\ UNCHANGED <<pagePending, fallbackTimer>>
  /\ UNCHANGED <<made, showUrl, active, hides, deleting, windowVars, pluginVars, showTimer,
                 exitTimer, historyVars>>

HandleLoadFinished ==
  /\ Delivered([do |-> "loaded"])
  /\ IF showUrl = None
       THEN HomeIfIdle /\ UNCHANGED <<showUrl, showTimer, replies>>
       ELSE /\ IF loadFinished
                 THEN Resolve(Tail(queue))
                 ELSE /\ queue' = Tail(queue) /\ showTimer' = ~deleting
                      /\ UNCHANGED <<showUrl, pagePending, replies>>
            /\ UNCHANGED fallbackTimer
  /\ UNCHANGED <<made, active, hides, deleting, windowVars, pluginVars, exitTimer,
                 dropped, activated, latest>>

-----------------------------------------------------------------------------
(* The environment: plugins, the user, the automatic exit.                  *)

Attach(p) ==
  /\ p \notin attached \cup left /\ ~deleting
  /\ attached' = attached \cup {p}
  /\ UNCHANGED <<queue, made, showUrl, pagePending, active, hides, deleting, windowVars,
                 left, gone, loadFinished, announced, unloads, timerVars, historyVars>>

\* p is hidden or destroyed.  onObjectRemoved leaves a page it shows for the first one,
\* by a direct call of doShowPage.
Detach(p) ==
  /\ p \in attached \cap MayLeave /\ ~deleting
  /\ attached' = attached \ {p} /\ left' = left \cup {p}
  /\ gone' \in {gone, gone \cup {p}}
  /\ IF active = p
       THEN /\ pagePending' = FALSE
            /\ IF attached' # {} THEN Activate(FirstPage')
                                 ELSE UNCHANGED <<active, fallbackTimer, windowVars>>
       ELSE UNCHANGED <<pagePending, active, fallbackTimer, windowVars>>
  /\ UNCHANGED <<queue, made, showUrl, hides, deleting, loadFinished, announced, unloads,
                 showTimer, exitTimer, historyVars>>

NavigationReady ==
  /\ announced = {} /\ ~deleting
  /\ announced' = {"navigation"}
  /\ queue' = Append(queue, [do |-> "navigation"])
  /\ UNCHANGED <<made, showUrl, pagePending, active, hides, deleting, windowVars, attached,
                 left, gone, loadFinished, unloads, timerVars, historyVars>>

FinishLoading ==
  /\ "navigation" \in announced /\ ~loadFinished /\ ~deleting
  /\ loadFinished' = TRUE
  /\ UNCHANGED <<queue, made, showUrl, pagePending, active, hides, deleting, windowVars,
                 attached, left, gone, announced, unloads, timerVars, historyVars>>

\* checkLoadFinished, once.
AnnounceLoaded ==
  /\ loadFinished /\ "loaded" \notin announced /\ ~deleting
  /\ announced' = announced \cup {"loaded"}
  /\ queue' = Append(queue, [do |-> "loaded"])
  /\ UNCHANGED <<made, showUrl, pagePending, active, hides, deleting, windowVars, attached,
                 left, gone, loadFinished, unloads, timerVars, historyVars>>

\* A hidden plugin is shown again and loads after all.
StartLoadingAgain ==
  /\ loadFinished /\ unloads < MaxUnloads /\ ~deleting
  /\ loadFinished' = FALSE /\ unloads' = unloads + 1
  /\ UNCHANGED <<queue, made, showUrl, pagePending, active, hides, deleting, windowVars,
                 attached, left, gone, announced, timerVars, historyVars>>

\* show() called by main or over D-Bus, without a page.
ShowWindow ==
  /\ None \notin asked /\ ~deleting
  /\ Raise(active) /\ asked' = asked \cup {None}
  /\ UNCHANGED <<queue, made, showUrl, pagePending, active, hides, deleting, pluginVars,
                 timerVars, historyVars>>

\* toggle() opens the window whatever it has to show; needShow stays as it is.
Toggle ==
  /\ ~visible /\ None \notin asked /\ ~deleting
  /\ visible' = TRUE /\ asked' = asked \cup {None}
  /\ UNCHANGED <<queue, made, showUrl, pagePending, active, needShow, hides, deleting,
                 pluginVars, timerVars, historyVars>>

\* The user closes the window, Hide() over D-Bus, toggle().
HideWindow ==
  /\ visible /\ hides < MaxHides /\ ~deleting
  /\ visible' = FALSE /\ asked' = {}
  /\ hides' = hides + 1
  /\ UNCHANGED <<queue, made, showUrl, pagePending, active, needShow, deleting,
                 pluginVars, timerVars, historyVars>>

\* Variant: the timer looks only at the window.
Unused_Hidden == ~visible

Unused == ~pagePending /\ ~needShow /\ ~visible

\* clearData: the event loop has ended.
Quit ==
  /\ deleting' = TRUE
  /\ showUrl' = None /\ showTimer' = FALSE
  /\ dropped' = dropped \cup ({showUrl} \ {None})

\* The 10 s timer outlasts the fallback timer.
AutoExit ==
  /\ exitTimer /\ ~fallbackTimer
  /\ exitTimer' = FALSE
  /\ IF Unused THEN Quit ELSE UNCHANGED <<deleting, showUrl, showTimer, dropped>>
  /\ UNCHANGED <<queue, made, pagePending, active, hides, windowVars, pluginVars,
                 fallbackTimer, replies, activated, latest>>

\* Search, Stop and Action of the search service start the exit timer again.
SearchActivity ==
  /\ ~exitTimer /\ ~deleting
  /\ exitTimer' = TRUE
  /\ UNCHANGED <<queue, made, showUrl, pagePending, active, hides, deleting, windowVars,
                 pluginVars, showTimer, fallbackTimer, historyVars>>

-----------------------------------------------------------------------------
Init ==
  /\ queue = <<>> /\ made = {} /\ showUrl = None
  /\ showTimer = FALSE /\ fallbackTimer = TRUE /\ exitTimer = TRUE
  /\ pagePending = FALSE /\ active = None /\ needShow = FALSE /\ visible = FALSE
  /\ attached = Attached0 /\ left = {} /\ gone = {}
  /\ loadFinished = FALSE /\ announced = {} /\ unloads = 0 /\ hides = 0
  /\ deleting = FALSE /\ asked = {}
  /\ replies = [r \in Requests |-> <<>>]
  /\ dropped = {} /\ activated = {} /\ latest = None

PostedCall ==
  /\ queue # <<>>
  /\ LET c == Head(queue) IN
       \/ HandleNavigationReady \/ HandleLoadFinished
       \/ c.do = "call" /\ ShowPageUrl(c.req)
       \/ c.do = "wait" /\ (WaitFound(c.req) \/ WaitPending(c.req) \/ WaitNotFound(c.req)
                            \/ WaitDeleting(c.req))
       \/ c.do = "show" /\ (DoShowPage(c) \/ DoShowCommand(c) \/ DoShowNothing(c))

Plugins == \/ NavigationReady \/ FinishLoading \/ AnnounceLoaded \/ StartLoadingAgain
           \/ \E p \in Pages : Attach(p) \/ Detach(p)

User == ShowWindow \/ Toggle \/ HideWindow \/ SearchActivity \/ \E r \in Requests : MakeRequest(r)

Next == PostedCall \/ TryShow \/ TryShowFallback \/ AutoExit \/ Plugins \/ User

Spec == Init /\ [][Next]_vars

\* The event loop delivers what is posted and activates its timers.
Fairness == /\ WF_vars(PostedCall) /\ WF_vars(TryShow) /\ WF_vars(TryShowFallback)
            /\ WF_vars(AutoExit) /\ WF_vars(NavigationReady) /\ WF_vars(AnnounceLoaded)

FairSpec == Spec /\ Fairness

-----------------------------------------------------------------------------
(* Properties.                                                              *)

\* The type invariant.
TypeOK ==
  /\ queue \in Seq(Call) /\ made \subseteq Requests
  /\ showUrl \in Requests \cup {None} /\ latest \in Requests \cup {None}
  /\ active \in Pages \cup {None}
  /\ attached \subseteq Pages /\ left \subseteq Pages /\ gone \subseteq Pages
  /\ announced \subseteq {"navigation", "loaded"}
  /\ dropped \subseteq Requests /\ activated \subseteq Requests
  /\ asked \subseteq Requests \cup {None}
  /\ replies \in [Requests -> Seq({"found", "notFound"})]
  /\ unloads \in Nat /\ hides \in Nat
  /\ showTimer \in BOOLEAN /\ fallbackTimer \in BOOLEAN /\ exitTimer \in BOOLEAN
  /\ pagePending \in BOOLEAN /\ needShow \in BOOLEAN /\ visible \in BOOLEAN
  /\ loadFinished \in BOOLEAN /\ deleting \in BOOLEAN

Posted(r) == \E i \in DOMAIN queue : queue[i].do \in {"call", "wait"} /\ queue[i].req = r

Outcomes(r) == Len(replies[r]) + Cardinality({showUrl, None} \cap {r}) + Cardinality(dropped \cap {r})

\* A D-Bus call whose waitShowPage has run is pending, answered once, or given up for a
\* newer one: never two of these, whichever of the timer, loadAllFinished and a newer
\* call gets to the pending request first.
Accounted ==
  \A r \in Requests : r.dbus => Outcomes(r) = IF r \in made /\ ~Posted(r) THEN 1 ELSE 0

\* The ten second timer ends the program only if nobody has asked for the window since it
\* was last hidden, even while the window still waits for its first page.
ExitOnlyUnasked == [][deleting' /\ ~deleting => asked = {}]_vars

\* Once the plugins stay loaded, every D-Bus call gets its answer or has been given up.
EveryCallEnds ==
  <>[]loadFinished =>
    \A r \in {q \in Requests : q.dbus} : r \in made ~> deleting \/ r \in dropped \/ replies[r] # <<>>

\* A show is on its way for a request.
Waits(r) == \E i \in DOMAIN queue : queue[i].do = "show" /\ queue[i].req = r

\* A page found for a command receives it as active(cmd) when the posted show is
\* delivered, also when the page is shown already, has left the tree or another show
\* is behind it: only a destroyed page and the end of the program lose a command.
CommandDelivered ==
  [][\A r \in {q \in Requests : HasCommand(q)} :
       Waits(r) => Waits(r)' \/ r \in activated' \/ r.target \in gone \/ deleting]_vars

ShowPosted == \E i \in DOMAIN queue : queue[i].do = "show"

\* A page is on its way, but the show before it has reset m_showPagePending without setting
\* a page: nothing keeps a fallback that fires now from sending the home page after it.
Lapse == ShowPosted /\ fallbackTimer /\ showUrl = None /\ active = None /\ ~pagePending

\* The page asked for last is the one that stays, whatever the pending request, the
\* fallback and the two signals of the plugin manager do: provided there is no lapse, and
\* its page is in the tree by the time loading ends and stays there.
LastWins ==
  []~(Lapse \/ deleting) =>
    \A r \in {q \in Requests : q.target # Home /\ q.cmd # "command"} :
      /\ <>[](latest = r /\ loadFinished)
      /\ [](r.target \notin left /\ (loadFinished => r.target \in attached))
      => <>[](active = r.target)

LoadHandled == "loaded" \in announced /\ \A i \in DOMAIN queue : queue[i].do # "loaded"

\* Where loading ends for good within the five seconds of the fallback, the navigation has a
\* page that stays and nobody sends commands, whoever asks for the window gets it, also where it
\* does not open without a page.
Opens ==
  /\ [](fallbackTimer \/ ShowPosted \/ active # None \/ LoadHandled)
  /\ []("navigation" \in announced => attached # {}) /\ [](left = {})
  /\ [](\A r \in made : r.cmd # "command")
  /\ []("loaded" \in announced => loadFinished) /\ <>[]loadFinished
  => (asked # {} ~> visible \/ asked = {})

\* Whoever asks for the window gets it even if a plugin takes its time or never finishes
\* loading: provided the tree has a page by the time the navigation is announced and the
\* fallback fires, and whatever page a request waits for has come.
OpensAnyway ==
  /\ []("navigation" \in announced \/ ~fallbackTimer => attached # {})
  /\ <>[](showUrl # None => Found(showUrl))
  => (asked # {} ~> visible \/ asked = {})

\* A D-Bus call whose page turns out not to exist has opened no window.
BadUrlNoUi == visible => \E r \in asked : r = None \/ replies[r] # <<"notFound">>
=============================================================================
