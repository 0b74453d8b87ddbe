----------------------------- MODULE ShowPage_proofs -----------------------------
(***************************************************************************)
(* Theorems about ShowPage, for every set of pages and requests, in every  *)
(* start mode and for all bounds.                                          *)
(***************************************************************************)
EXTENDS ShowPage, FiniteSetTheorems, WellFoundedInduction, TLAPS

USE TargetsAssumption, RequestsAssumption, RankAssumption, SetupAssumption

\* What can be posted is a call.
LEMMA CallTypes ==
  /\ \A r \in Requests : [do |-> "call", req |-> r] \in Call /\ [do |-> "wait", req |-> r] \in Call
  /\ \A p \in Pages \cup {Home}, r \in Requests \cup {None} : Show(p, r) \in Call
  /\ [do |-> "navigation"] \in Call /\ [do |-> "loaded"] \in Call
  BY DEF Call, Show

\* A call that is not a request's own is a show, a navigation or a loaded call.
LEMMA CallCases ==
  ASSUME NEW c \in Call
  PROVE  /\ c.do \in {"call", "wait"} => c.req \in Requests
         /\ c.do = "show" => c.page \in Pages \cup {Home} /\ c.req \in Requests \cup {None}
  BY DEF Call

\* What is left of the queue when a call has been taken off it.
LEMMA QueueParts ==
  ASSUME TypeOK, queue # <<>>
  PROVE  Head(queue) \in Call /\ Tail(queue) \in Seq(Call)
  BY DEF TypeOK

\* Among any pages there is a first one: their ranks have a least number.
LEMMA LeastRank ==
  ASSUME NEW S \in SUBSET Pages, S # {}
  PROVE  \E p \in S : \A q \in S : Rank[p] <= Rank[q]
  <1> DEFINE R == {ss \in Nat \X Nat : ss[1] < ss[2]}
             T == {Rank[p] : p \in S}
  <1>1. IsWellFoundedOn(R, Nat)
    BY NatLessThanWellFounded DEF OpToRel
  <1>2. T \subseteq Nat /\ T # {}
    OBVIOUS
  <1>3. \E x \in T : \A y \in T : <<y, x>> \notin R
    <2> HIDE DEF R, T
    <2>1. QED
      BY <1>1, <1>2, WFMin
  <1>4. \E p \in S : \A q \in S : <<Rank[q], Rank[p]>> \notin R
    BY <1>3
  <1>5. \A m, n \in Nat : <<m, n>> \notin R => n <= m
    OBVIOUS
  <1>6. QED
    BY <1>4, <1>5

\* A tree with pages in it has a first page.
LEMMA FirstPageType ==
  ASSUME attached \in SUBSET Pages, attached # {}
  PROVE  FirstPage \in attached
  BY LeastRank DEF FirstPage

\* The initial state is well typed.
LEMMA InitTypeOK == Init => TypeOK
  <1> SUFFICES ASSUME Init PROVE TypeOK
    OBVIOUS
  <1>1. queue \in Seq(Call)
    BY DEF Init
  <1>2. replies \in [Requests -> Seq({"found", "notFound"})]
    BY DEF Init
  <1>3. attached \subseteq Pages
    BY DEF Init
  <1>4. QED
    BY <1>1, <1>2, <1>3 DEF Init, TypeOK

\* A reply is appended to the replies of its request.
LEMMA ReplyType ==
  ASSUME TypeOK, NEW r \in Requests, NEW answer \in {"found", "notFound"}, Reply(r, answer)
  PROVE  replies' \in [Requests -> Seq({"found", "notFound"})]
  BY DEF TypeOK, Reply

\* Showing the home page posts a call.
LEMMA ShowHomeType ==
  ASSUME NEW q \in Seq(Call), ShowHome(q)
  PROVE  queue' \in Seq(Call) /\ pagePending' \in BOOLEAN
  BY CallTypes DEF ShowHome

\* Answering the pending request keeps what it writes well typed.
LEMMA ResolveType ==
  ASSUME TypeOK, NEW q \in Seq(Call), showUrl # None, Resolve(q)
  PROVE  /\ queue' \in Seq(Call) /\ showUrl' = None /\ showTimer' = FALSE
         /\ pagePending' \in BOOLEAN
         /\ replies' \in [Requests -> Seq({"found", "notFound"})]
  <1>1. showUrl \in Requests /\ showUrl.target \in Pages \cup {Home}
    BY DEF TypeOK, Request
  <1>2. CASE Found(showUrl)
    <2>1. Show(showUrl.target, showUrl) \in Call
      BY <1>1, CallTypes
    <2>2. /\ queue' = Append(q, Show(showUrl.target, showUrl)) /\ pagePending' = TRUE
          /\ showUrl' = None /\ showTimer' = FALSE /\ Reply(showUrl, "found")
      BY <1>2 DEF Resolve
    <2>3. replies' \in [Requests -> Seq({"found", "notFound"})]
      BY <1>1, <2>2, ReplyType
    <2>4. queue' \in Seq(Call)
      BY <2>1, <2>2
    <2>5. QED
      BY <2>2, <2>3, <2>4
  <1>3. CASE ~Found(showUrl)
    <2>1. queue' \in Seq(Call) /\ pagePending' \in BOOLEAN
      BY <1>3, ShowHomeType DEF Resolve, TypeOK
    <2>2. showUrl' = None /\ showTimer' = FALSE /\ Reply(showUrl, "notFound")
      BY <1>3 DEF Resolve
    <2>3. replies' \in [Requests -> Seq({"found", "notFound"})]
      BY <1>1, <2>2, ReplyType
    <2>4. QED
      BY <2>1, <2>2, <2>3
  <1>4. QED
    BY <1>2, <1>3

\* Going home when loadAllFinished or navigationReady is handled posts at most one call.
LEMMA HomeIfIdleType ==
  ASSUME TypeOK, queue # <<>>, HomeIfIdle
  PROVE  queue' \in Seq(Call) /\ pagePending' \in BOOLEAN /\ fallbackTimer' \in BOOLEAN
  BY QueueParts, ShowHomeType DEF HomeIfIdle, TypeOK

\* Opening the window keeps its flags Boolean.
LEMMA ActivateType ==
  ASSUME TypeOK, NEW p \in Pages, Activate(p)
  PROVE  /\ active' \in Pages /\ fallbackTimer' \in BOOLEAN /\ visible' \in BOOLEAN
         /\ needShow' \in BOOLEAN /\ asked' = asked
  BY DEF TypeOK, Activate, Raise

\* What all actions that deliver a posted show leave well typed.
LEMMA DoShowType ==
  ASSUME TypeOK, NEW c, c = Head(queue), c.do = "show", DoShow(c)
  PROVE  /\ queue' \in Seq(Call) /\ pagePending' \in BOOLEAN
         /\ c.page \in Pages \cup {Home} /\ c.req \in Requests \cup {None}
  <1>1. queue # <<>>
    BY DEF DoShow, Delivered
  <1>2. c \in Call /\ Tail(queue) \in Seq(Call)
    BY <1>1, QueueParts
  <1>3. c.page \in Pages \cup {Home} /\ c.req \in Requests \cup {None}
    BY <1>2, CallCases
  <1>4. QED
    BY <1>2, <1>3 DEF DoShow

\* Opening a page from the queue leads to a page.
LEMMA DestinationType ==
  ASSUME TypeOK, NEW c, c.page \in Pages \cup {Home}, Switches(c)
  PROVE  Destination(c) \in Pages
  <1>1. Destination(c) \in attached
    BY DEF Switches
  <1>2. QED
    BY <1>1 DEF TypeOK

\* Every delivery of a posted call keeps the state well typed.
LEMMA PostedCallTypeOK == TypeOK /\ PostedCall => TypeOK'
  <1> SUFFICES ASSUME TypeOK, PostedCall PROVE TypeOK'
    OBVIOUS
  <1> DEFINE c == Head(queue)
  <1>1. queue # <<>> /\ c \in Call /\ Tail(queue) \in Seq(Call)
    BY QueueParts DEF PostedCall
  <1>2. CASE HandleNavigationReady
    <2>1. queue' \in Seq(Call) /\ pagePending' \in BOOLEAN /\ fallbackTimer' \in BOOLEAN
      BY <1>1, <1>2, HomeIfIdleType DEF HandleNavigationReady, TypeOK
    <2>2. QED
      BY <1>2, <2>1 DEF HandleNavigationReady, TypeOK, windowVars, pluginVars, historyVars
  <1>3. CASE HandleLoadFinished
    <2>1. CASE showUrl = None
      <3>1. queue' \in Seq(Call) /\ pagePending' \in BOOLEAN /\ fallbackTimer' \in BOOLEAN
        BY <1>1, <1>3, <2>1, HomeIfIdleType DEF HandleLoadFinished
      <3>2. QED
        BY <1>3, <2>1, <3>1 DEF HandleLoadFinished, TypeOK, windowVars, pluginVars
    <2>2. CASE showUrl # None /\ loadFinished
      <3>1. Resolve(Tail(queue))
        BY <1>3, <2>2 DEF HandleLoadFinished
      <3>2. /\ queue' \in Seq(Call) /\ showUrl' = None /\ showTimer' = FALSE
            /\ pagePending' \in BOOLEAN
            /\ replies' \in [Requests -> Seq({"found", "notFound"})]
        BY <1>1, <2>2, <3>1, ResolveType
      <3>3. QED
        BY <1>3, <2>2, <3>2 DEF HandleLoadFinished, TypeOK, windowVars, pluginVars
    <2>3. CASE showUrl # None /\ ~loadFinished
      <3>1. /\ queue' = Tail(queue) /\ showTimer' = ~deleting
            /\ UNCHANGED <<showUrl, pagePending, replies, fallbackTimer>>
        BY <1>3, <2>3 DEF HandleLoadFinished
      <3>2. showTimer' \in BOOLEAN
        BY <3>1 DEF TypeOK
      <3>3. QED
        BY <1>1, <1>3, <3>1, <3>2 DEF HandleLoadFinished, TypeOK, windowVars, pluginVars
    <2>4. QED
      BY <2>1, <2>2, <2>3
  <1>4. CASE c.do = "call" /\ ShowPageUrl(c.req)
    <2>1. c.req \in Requests
      BY <1>1, <1>4, CallCases
    <2>2. [do |-> "wait", req |-> c.req] \in Call
      BY <2>1, CallTypes
    <2>3. queue' \in Seq(Call)
      BY <1>1, <1>4, <2>2 DEF ShowPageUrl
    <2>4. visible' \in BOOLEAN /\ needShow' \in BOOLEAN /\ asked' \subseteq Requests \cup {None}
      BY <1>4, <2>1 DEF ShowPageUrl, Raise, TypeOK, windowVars
    <2>5. QED
      BY <1>4, <2>3, <2>4 DEF ShowPageUrl, TypeOK, pluginVars, timerVars, historyVars
  <1>5. CASE c.do = "wait" /\ (WaitFound(c.req) \/ WaitPending(c.req) \/ WaitNotFound(c.req)
                              \/ WaitDeleting(c.req))
    <2>1. c.req \in Requests
      BY <1>1, <1>5, CallCases
    <2>2. dropped \cup ({showUrl} \ {None}) \subseteq Requests
      BY DEF TypeOK
    <2>3. CASE WaitFound(c.req)
      <3>1. c.req.target \in Pages \cup {Home}
        BY <2>1 DEF Request
      <3>2. queue' \in Seq(Call)
        BY <1>1, <2>1, <2>3, <3>1, CallTypes DEF WaitFound
      <3>3. replies' \in [Requests -> Seq({"found", "notFound"})]
        BY <2>1, <2>3, ReplyType DEF WaitFound
      <3>4. QED
        BY <2>1, <2>2, <2>3, <3>2, <3>3 DEF WaitFound, Supersede, TypeOK, windowVars, pluginVars
    <2>4. CASE WaitPending(c.req)
      BY <1>1, <2>1, <2>2, <2>4 DEF WaitPending, Supersede, TypeOK, windowVars, pluginVars
    <2>5. CASE WaitNotFound(c.req)
      <3>1. replies' \in [Requests -> Seq({"found", "notFound"})]
        BY <2>1, <2>5, ReplyType DEF WaitNotFound
      <3>2. QED
        BY <1>1, <2>1, <2>2, <2>5, <3>1
           DEF WaitNotFound, Supersede, TypeOK, windowVars, pluginVars
    <2>6. CASE WaitDeleting(c.req)
      BY <1>1, <2>1, <2>6 DEF WaitDeleting, TypeOK, windowVars, pluginVars, timerVars
    <2>7. QED
      BY <1>5, <2>3, <2>4, <2>5, <2>6
  <1>6. CASE c.do = "show" /\ (DoShowPage(c) \/ DoShowCommand(c) \/ DoShowNothing(c))
    <2>1. DoShow(c)
      BY <1>6 DEF DoShowPage, DoShowCommand, DoShowNothing
    <2>2. /\ queue' \in Seq(Call) /\ pagePending' \in BOOLEAN
          /\ c.page \in Pages \cup {Home} /\ c.req \in Requests \cup {None}
      BY <1>6, <2>1, DoShowType
    <2>3. CASE DoShowPage(c)
      <3>1. Destination(c) \in Pages
        BY <2>2, <2>3, DestinationType DEF DoShowPage
      <3>2. /\ active' \in Pages /\ fallbackTimer' \in BOOLEAN /\ visible' \in BOOLEAN
            /\ needShow' \in BOOLEAN /\ asked' = asked /\ activated' = activated
        BY <2>3, <3>1, ActivateType DEF DoShowPage
      <3>3. QED
        BY <2>1, <2>2, <3>2 DEF DoShow, TypeOK, pluginVars
    <2>4. CASE DoShowCommand(c)
      <3>1. activated' \subseteq Requests
        BY <2>2, <2>4 DEF DoShowCommand, Commands, HasCommand, TypeOK
      <3>2. QED
        BY <2>1, <2>2, <2>4, <3>1 DEF DoShowCommand, DoShow, TypeOK, pluginVars, windowVars
    <2>5. CASE DoShowNothing(c)
      BY <2>1, <2>2, <2>5 DEF DoShowNothing, DoShow, TypeOK, pluginVars, windowVars
    <2>6. QED
      BY <1>6, <2>3, <2>4, <2>5
  <1>7. QED
    BY <1>2, <1>3, <1>4, <1>5, <1>6 DEF PostedCall

\* The tryShow timer only runs while a request is pending.
TimerHasRequest == showTimer => showUrl # None

\* While somebody asks for the window it is visible, or show() will open it with the
\* next page.
Wanted == asked # {} => visible \/ needShow

\* The timers keep the state well typed.
LEMMA TimerTypeOK ==
  TypeOK /\ TimerHasRequest /\ (TryShow \/ TryShowFallback \/ AutoExit) => TypeOK'
  <1> SUFFICES ASSUME TypeOK, TimerHasRequest, TryShow \/ TryShowFallback \/ AutoExit PROVE TypeOK'
    OBVIOUS
  <1>q. queue \in Seq(Call)
    BY DEF TypeOK
  <1>1. CASE TryShow
    <2>1. CASE loadFinished /\ showUrl # None
      <3>1. Resolve(queue)
        BY <1>1, <2>1 DEF TryShow
      <3>2. /\ queue' \in Seq(Call) /\ showUrl' = None /\ showTimer' = FALSE
            /\ pagePending' \in BOOLEAN
            /\ replies' \in [Requests -> Seq({"found", "notFound"})]
        BY <1>q, <2>1, <3>1, ResolveType
      <3>3. QED
        BY <1>1, <3>2 DEF TryShow, TypeOK, windowVars, pluginVars
    <2>2. CASE ~loadFinished
      <3>1. showTimer' \in BOOLEAN /\ UNCHANGED <<queue, showUrl, pagePending, replies>>
        BY <1>1, <2>2 DEF TryShow, TypeOK
      <3>2. QED
        BY <1>1, <3>1 DEF TryShow, TypeOK, windowVars, pluginVars
    <2>3. QED
      BY <1>1, <2>1, <2>2 DEF TryShow, TimerHasRequest
  <1>2. CASE TryShowFallback
    <2>1. queue' \in Seq(Call) /\ pagePending' \in BOOLEAN
      BY <1>2, <1>q, ShowHomeType DEF TryShowFallback, TypeOK
    <2>2. QED
      BY <1>2, <2>1 DEF TryShowFallback, TypeOK, windowVars, pluginVars, historyVars
  <1>3. CASE AutoExit
    <2>1. /\ deleting' \in BOOLEAN /\ showUrl' \in Requests \cup {None} /\ showTimer' \in BOOLEAN
          /\ dropped' \subseteq Requests
      BY <1>3 DEF AutoExit, Quit, TypeOK
    <2>2. QED
      BY <1>3, <2>1 DEF AutoExit, TypeOK, windowVars, pluginVars
  <1>4. QED
    BY <1>1, <1>2, <1>3

\* The plugins keep the state well typed.
LEMMA PluginsTypeOK == TypeOK /\ Plugins => TypeOK'
  <1> SUFFICES ASSUME TypeOK, Plugins PROVE TypeOK'
    OBVIOUS
  <1>q. queue \in Seq(Call) /\ [do |-> "navigation"] \in Call /\ [do |-> "loaded"] \in Call
    BY CallTypes DEF TypeOK
  <1>1. CASE NavigationReady
    BY <1>q, <1>1 DEF NavigationReady, TypeOK, windowVars, timerVars, historyVars
  <1>2. CASE FinishLoading
    BY <1>2 DEF FinishLoading, TypeOK, windowVars, timerVars, historyVars
  <1>3. CASE AnnounceLoaded
    BY <1>q, <1>3 DEF AnnounceLoaded, TypeOK, windowVars, timerVars, historyVars
  <1>4. CASE StartLoadingAgain
    <2>1. unloads' \in Nat /\ loadFinished' = FALSE
      BY <1>4 DEF StartLoadingAgain, TypeOK
    <2>2. QED
      BY <1>4, <2>1 DEF StartLoadingAgain, TypeOK, windowVars, timerVars, historyVars
  <1>5. ASSUME NEW p \in Pages, Attach(p) PROVE TypeOK'
    BY <1>5 DEF Attach, TypeOK, windowVars, timerVars, historyVars
  <1>6. ASSUME NEW p \in Pages, Detach(p) PROVE TypeOK'
    <2>1. attached' \subseteq Pages /\ left' \subseteq Pages /\ gone' \subseteq Pages
      BY <1>6 DEF Detach, TypeOK
    <2>2. /\ active' \in Pages \cup {None} /\ pagePending' \in BOOLEAN /\ fallbackTimer' \in BOOLEAN
          /\ visible' \in BOOLEAN /\ needShow' \in BOOLEAN /\ asked' = asked
      <3>1. CASE active = p /\ attached' # {}
        <4>1. FirstPage' \in Pages
          BY <2>1, <3>1, LeastRank DEF FirstPage
        <4>2. Activate(FirstPage') /\ pagePending' = FALSE
          BY <1>6, <3>1 DEF Detach
        <4>3. /\ active' \in Pages /\ fallbackTimer' \in BOOLEAN /\ visible' \in BOOLEAN
              /\ needShow' \in BOOLEAN /\ asked' = asked
          BY <4>1, <4>2 DEF TypeOK, Activate, Raise
        <4>4. QED
          BY <4>2, <4>3
      <3>2. CASE ~(active = p /\ attached' # {})
        BY <1>6, <3>2 DEF Detach, TypeOK, windowVars
      <3>3. QED
        BY <3>1, <3>2
    <2>3. QED
      BY <1>6, <2>1, <2>2 DEF Detach, TypeOK, historyVars
  <1>7. QED
    BY <1>1, <1>2, <1>3, <1>4, <1>5, <1>6 DEF Plugins

\* The user keeps the state well typed.
LEMMA UserTypeOK == TypeOK /\ User => TypeOK'
  <1> SUFFICES ASSUME TypeOK, User PROVE TypeOK'
    OBVIOUS
  <1>1. CASE ShowWindow
    BY <1>1 DEF ShowWindow, Raise, TypeOK, pluginVars, timerVars, historyVars
  <1>2. CASE Toggle
    BY <1>2 DEF Toggle, TypeOK, pluginVars, timerVars, historyVars
  <1>3. CASE HideWindow
    <2>1. hides' \in Nat /\ visible' = FALSE /\ asked' = {}
      BY <1>3 DEF HideWindow, TypeOK
    <2>2. QED
      BY <1>3, <2>1 DEF HideWindow, TypeOK, pluginVars, timerVars, historyVars
  <1>4. CASE SearchActivity
    BY <1>4 DEF SearchActivity, TypeOK, pluginVars, windowVars, historyVars
  <1>5. ASSUME NEW r \in Requests, MakeRequest(r) PROVE TypeOK'
    <2>1. [do |-> "call", req |-> r] \in Call
      BY CallTypes
    <2>2. queue' \in Seq(Call) /\ made' \subseteq Requests
      BY <1>5, <2>1 DEF MakeRequest, TypeOK
    <2>3. QED
      BY <1>5, <2>2 DEF MakeRequest, TypeOK, pluginVars, windowVars, timerVars, historyVars
  <1>6. QED
    BY <1>1, <1>2, <1>3, <1>4, <1>5 DEF User

\* Only tryShow, a waitShowPage and the end of the program write the pending request, and
\* none of them leaves the timer running without one.
LEMMA TimerKept == TypeOK /\ TimerHasRequest /\ [Next]_vars => TimerHasRequest'
  <1> SUFFICES ASSUME TypeOK, TimerHasRequest, [Next]_vars PROVE TimerHasRequest'
    OBVIOUS
  <1>1. CASE PostedCall
    <2>1. \A r : WaitPending(r) /\ r \in Requests => TimerHasRequest'
      BY DEF WaitPending, TimerHasRequest
    <2>2. PICK c : c = Head(queue)
      OBVIOUS
    <2>3. queue # <<>> /\ c \in Call
      BY <1>1, <2>2, QueueParts DEF PostedCall
    <2>4. CASE c.do = "wait" /\ WaitPending(c.req)
      BY <2>1, <2>3, <2>4, CallCases
    <2>5. CASE HandleLoadFinished
      BY <2>5 DEF HandleLoadFinished, Resolve, TimerHasRequest
    <2>6. CASE HandleNavigationReady
      BY <2>6 DEF HandleNavigationReady, TimerHasRequest
    <2>7. CASE ShowPageUrl(c.req)
      BY <2>7 DEF ShowPageUrl, TimerHasRequest, timerVars
    <2>8. CASE WaitFound(c.req) \/ WaitNotFound(c.req) \/ WaitDeleting(c.req)
      BY <2>8 DEF WaitFound, WaitNotFound, WaitDeleting, TimerHasRequest, timerVars
    <2>9. CASE DoShowPage(c) \/ DoShowCommand(c) \/ DoShowNothing(c)
      BY <2>9 DEF DoShowPage, DoShowCommand, DoShowNothing, DoShow, TimerHasRequest
    <2>10. QED
      BY <1>1, <2>2, <2>4, <2>5, <2>6, <2>7, <2>8, <2>9 DEF PostedCall
  <1>2. CASE TryShow
    BY <1>2 DEF TryShow, Resolve, TimerHasRequest
  <1>3. CASE TryShowFallback \/ AutoExit
    BY <1>3 DEF TryShowFallback, AutoExit, Quit, TimerHasRequest
  <1>4. CASE Plugins
    BY <1>4 DEF Plugins, NavigationReady, FinishLoading, AnnounceLoaded, StartLoadingAgain,
                Attach, Detach, TimerHasRequest, timerVars
  <1>5. CASE User
    BY <1>5 DEF User, ShowWindow, Toggle, HideWindow, SearchActivity, MakeRequest,
                TimerHasRequest, timerVars
  <1>6. CASE UNCHANGED vars
    BY <1>6 DEF vars, timerVars, TimerHasRequest
  <1>7. QED
    BY <1>1, <1>2, <1>3, <1>4, <1>5, <1>6 DEF Next

\* Every show() leaves the window visible or needed, opening a page keeps that, and who
\* hides the window takes the request back.
LEMMA WantedKept == Wanted /\ [Next]_vars => Wanted'
  <1> SUFFICES ASSUME Wanted, [Next]_vars PROVE Wanted'
    OBVIOUS
  <1>1. CASE PostedCall
    <2>2. PICK c : c = Head(queue)
      OBVIOUS
    <2>3. CASE HandleLoadFinished \/ HandleNavigationReady
      BY <2>3 DEF HandleLoadFinished, HandleNavigationReady, Wanted, windowVars
    <2>4. CASE ShowPageUrl(c.req)
      BY <2>4 DEF ShowPageUrl, Raise, Wanted, windowVars
    <2>5. CASE WaitFound(c.req) \/ WaitPending(c.req) \/ WaitNotFound(c.req) \/ WaitDeleting(c.req)
      BY <2>5 DEF WaitFound, WaitPending, WaitNotFound, WaitDeleting, Wanted, windowVars
    <2>6. CASE DoShowPage(c)
      BY <2>6 DEF DoShowPage, Activate, Raise, Wanted
    <2>7. CASE DoShowCommand(c) \/ DoShowNothing(c)
      BY <2>7 DEF DoShowCommand, DoShowNothing, Wanted, windowVars
    <2>8. QED
      BY <1>1, <2>2, <2>3, <2>4, <2>5, <2>6, <2>7 DEF PostedCall
  <1>2. CASE TryShow \/ TryShowFallback \/ AutoExit
    BY <1>2 DEF TryShow, TryShowFallback, AutoExit, Wanted, windowVars
  <1>3. CASE NavigationReady \/ FinishLoading \/ AnnounceLoaded \/ StartLoadingAgain
    BY <1>3 DEF NavigationReady, FinishLoading, AnnounceLoaded, StartLoadingAgain, Wanted,
                windowVars
  <1>4. ASSUME NEW p \in Pages, Attach(p) \/ Detach(p) PROVE Wanted'
    BY <1>4 DEF Attach, Detach, Activate, Raise, Wanted, windowVars
  <1>5. CASE User
    BY <1>5 DEF User, ShowWindow, Toggle, HideWindow, SearchActivity, MakeRequest, Raise,
                Wanted, windowVars
  <1>6. CASE UNCHANGED vars
    BY <1>6 DEF vars, windowVars, Wanted
  <1>7. QED
    BY <1>1, <1>2, <1>3, <1>4, <1>5, <1>6 DEF Next, Plugins

\* A step that ends the program is the timer's, which sees that nobody wants the window.
LEMMA ExitStep == Wanted /\ [Next]_vars => (deleting' /\ ~deleting => asked = {})
  <1> SUFFICES ASSUME Wanted, [Next]_vars, deleting', ~deleting PROVE asked = {}
    OBVIOUS
  <1>1. CASE PostedCall
    <2>1. UNCHANGED deleting
      <3>1. PICK c : c = Head(queue)
        OBVIOUS
      <3>2. CASE HandleLoadFinished \/ HandleNavigationReady \/ ShowPageUrl(c.req)
        BY <3>2 DEF HandleLoadFinished, HandleNavigationReady, ShowPageUrl
      <3>3. CASE WaitFound(c.req) \/ WaitPending(c.req) \/ WaitNotFound(c.req) \/ WaitDeleting(c.req)
        BY <3>3 DEF WaitFound, WaitPending, WaitNotFound, WaitDeleting
      <3>4. CASE DoShowPage(c) \/ DoShowCommand(c) \/ DoShowNothing(c)
        BY <3>4 DEF DoShowPage, DoShowCommand, DoShowNothing, DoShow
      <3>5. QED
        BY <1>1, <3>1, <3>2, <3>3, <3>4 DEF PostedCall
    <2>2. QED
      BY <2>1
  <1>2. CASE AutoExit
    BY <1>2 DEF AutoExit, Unused, Wanted
  <1>3. CASE TryShow \/ TryShowFallback
    BY <1>3 DEF TryShow, TryShowFallback
  <1>4. CASE Plugins
    BY <1>4 DEF Plugins, NavigationReady, FinishLoading, AnnounceLoaded, StartLoadingAgain,
                Attach, Detach
  <1>5. CASE User
    BY <1>5 DEF User, ShowWindow, Toggle, HideWindow, SearchActivity, MakeRequest
  <1>6. CASE UNCHANGED vars
    BY <1>6 DEF vars
  <1>7. QED
    BY <1>1, <1>2, <1>3, <1>4, <1>5, <1>6 DEF Next

\* The state is well typed, and the tryShow timer never finds the pending request gone.
THEOREM TypeCorrect == Spec => []TypeOK
  <1> DEFINE IInv == TypeOK /\ TimerHasRequest
  <1>1. Init => IInv
    BY InitTypeOK DEF Init, TimerHasRequest
  <1>2. IInv /\ [Next]_vars => IInv'
    <2> SUFFICES ASSUME TypeOK, TimerHasRequest, [Next]_vars PROVE IInv'
      OBVIOUS
    <2>1. TypeOK'
      <3>1. CASE UNCHANGED vars
        BY <3>1 DEF vars, windowVars, pluginVars, timerVars, historyVars, TypeOK
      <3>2. QED
        BY <3>1, PostedCallTypeOK, TimerTypeOK, PluginsTypeOK, UserTypeOK DEF Next
    <2>2. QED
      BY <2>1, TimerKept
  <1>3. QED
    BY <1>1, <1>2, PTL DEF Spec

\* The automatic exit never ends the program while somebody who asked for the window has
\* it open or waits for its first page.
THEOREM ExitsOnlyUnasked == Spec => ExitOnlyUnasked
  <1>1. Init => Wanted
    BY DEF Init, Wanted
  <1>2. Spec => []Wanted
    BY <1>1, WantedKept, PTL DEF Spec
  <1>3. QED
    BY <1>2, ExitStep, PTL DEF Spec, ExitOnlyUnasked

-----------------------------------------------------------------------------
(* A command reaches its page.                                              *)

\* A show that belongs to a request shows the page of the request.
Meant(c) == c.do = "show" /\ c.req # None => c.page = c.req.target
ShowsMeant == \A i \in DOMAIN queue : Meant(queue[i])

\* The calls a step posts.
LEMMA PostsMeant ==
  /\ \A r \in Requests : /\ Meant([do |-> "call", req |-> r])
                         /\ Meant([do |-> "wait", req |-> r])
                         /\ Meant(Show(r.target, r))
  /\ Meant(Show(Home, None)) /\ Meant([do |-> "navigation"]) /\ Meant([do |-> "loaded"])
  BY DEF Meant, Show

\* The queue q after a step that posts at most one call.
Posts(q) == queue' = q \/ \E c \in Call : Meant(c) /\ queue' = Append(q, c)

\* Answering the pending request posts at most one call.
LEMMA ResolvePosts ==
  ASSUME TypeOK, NEW q \in Seq(Call), showUrl # None, Resolve(q)
  PROVE  Posts(q)
  <1>1. showUrl \in Requests
    BY DEF TypeOK
  <1>2. Show(showUrl.target, showUrl) \in Call /\ Show(Home, None) \in Call
    BY <1>1, CallTypes DEF Request
  <1>3. QED
    BY <1>1, <1>2, PostsMeant DEF Resolve, ShowHome, Posts

\* Delivering a call takes it off the queue.
LEMMA PostedTakes ==
  ASSUME TypeOK, PostedCall
  PROVE  queue # <<>> /\ Posts(Tail(queue))
  <1>1. queue # <<>> /\ Head(queue) \in Call /\ Tail(queue) \in Seq(Call)
    BY QueueParts DEF PostedCall
  <1>2. PICK c : c = Head(queue)
    OBVIOUS
  <1>3. /\ Show(Home, None) \in Call /\ Meant(Show(Home, None))
        /\ \A r \in Requests : /\ [do |-> "wait", req |-> r] \in Call /\ Meant([do |-> "wait", req |-> r])
                               /\ Show(r.target, r) \in Call /\ Meant(Show(r.target, r))
    BY CallTypes, PostsMeant DEF Request
  <1>4. CASE HandleNavigationReady
    BY <1>1, <1>3, <1>4 DEF HandleNavigationReady, HomeIfIdle, ShowHome, Posts
  <1>5. CASE HandleLoadFinished
    BY <1>1, <1>3, <1>5, ResolvePosts DEF HandleLoadFinished, HomeIfIdle, ShowHome, Posts
  <1>6. CASE c.do = "call" /\ ShowPageUrl(c.req)
    BY <1>1, <1>2, <1>3, <1>6, CallCases DEF ShowPageUrl, Posts
  <1>7. CASE c.do = "wait" /\ (WaitFound(c.req) \/ WaitPending(c.req) \/ WaitNotFound(c.req)
                              \/ WaitDeleting(c.req))
    BY <1>1, <1>2, <1>3, <1>7, CallCases DEF WaitFound, WaitPending, WaitNotFound, WaitDeleting, Posts
  <1>8. CASE DoShowPage(c) \/ DoShowCommand(c) \/ DoShowNothing(c)
    <2>1. DoShow(c)
      BY <1>8 DEF DoShowPage, DoShowCommand, DoShowNothing
    <2>2. QED
      BY <1>1, <2>1 DEF DoShow, Posts
  <1>9. QED
    BY <1>1, <1>2, <1>4, <1>5, <1>6, <1>7, <1>8 DEF PostedCall

\* Every other step takes nothing off the queue.
LEMMA OthersPost ==
  ASSUME TypeOK, TimerHasRequest, [Next]_vars, ~PostedCall
  PROVE  Posts(queue)
  <1>1. Show(Home, None) \in Call /\ Meant(Show(Home, None))
    BY CallTypes, PostsMeant
  <1>2. CASE TryShow
    BY <1>2, ResolvePosts DEF TryShow, TimerHasRequest, TypeOK, Posts
  <1>3. CASE TryShowFallback
    BY <1>1, <1>3 DEF TryShowFallback, ShowHome, Posts
  <1>4. CASE AutoExit
    BY <1>4 DEF AutoExit, Posts
  <1>5. CASE Plugins
    BY <1>5, CallTypes, PostsMeant DEF Plugins, NavigationReady, FinishLoading, AnnounceLoaded,
       StartLoadingAgain, Attach, Detach, Posts
  <1>6. CASE User
    BY <1>6, CallTypes, PostsMeant DEF User, ShowWindow, Toggle, HideWindow, SearchActivity,
       MakeRequest, Posts
  <1>7. CASE UNCHANGED vars
    BY <1>7 DEF vars, Posts
  <1>8. QED
    BY <1>2, <1>3, <1>4, <1>5, <1>6, <1>7 DEF Next

\* What holds of every posted call goes on doing so.
LEMMA PostsKept ==
  ASSUME TypeOK, ShowsMeant, NEW q \in Seq(Call), \A i \in DOMAIN q : Meant(q[i]), Posts(q)
  PROVE  ShowsMeant'
  <1>1. CASE queue' = q
    BY <1>1 DEF ShowsMeant, Meant
  <1>2. ASSUME NEW c \in Call, Meant(c), queue' = Append(q, c) PROVE ShowsMeant'
    <2>1. SUFFICES ASSUME NEW i \in 1..(Len(q) + 1) PROVE Meant(Append(q, c)[i])
      BY <1>2 DEF ShowsMeant, Meant
    <2>2. CASE i = Len(q) + 1
      BY <1>2, <2>2
    <2>3. CASE i \in 1..Len(q)
      <3>1. Append(q, c)[i] = q[i]
        BY <2>3
      <3>2. QED
        BY <2>3, <3>1
    <2>4. QED
      BY <2>2, <2>3
  <1>3. QED
    BY <1>1, <1>2 DEF Posts

LEMMA ShowsMeantKept == TypeOK /\ TimerHasRequest /\ ShowsMeant /\ [Next]_vars => ShowsMeant'
  <1> SUFFICES ASSUME TypeOK, TimerHasRequest, ShowsMeant, [Next]_vars PROVE ShowsMeant'
    OBVIOUS
  <1>1. queue \in Seq(Call)
    BY DEF TypeOK
  <1>2. CASE PostedCall
    <2>1. queue # <<>> /\ Posts(Tail(queue)) /\ Tail(queue) \in Seq(Call)
      BY <1>2, PostedTakes, QueueParts
    <2>2. \A i \in DOMAIN Tail(queue) : i + 1 \in DOMAIN queue /\ Tail(queue)[i] = queue[i + 1]
      BY <1>1, <2>1
    <2>3. \A i \in DOMAIN Tail(queue) : Meant(Tail(queue)[i])
      BY <2>2 DEF ShowsMeant
    <2>4. QED
      BY <2>1, <2>3, PostsKept
  <1>3. CASE ~PostedCall
    BY <1>1, <1>3, OthersPost, PostsKept DEF ShowsMeant
  <1>4. QED
    BY <1>2, <1>3

\* A show stays posted over a step that posts behind it.
LEMMA StaysPosted ==
  ASSUME NEW r, NEW q \in Seq(Call), Posts(q), NEW i \in DOMAIN q, q[i].do = "show", q[i].req = r
  PROVE  Waits(r)'
  <1>1. CASE queue' = q
    BY <1>1 DEF Waits
  <1>2. ASSUME NEW c \in Call, queue' = Append(q, c) PROVE Waits(r)'
    <2>1. i \in DOMAIN Append(q, c) /\ Append(q, c)[i] = q[i]
      OBVIOUS
    <2>2. QED
      BY <1>2, <2>1 DEF Waits
  <1>3. QED
    BY <1>1, <1>2 DEF Posts

\* Delivering a command's own show emits the command, unless the page is destroyed.
LEMMA CommandTaken ==
  ASSUME TypeOK, ShowsMeant, PostedCall, NEW r \in Requests, HasCommand(r),
         Head(queue).do = "show", Head(queue).req = r
  PROVE  r \in activated' \/ r.target \in gone \/ deleting
  <1>1. PICK c : c = Head(queue)
    OBVIOUS
  <1>2. c.req = r /\ c.page = r.target
    <2>1. queue # <<>> /\ queue \in Seq(Call)
      BY DEF PostedCall, TypeOK
    <2>2. Head(queue) = queue[1] /\ 1 \in DOMAIN queue
      BY <2>1
    <2>3. QED
      BY <1>1, <2>2, RequestsAssumption DEF ShowsMeant, Meant
  <1>3. ~HandleNavigationReady /\ ~HandleLoadFinished
    BY DEF HandleNavigationReady, HandleLoadFinished, Delivered
  <1>4. DoShowPage(c) \/ DoShowCommand(c) \/ DoShowNothing(c)
    BY <1>1, <1>3 DEF PostedCall
  <1>5. QED
    BY <1>2, <1>4 DEF DoShowPage, DoShowCommand, DoShowNothing, Switches, Commands

LEMMA CommandStep ==
  ASSUME TypeOK, TimerHasRequest, ShowsMeant, [Next]_vars, NEW r \in Requests, HasCommand(r), Waits(r)
  PROVE  Waits(r)' \/ r \in activated' \/ r.target \in gone \/ deleting
  <1>1. PICK i \in DOMAIN queue : queue[i].do = "show" /\ queue[i].req = r
    BY DEF Waits
  <1>2. queue \in Seq(Call)
    BY DEF TypeOK
  <1>3. CASE ~PostedCall
    BY <1>1, <1>2, <1>3, OthersPost, StaysPosted
  <1>4. CASE PostedCall /\ i = 1
    BY <1>1, <1>2, <1>4, CommandTaken
  <1>5. CASE PostedCall /\ i # 1
    <2>1. queue # <<>> /\ Posts(Tail(queue)) /\ Tail(queue) \in Seq(Call)
      BY <1>5, PostedTakes, QueueParts
    <2>2. i - 1 \in DOMAIN Tail(queue) /\ Tail(queue)[i - 1] = queue[i]
      BY <1>1, <1>2, <1>5, <2>1
    <2>3. QED
      BY <1>1, <2>1, <2>2, StaysPosted
  <1>6. QED
    BY <1>3, <1>4, <1>5

\* A command whose page was found is emitted when its show is delivered, unless the page
\* is destroyed or the program ends.
THEOREM CommandsReachPages == Spec => CommandDelivered
  <1>1. Init => TypeOK /\ TimerHasRequest /\ ShowsMeant
    BY InitTypeOK DEF Init, TimerHasRequest, ShowsMeant
  <1>2. TypeOK /\ TimerHasRequest /\ ShowsMeant /\ [Next]_vars => TimerHasRequest' /\ ShowsMeant'
    BY TimerKept, ShowsMeantKept
  <1>3. TypeOK /\ TimerHasRequest /\ ShowsMeant /\ [Next]_vars
        => [\A r \in {q \in Requests : HasCommand(q)} :
              Waits(r) => Waits(r)' \/ r \in activated' \/ r.target \in gone \/ deleting]_vars
    BY CommandStep
  <1>4. QED
    BY <1>1, <1>2, <1>3, TypeCorrect, PTL DEF Spec, CommandDelivered

-----------------------------------------------------------------------------
\* What has become of each request over D-Bus.

\* A request that is on its way to showPage or waitShowPage.
IsRequestCall(c) == c.do \in {"call", "wait"}

CalledIn(q, r) == \E i \in DOMAIN q : IsRequestCall(q[i]) /\ q[i].req = r

OnceIn(q) ==
  \A i, j \in DOMAIN q :
    IsRequestCall(q[i]) /\ IsRequestCall(q[j]) /\ q[i].req = q[j].req => i = j

\* Each request is posted at most once at a time, and only after it has been made.
AccountInv ==
  /\ OnceIn(queue)
  /\ \A r \in Requests : CalledIn(queue, r) => r \in made
  /\ Accounted

\* Behind a call that is appended the queue is as before.
LEMMA CalledInAppend ==
  ASSUME NEW q \in Seq(Call), NEW c \in Call
  PROVE  /\ \A r : CalledIn(Append(q, c), r) <=> CalledIn(q, r) \/ (IsRequestCall(c) /\ c.req = r)
         /\ OnceIn(q) /\ (IsRequestCall(c) => ~CalledIn(q, c.req)) => OnceIn(Append(q, c))
  <1> DEFINE a == Append(q, c)
  <1>1. /\ DOMAIN q = 1..Len(q) /\ DOMAIN a = 1..(Len(q) + 1) /\ Len(q) \in Nat
        /\ a[Len(q) + 1] = c /\ \A i \in 1..Len(q) : a[i] = q[i]
    OBVIOUS
  <1> HIDE DEF a
  <1>2. \A r : CalledIn(a, r) <=> CalledIn(q, r) \/ (IsRequestCall(c) /\ c.req = r)
    <2>1. \A i \in 1..(Len(q) + 1) : i \in 1..Len(q) \/ i = Len(q) + 1
      BY <1>1
    <2>2. 1..Len(q) \subseteq 1..(Len(q) + 1) /\ Len(q) + 1 \in 1..(Len(q) + 1)
      BY <1>1
    <2>3. QED
      BY <1>1, <2>1, <2>2 DEF CalledIn
  <1>3. ASSUME OnceIn(q), IsRequestCall(c) => ~CalledIn(q, c.req)
        PROVE  OnceIn(a)
    <2>1. \A i \in 1..(Len(q) + 1) : i \in 1..Len(q) \/ i = Len(q) + 1
      BY <1>1
    <2>2. QED
      BY <1>1, <1>3, <2>1 DEF OnceIn, CalledIn
  <1>4. QED
    BY <1>2, <1>3 DEF a

\* A call that is delivered leaves the queue, and as it was in it once, it is gone.
LEMMA CalledInTail ==
  ASSUME NEW q \in Seq(Call), q # <<>>, OnceIn(q)
  PROVE  /\ \A r : CalledIn(Tail(q), r)
                   <=> CalledIn(q, r) /\ ~(IsRequestCall(Head(q)) /\ Head(q).req = r)
         /\ OnceIn(Tail(q))
  <1> DEFINE t == Tail(q)
             h == Head(q)
             n == Len(q)
  <1>1. /\ n \in Nat /\ n >= 1 /\ DOMAIN q = 1..n /\ DOMAIN t = 1..(n - 1) /\ q[1] = h
        /\ \A i \in 1..(n - 1) : t[i] = q[i + 1]
    OBVIOUS
  <1> HIDE DEF t, h, n
  <1>2. \A i \in 1..(n - 1) : i + 1 \in 1..n /\ i + 1 # 1
    BY <1>1
  <1>3. \A j \in 1..n : j = 1 \/ \E i \in 1..(n - 1) : j = i + 1
    <2> SUFFICES ASSUME NEW j \in 1..n, j # 1 PROVE \E i \in 1..(n - 1) : j = i + 1
      OBVIOUS
    <2>1. j - 1 \in 1..(n - 1) /\ j = (j - 1) + 1
      BY <1>1
    <2>2. QED
      BY <2>1
  <1>4. 1 \in 1..n
    BY <1>1
  <1>5. ASSUME NEW r
        PROVE  CalledIn(t, r) <=> CalledIn(q, r) /\ ~(IsRequestCall(h) /\ h.req = r)
    <2>1. ASSUME CalledIn(t, r)
          PROVE  CalledIn(q, r) /\ ~(IsRequestCall(h) /\ h.req = r)
      <3>1. PICK i \in 1..(n - 1) : IsRequestCall(q[i + 1]) /\ q[i + 1].req = r
        BY <1>1, <2>1 DEF CalledIn
      <3>2. CalledIn(q, r)
        BY <1>1, <1>2, <3>1 DEF CalledIn
      <3>3. ~(IsRequestCall(h) /\ h.req = r)
        BY <1>1, <1>2, <1>4, <3>1 DEF OnceIn
      <3>4. QED
        BY <3>2, <3>3
    <2>2. ASSUME CalledIn(q, r), ~(IsRequestCall(h) /\ h.req = r)
          PROVE  CalledIn(t, r)
      <3>1. PICK j \in 1..n : IsRequestCall(q[j]) /\ q[j].req = r
        BY <1>1, <2>2 DEF CalledIn
      <3>2. j # 1
        BY <1>1, <2>2, <3>1
      <3>3. PICK i \in 1..(n - 1) : j = i + 1
        BY <1>3, <3>2
      <3>4. t[i] = q[j]
        BY <1>1, <3>3
      <3>5. QED
        BY <1>1, <3>1, <3>4 DEF CalledIn
    <2>3. QED
      BY <2>1, <2>2
  <1>6. OnceIn(t)
    <2> SUFFICES ASSUME NEW i \in 1..(n - 1), NEW j \in 1..(n - 1),
                        IsRequestCall(q[i + 1]), IsRequestCall(q[j + 1]),
                        q[i + 1].req = q[j + 1].req
                 PROVE  i = j
      BY <1>1 DEF OnceIn
    <2>1. i + 1 = j + 1
      BY <1>1, <1>2 DEF OnceIn
    <2>2. QED
      BY <1>1, <2>1
  <1>7. QED
    BY <1>5, <1>6 DEF t, h

\* Whether one thing is in a set, as a number.
LEMMA MemberCount ==
  ASSUME NEW r, r # None
  PROVE  /\ \A x : Cardinality({x, None} \cap {r}) = IF x = r THEN 1 ELSE 0
         /\ \A d : Cardinality(d \cap {r}) = IF r \in d THEN 1 ELSE 0
  <1>1. Cardinality({r}) = 1 /\ Cardinality({}) = 0
    BY FS_Singleton, FS_EmptySet
  <1>2. \A x : {x, None} \cap {r} = IF x = r THEN {r} ELSE {}
    OBVIOUS
  <1>3. \A d : d \cap {r} = IF r \in d THEN {r} ELSE {}
    OBVIOUS
  <1>4. QED
    BY <1>1, <1>2, <1>3

\* What a request has come to: its replies, whether it is pending, whether it was given up.
LEMMA OutcomesValue ==
  ASSUME TypeOK, TypeOK', NEW r \in Requests
  PROVE  /\ Len(replies[r]) \in Nat /\ Len(replies'[r]) \in Nat
         /\ showUrl = r /\ r \in dropped => Outcomes(r) = Len(replies[r]) + 2
         /\ showUrl = r /\ r \notin dropped => Outcomes(r) = Len(replies[r]) + 1
         /\ showUrl # r /\ r \in dropped => Outcomes(r) = Len(replies[r]) + 1
         /\ showUrl # r /\ r \notin dropped => Outcomes(r) = Len(replies[r])
         /\ showUrl' = r /\ r \in dropped' => Outcomes(r)' = Len(replies'[r]) + 2
         /\ showUrl' = r /\ r \notin dropped' => Outcomes(r)' = Len(replies'[r]) + 1
         /\ showUrl' # r /\ r \in dropped' => Outcomes(r)' = Len(replies'[r]) + 1
         /\ showUrl' # r /\ r \notin dropped' => Outcomes(r)' = Len(replies'[r])
  <1>1. r # None
    OBVIOUS
  <1>2. replies[r] \in Seq({"found", "notFound"}) /\ replies'[r] \in Seq({"found", "notFound"})
    BY DEF TypeOK
  <1>3. Len(replies[r]) \in Nat /\ Len(replies'[r]) \in Nat
    BY <1>2
  <1>4. \A n \in Nat : \A x, d :
          LET v == n + (IF x = r THEN 1 ELSE 0) + (IF r \in d THEN 1 ELSE 0)
          IN  /\ x = r /\ r \in d => v = n + 2
              /\ x = r /\ r \notin d => v = n + 1
              /\ x # r /\ r \in d => v = n + 1
              /\ x # r /\ r \notin d => v = n
    OBVIOUS
  <1>5. Outcomes(r) = Len(replies[r]) + (IF showUrl = r THEN 1 ELSE 0)
                                      + (IF r \in dropped THEN 1 ELSE 0)
    BY <1>1, MemberCount DEF Outcomes
  <1>6. Outcomes(r)' = Len(replies'[r]) + (IF showUrl' = r THEN 1 ELSE 0)
                                        + (IF r \in dropped' THEN 1 ELSE 0)
    BY <1>1, MemberCount DEF Outcomes
  <1>7. QED
    BY <1>3, <1>4, <1>5, <1>6

\* Nothing but a call that is no request is posted behind q.
QuietFrom(q) == queue' = q \/ \E c \in Call : ~IsRequestCall(c) /\ queue' = Append(q, c)

\* The requests that are called are then those called in q.
LEMMA QuietQueue ==
  ASSUME NEW q \in Seq(Call), OnceIn(q), QuietFrom(q)
  PROVE  OnceIn(queue') /\ \A r : CalledIn(queue', r) <=> CalledIn(q, r)
  <1>1. CASE queue' = q
    BY <1>1
  <1>2. CASE \E c \in Call : ~IsRequestCall(c) /\ queue' = Append(q, c)
    BY <1>2, CalledInAppend
  <1>3. QED
    BY <1>1, <1>2 DEF QuietFrom

\* A step that touches no request keeps the account.
LEMMA QuietAccount ==
  ASSUME TypeOK, TypeOK', AccountInv, UNCHANGED <<made, showUrl, replies, dropped>>,
         NEW q \in Seq(Call), OnceIn(q), \A r : CalledIn(q, r) <=> CalledIn(queue, r),
         QuietFrom(q)
  PROVE  AccountInv'
  <1>1. OnceIn(queue') /\ \A r : CalledIn(queue', r) <=> CalledIn(queue, r)
    BY QuietQueue
  <1>2. \A r : Outcomes(r)' = Outcomes(r)
    BY DEF Outcomes
  <1>3. QED
    BY <1>1, <1>2 DEF AccountInv, Accounted, Posted, CalledIn, OnceIn, IsRequestCall

\* What is in the queue when a call that is no request has been delivered.
LEMMA OtherDelivered ==
  ASSUME TypeOK, AccountInv, queue # <<>>, ~IsRequestCall(Head(queue))
  PROVE  /\ Tail(queue) \in Seq(Call) /\ OnceIn(Tail(queue))
         /\ \A r : CalledIn(Tail(queue), r) <=> CalledIn(queue, r)
  <1>1. queue \in Seq(Call) /\ OnceIn(queue)
    BY DEF TypeOK, AccountInv
  <1>2. QED
    BY <1>1, CalledInTail

\* The pending request is answered once and is not pending any more.
LEMMA ResolveAccount ==
  ASSUME TypeOK, TypeOK', AccountInv, showUrl # None, UNCHANGED <<made, dropped>>,
         NEW q \in Seq(Call), OnceIn(q), \A r : CalledIn(q, r) <=> CalledIn(queue, r),
         Resolve(q)
  PROVE  AccountInv'
  <1>1. showUrl \in Requests /\ showUrl.target \in Pages \cup {Home}
    BY DEF TypeOK, Request
  <1>2. QuietFrom(q)
    <2>1. /\ Show(showUrl.target, showUrl) \in Call /\ ~IsRequestCall(Show(showUrl.target, showUrl))
          /\ Show(Home, None) \in Call /\ ~IsRequestCall(Show(Home, None))
      BY <1>1, CallTypes DEF Show, IsRequestCall
    <2>2. QED
      BY <2>1 DEF Resolve, ShowHome, QuietFrom
  <1>3. OnceIn(queue') /\ \A r : CalledIn(queue', r) <=> CalledIn(queue, r)
    BY <1>2, QuietQueue
  <1>4. PICK answer \in {"found", "notFound"} : Reply(showUrl, answer)
    BY DEF Resolve
  <1>5. showUrl' = None
    BY DEF Resolve
  <1>6. ASSUME NEW r \in Requests, r.dbus
        PROVE  Outcomes(r)' = Outcomes(r)
    <2>1. CASE r = showUrl
      <3>1. replies' = [replies EXCEPT ![r] = Append(@, answer)]
        BY <1>4, <1>6, <2>1 DEF Reply
      <3>2. replies[r] \in Seq({"found", "notFound"}) /\ replies'[r] = Append(replies[r], answer)
        BY <3>1 DEF TypeOK
      <3>3. Len(replies'[r]) = Len(replies[r]) + 1
        BY <3>2
      <3>4. QED
        BY <1>5, <2>1, <3>3, OutcomesValue
    <2>2. CASE r # showUrl
      <3>1. replies'[r] = replies[r]
        BY <1>4, <2>2 DEF Reply, TypeOK
      <3>2. showUrl' # r
        BY <1>5
      <3>3. QED
        BY <2>2, <3>1, <3>2, OutcomesValue
    <2>3. QED
      BY <2>1, <2>2
  <1>7. Accounted'
    <2> SUFFICES ASSUME NEW x \in Requests, x.dbus
                 PROVE  Outcomes(x)' = IF x \in made /\ ~CalledIn(queue', x) THEN 1 ELSE 0
      BY DEF Accounted, Posted, CalledIn, IsRequestCall
    <2>1. QED
      BY <1>3, <1>6 DEF AccountInv, Accounted, Posted, CalledIn, IsRequestCall
  <1>8. QED
    BY <1>3, <1>7 DEF AccountInv, CalledIn, OnceIn, IsRequestCall

\* waitShowPage delivers a request: it was posted, so nothing has come of it yet, and it
\* has one outcome now, while what was pending is given up.
LEMMA WaitAccount ==
  ASSUME TypeOK, TypeOK', AccountInv, UNCHANGED made, NEW r \in Requests,
         queue # <<>>, Head(queue) = [do |-> "wait", req |-> r], QuietFrom(Tail(queue)),
         \/ Supersede(r) /\ showUrl' = r /\ replies' = replies
         \/ Supersede(r) /\ showUrl' = None /\ \E answer \in {"found", "notFound"} : Reply(r, answer)
         \/ dropped' = dropped \cup {r} /\ UNCHANGED <<showUrl, replies>>
  PROVE  AccountInv'
  <1>1. queue \in Seq(Call) /\ OnceIn(queue) /\ IsRequestCall(Head(queue)) /\ Head(queue).req = r
    BY DEF TypeOK, AccountInv, IsRequestCall
  <1>2. /\ Tail(queue) \in Seq(Call) /\ OnceIn(Tail(queue))
        /\ \A x : CalledIn(Tail(queue), x) <=> CalledIn(queue, x) /\ x # r
    BY <1>1, CalledInTail
  <1>3. OnceIn(queue') /\ \A x : CalledIn(queue', x) <=> CalledIn(queue, x) /\ x # r
    BY <1>2, QuietQueue
  <1>4. CalledIn(queue, r)
    <2>1. 1 \in DOMAIN queue /\ queue[1] = Head(queue)
      BY <1>1
    <2>2. QED
      BY <1>1, <2>1 DEF CalledIn
  <1>5. r \in made /\ r \in made'
    BY <1>4 DEF AccountInv
  <1>6. ASSUME r.dbus PROVE Outcomes(r)' = 1
    <2>1. Outcomes(r) = 0
      BY <1>4, <1>6 DEF AccountInv, Accounted, Posted, CalledIn, IsRequestCall
    <2>2. Len(replies[r]) = 0 /\ showUrl # r /\ r \notin dropped
      BY <2>1, OutcomesValue
    <2>3. CASE Supersede(r) /\ showUrl' = r /\ replies' = replies
      <3>1. r \notin dropped'
        BY <2>2, <2>3 DEF Supersede
      <3>2. QED
        BY <2>2, <2>3, <3>1, OutcomesValue
    <2>4. CASE Supersede(r) /\ showUrl' = None /\ \E answer \in {"found", "notFound"} : Reply(r, answer)
      <3>1. r \notin dropped' /\ showUrl' # r
        BY <2>2, <2>4 DEF Supersede
      <3>2. PICK answer \in {"found", "notFound"} : replies' = [replies EXCEPT ![r] = Append(@, answer)]
        BY <1>6, <2>4 DEF Reply
      <3>3. replies[r] \in Seq({"found", "notFound"}) /\ replies'[r] = Append(replies[r], answer)
        BY <3>2 DEF TypeOK
      <3>4. Len(replies'[r]) = 1
        BY <2>2, <3>3
      <3>5. QED
        BY <3>1, <3>4, OutcomesValue
    <2>5. CASE dropped' = dropped \cup {r} /\ UNCHANGED <<showUrl, replies>>
      BY <2>2, <2>5, OutcomesValue
    <2>6. QED
      BY <2>3, <2>4, <2>5
  <1>7. ASSUME NEW x \in Requests, x.dbus, x # r
        PROVE  Outcomes(x)' = Outcomes(x)
    <2>1. Outcomes(x) <= 1
      BY <1>7 DEF AccountInv, Accounted
    <2>2. showUrl = x => Len(replies[x]) = 0 /\ x \notin dropped
      BY <2>1, OutcomesValue
    <2>3. replies'[x] = replies[x]
      BY <1>7 DEF Reply, TypeOK
    <2>4. CASE Supersede(r) /\ (showUrl' = r \/ showUrl' = None)
      <3>1. showUrl' # x /\ (x \in dropped' <=> x \in dropped \/ showUrl = x)
        BY <1>7, <2>4 DEF Supersede
      <3>2. QED
        BY <2>2, <2>3, <3>1, OutcomesValue
    <2>5. CASE dropped' = dropped \cup {r} /\ UNCHANGED <<showUrl, replies>>
      BY <1>7, <2>3, <2>5, OutcomesValue
    <2>6. QED
      BY <2>4, <2>5
  <1>8. Accounted'
    <2> SUFFICES ASSUME NEW x \in Requests, x.dbus
                 PROVE  Outcomes(x)' = IF x \in made /\ ~CalledIn(queue', x) THEN 1 ELSE 0
      BY DEF Accounted, Posted, CalledIn, IsRequestCall
    <2>1. CASE x = r
      BY <1>3, <1>5, <1>6, <2>1
    <2>2. CASE x # r
      BY <1>3, <1>7, <2>2 DEF AccountInv, Accounted, Posted, CalledIn, IsRequestCall
    <2>3. QED
      BY <2>1, <2>2
  <1>9. QED
    BY <1>3, <1>8 DEF AccountInv, CalledIn, OnceIn, IsRequestCall

\* A posted show, and the calls for the two signals, are no requests.
LEMMA OtherCalls ==
  /\ \A p \in Pages \cup {Home}, r \in Requests \cup {None} :
       Show(p, r) \in Call /\ ~IsRequestCall(Show(p, r))
  /\ [do |-> "navigation"] \in Call /\ ~IsRequestCall([do |-> "navigation"])
  /\ [do |-> "loaded"] \in Call /\ ~IsRequestCall([do |-> "loaded"])
  BY CallTypes DEF Show, IsRequestCall

\* showPage(url) posts the request again, as a call of waitShowPage.
LEMMA ShowPageUrlAccount ==
  ASSUME TypeOK, TypeOK', AccountInv, NEW r \in Requests, ShowPageUrl(r)
  PROVE  AccountInv'
  <1> DEFINE w == [do |-> "wait", req |-> r]
  <1>1. /\ queue \in Seq(Call) /\ queue # <<>> /\ OnceIn(queue)
        /\ Head(queue).do = "call" /\ Head(queue).req = r
        /\ queue' = Append(Tail(queue), w)
    BY DEF TypeOK, AccountInv, ShowPageUrl, Delivered
  <1>2. IsRequestCall(Head(queue))
    BY <1>1 DEF IsRequestCall
  <1>3. /\ Tail(queue) \in Seq(Call) /\ OnceIn(Tail(queue))
        /\ \A x : CalledIn(Tail(queue), x) <=> CalledIn(queue, x) /\ x # r
    BY <1>1, <1>2, CalledInTail
  <1>4. w \in Call /\ IsRequestCall(w) /\ w.req = r
    BY CallTypes DEF IsRequestCall
  <1>5. CalledIn(queue, r)
    <2>1. 1 \in DOMAIN queue /\ queue[1] = Head(queue)
      BY <1>1
    <2>2. QED
      BY <1>1, <1>2, <2>1 DEF CalledIn
  <1> HIDE DEF w
  <1> DEFINE t == Tail(queue)
  <1>6. OnceIn(queue') /\ \A x : CalledIn(queue', x) <=> CalledIn(queue, x)
    <2>1. t \in Seq(Call) /\ OnceIn(t) /\ ~CalledIn(t, w.req) /\ queue' = Append(t, w)
      BY <1>1, <1>3, <1>4
    <2> HIDE DEF t
    <2>2. OnceIn(queue') /\ \A x : CalledIn(queue', x) <=> CalledIn(t, x) \/ w.req = x
      BY <1>4, <2>1, CalledInAppend
    <2>3. QED
      BY <1>3, <1>4, <1>5, <2>2 DEF t
  <1>7. UNCHANGED <<made, showUrl, replies, dropped>>
    BY DEF ShowPageUrl, timerVars, historyVars
  <1>8. \A x : Outcomes(x)' = Outcomes(x)
    BY <1>7 DEF Outcomes
  <1>9. Accounted'
    <2> SUFFICES ASSUME NEW x \in Requests, x.dbus
                 PROVE  Outcomes(x)' = IF x \in made' /\ ~CalledIn(queue', x) THEN 1 ELSE 0
      BY DEF Accounted, Posted, CalledIn, IsRequestCall
    <2>1. QED
      BY <1>6, <1>7, <1>8 DEF AccountInv, Accounted, Posted, CalledIn, IsRequestCall
  <1>10. QED
    BY <1>6, <1>7, <1>9 DEF AccountInv, CalledIn, OnceIn, IsRequestCall

\* A request is posted when it is made, and has come to nothing yet.
LEMMA MakeRequestAccount ==
  ASSUME TypeOK, AccountInv, NEW r \in Requests, MakeRequest(r)
  PROVE  AccountInv'
  <1> DEFINE c == [do |-> "call", req |-> r]
  <1>1. /\ queue \in Seq(Call) /\ OnceIn(queue) /\ r \notin made /\ made' = made \cup {r}
        /\ queue' = Append(queue, c) /\ UNCHANGED <<showUrl, replies, dropped>>
    BY DEF TypeOK, AccountInv, MakeRequest, historyVars
  <1>2. c \in Call /\ IsRequestCall(c) /\ c.req = r
    BY CallTypes DEF IsRequestCall
  <1>3. ~CalledIn(queue, r)
    BY <1>1 DEF AccountInv
  <1> HIDE DEF c
  <1>4. OnceIn(queue') /\ \A x : CalledIn(queue', x) <=> CalledIn(queue, x) \/ x = r
    BY <1>1, <1>2, <1>3, CalledInAppend
  <1>5. \A x : Outcomes(x)' = Outcomes(x)
    BY <1>1 DEF Outcomes
  <1>6. Accounted'
    <2> SUFFICES ASSUME NEW x \in Requests, x.dbus
                 PROVE  Outcomes(x)' = IF x \in made' /\ ~CalledIn(queue', x) THEN 1 ELSE 0
      BY DEF Accounted, Posted, CalledIn, IsRequestCall
    <2>1. Outcomes(x) = IF x \in made /\ ~CalledIn(queue, x) THEN 1 ELSE 0
      BY DEF AccountInv, Accounted, Posted, CalledIn, IsRequestCall
    <2>2. QED
      BY <1>1, <1>4, <1>5, <2>1
  <1>7. QED
    BY <1>1, <1>4, <1>6 DEF AccountInv, CalledIn, OnceIn, IsRequestCall

\* The end of the program gives up what is pending.
LEMMA AutoExitAccount ==
  ASSUME TypeOK, TypeOK', AccountInv, AutoExit
  PROVE  AccountInv'
  <1>1. UNCHANGED <<queue, made, replies>>
    BY DEF AutoExit
  <1>2. \/ UNCHANGED <<showUrl, dropped>>
        \/ showUrl' = None /\ dropped' = dropped \cup ({showUrl} \ {None})
    BY DEF AutoExit, Quit
  <1>3. ASSUME NEW x \in Requests, x.dbus
        PROVE  Outcomes(x)' = Outcomes(x)
    <2>1. Outcomes(x) <= 1
      BY <1>3 DEF AccountInv, Accounted
    <2>2. showUrl = x => Len(replies[x]) = 0 /\ x \notin dropped
      BY <2>1, OutcomesValue
    <2>3. CASE UNCHANGED <<showUrl, dropped>>
      BY <1>1, <2>3 DEF Outcomes
    <2>4. CASE showUrl' = None /\ dropped' = dropped \cup ({showUrl} \ {None})
      <3>1. showUrl' # x /\ (x \in dropped' <=> x \in dropped \/ showUrl = x)
        BY <2>4
      <3>2. QED
        BY <1>1, <2>2, <3>1, OutcomesValue
    <2>5. QED
      BY <1>2, <2>3, <2>4
  <1>4. QED
    BY <1>1, <1>3 DEF AccountInv, Accounted, Posted, CalledIn, OnceIn, IsRequestCall

\* A call that is delivered keeps the account.
LEMMA PostedCallAccount ==
  ASSUME TypeOK, TypeOK', AccountInv, PostedCall
  PROVE  AccountInv'
  <1> DEFINE c == Head(queue)
  <1>1. queue # <<>> /\ c \in Call /\ queue \in Seq(Call) /\ Tail(queue) \in Seq(Call)
    BY QueueParts DEF PostedCall, TypeOK
  <1>2. CASE HandleNavigationReady \/ HandleLoadFinished
    <2>1. c = [do |-> "navigation"] \/ c = [do |-> "loaded"]
      BY <1>2 DEF HandleNavigationReady, HandleLoadFinished, Delivered
    <2>2. ~IsRequestCall(c)
      BY <2>1, OtherCalls
    <2>3. /\ OnceIn(Tail(queue))
          /\ \A r : CalledIn(Tail(queue), r) <=> CalledIn(queue, r)
      BY <1>1, <2>2, OtherDelivered
    <2>4. CASE showUrl # None /\ HandleLoadFinished /\ loadFinished
      <3>1. Resolve(Tail(queue)) /\ UNCHANGED <<made, dropped>>
        BY <2>4 DEF HandleLoadFinished
      <3>2. QED
        BY <1>1, <2>3, <2>4, <3>1, ResolveAccount
    <2>5. CASE ~(showUrl # None /\ HandleLoadFinished /\ loadFinished)
      <3>1. UNCHANGED <<made, showUrl, replies, dropped>>
        BY <1>2, <2>5 DEF HandleNavigationReady, HandleLoadFinished, historyVars
      <3>2. queue' = Tail(queue) \/ queue' = Append(Tail(queue), Show(Home, None))
        BY <1>2, <2>5 DEF HandleNavigationReady, HandleLoadFinished, HomeIfIdle, ShowHome
      <3>3. QuietFrom(Tail(queue))
        BY <3>2, OtherCalls DEF QuietFrom
      <3>4. QED
        BY <1>1, <2>3, <3>1, <3>3, QuietAccount
    <2>6. QED
      BY <2>4, <2>5
  <1>3. CASE c.do = "call" /\ ShowPageUrl(c.req)
    <2>1. c.req \in Requests
      BY <1>1, <1>3, CallCases
    <2>2. QED
      BY <1>3, <2>1, ShowPageUrlAccount
  <1>4. CASE c.do = "wait" /\ (WaitFound(c.req) \/ WaitPending(c.req) \/ WaitNotFound(c.req)
                               \/ WaitDeleting(c.req))
    <2> DEFINE r == c.req
    <2>1. r \in Requests /\ r.target \in Pages \cup {Home}
      BY <1>1, <1>4, CallCases DEF Request
    <2>2. c = [do |-> "wait", req |-> r] /\ UNCHANGED made
      BY <1>4 DEF WaitFound, WaitPending, WaitNotFound, WaitDeleting, Delivered
    <2> HIDE DEF r, c
    <2>3. QuietFrom(Tail(queue))
      <3>1. queue' = Tail(queue) \/ queue' = Append(Tail(queue), Show(r.target, r))
        BY <1>4 DEF r, WaitFound, WaitPending, WaitNotFound, WaitDeleting
      <3>2. QED
        BY <2>1, <3>1, OtherCalls DEF QuietFrom
    <2>4. \/ Supersede(r) /\ showUrl' = r /\ replies' = replies
          \/ Supersede(r) /\ showUrl' = None
             /\ \E answer \in {"found", "notFound"} : Reply(r, answer)
          \/ dropped' = dropped \cup {r} /\ UNCHANGED <<showUrl, replies>>
      BY <1>4 DEF r, WaitFound, WaitPending, WaitNotFound, WaitDeleting
    <2>5. QED
      BY <1>1, <2>1, <2>2, <2>3, <2>4, WaitAccount DEF c
  <1>5. CASE c.do = "show" /\ (DoShowPage(c) \/ DoShowCommand(c) \/ DoShowNothing(c))
    <2>1. UNCHANGED <<made, showUrl, replies, dropped>> /\ queue' = Tail(queue)
      BY <1>5 DEF DoShowPage, DoShowCommand, DoShowNothing, DoShow
    <2>2. /\ OnceIn(Tail(queue))
          /\ \A r : CalledIn(Tail(queue), r) <=> CalledIn(queue, r)
      BY <1>1, <1>5, OtherDelivered DEF IsRequestCall
    <2>3. QED
      BY <1>1, <2>1, <2>2, QuietAccount DEF QuietFrom
  <1>6. QED
    BY <1>2, <1>3, <1>4, <1>5 DEF PostedCall

\* Every step keeps the account.
LEMMA AccountKept ==
  TypeOK /\ TypeOK' /\ TimerHasRequest /\ AccountInv /\ [Next]_vars => AccountInv'
  <1> SUFFICES ASSUME TypeOK, TypeOK', TimerHasRequest, AccountInv, [Next]_vars
               PROVE  AccountInv'
    OBVIOUS
  <1>1. queue \in Seq(Call) /\ OnceIn(queue)
    BY DEF TypeOK, AccountInv
  <1>2. CASE PostedCall
    BY <1>2, PostedCallAccount
  <1>3. CASE TryShow
    <2>1. CASE loadFinished
      <3>1. showUrl # None /\ Resolve(queue) /\ UNCHANGED <<made, dropped>>
        BY <1>3, <2>1 DEF TryShow, TimerHasRequest
      <3>2. QED
        BY <1>1, <3>1, ResolveAccount
    <2>2. CASE ~loadFinished
      <3>1. UNCHANGED <<made, showUrl, replies, dropped>> /\ queue' = queue
        BY <1>3, <2>2 DEF TryShow
      <3>2. QED
        BY <1>1, <3>1, QuietAccount DEF QuietFrom
    <2>3. QED
      BY <2>1, <2>2
  <1>4. CASE TryShowFallback
    <2>1. UNCHANGED <<made, showUrl, replies, dropped>>
      BY <1>4 DEF TryShowFallback, historyVars
    <2>2. QuietFrom(queue)
      BY <1>4, OtherCalls DEF TryShowFallback, ShowHome, QuietFrom
    <2>3. QED
      BY <1>1, <2>1, <2>2, QuietAccount
  <1>5. CASE AutoExit
    BY <1>5, AutoExitAccount
  <1>6. CASE Plugins
    <2>1. UNCHANGED <<made, showUrl, replies, dropped>>
      BY <1>6 DEF Plugins, NavigationReady, FinishLoading, AnnounceLoaded, StartLoadingAgain,
                  Attach, Detach, historyVars
    <2>2. QuietFrom(queue)
      BY <1>6, OtherCalls DEF Plugins, NavigationReady, FinishLoading, AnnounceLoaded,
                  StartLoadingAgain, Attach, Detach, QuietFrom
    <2>3. QED
      BY <1>1, <2>1, <2>2, QuietAccount
  <1>7. CASE User
    <2>1. CASE \E r \in Requests : MakeRequest(r)
      BY <2>1, MakeRequestAccount
    <2>2. CASE ShowWindow \/ Toggle \/ HideWindow \/ SearchActivity
      <3>1. UNCHANGED <<made, showUrl, replies, dropped>> /\ queue' = queue
        BY <2>2 DEF ShowWindow, Toggle, HideWindow, SearchActivity, historyVars
      <3>2. QED
        BY <1>1, <3>1, QuietAccount DEF QuietFrom
    <2>3. QED
      BY <1>7, <2>1, <2>2 DEF User
  <1>8. CASE UNCHANGED vars
    <2>1. UNCHANGED <<made, showUrl, replies, dropped>> /\ queue' = queue
      BY <1>8 DEF vars, historyVars
    <2>2. QED
      BY <1>1, <2>1, QuietAccount DEF QuietFrom
  <1>9. QED
    BY <1>2, <1>3, <1>4, <1>5, <1>6, <1>7, <1>8 DEF Next

\* A D-Bus call for a page is pending, has been answered once or was given up, and never
\* two of these, for any requests and whichever handler gets to the pending one first.
THEOREM CallsAccounted == Spec => []Accounted
  <1>1. Init => AccountInv
    <2> SUFFICES ASSUME Init PROVE AccountInv
      OBVIOUS
    <2>1. OnceIn(queue) /\ \A r : ~CalledIn(queue, r)
      BY DEF Init, OnceIn, CalledIn
    <2>2. ASSUME NEW r \in Requests PROVE Outcomes(r) = 0
      <3>1. r # None /\ replies[r] = <<>> /\ showUrl = None /\ dropped = {}
        BY DEF Init
      <3>2. Cardinality({showUrl, None} \cap {r}) = 0 /\ Cardinality(dropped \cap {r}) = 0
        BY <3>1, MemberCount
      <3>3. QED
        BY <3>1, <3>2 DEF Outcomes
    <2>3. QED
      BY <2>1, <2>2 DEF Init, AccountInv, Accounted
  <1>2. Init => TimerHasRequest
    BY DEF Init, TimerHasRequest
  <1>3. TypeOK /\ TimerHasRequest /\ [Next]_vars => TimerHasRequest'
    BY TimerKept
  <1>4. AccountInv => Accounted
    BY DEF AccountInv
  <1>5. QED
    BY <1>1, <1>2, <1>3, <1>4, AccountKept, TypeCorrect, PTL DEF Spec
=============================================================================
