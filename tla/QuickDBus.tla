---- MODULE QuickDBus ----
(***************************************************************************)
(* DccDBusInterface, the QML type that shows a property of a D-Bus service *)
(* and writes to it: plugin/dccquickdbusinterface.cpp.                     *)
(*                                                                         *)
(* Every object of the type is a client with a connection of its own.  It  *)
(* keeps the value it was last told (the cache) beside the QML property,   *)
(* and a change of the property that is not in the cache is sent as a Set. *)
(* A client asks for the value with GetAll and hears of changes by the     *)
(* signal PropertiesChanged.  What goes between a client and the service   *)
(* arrives in order, what the main thread has been posted included.  One   *)
(* property is modelled, of the QML type var, which holds every value as   *)
(* it is.  The service is external: it answers, takes or refuses what it   *)
(* is told, changes by itself, and signals every change.                   *)
(***************************************************************************)
EXTENDS Naturals, Sequences, FiniteSets

CONSTANTS
  Clients,
  Values,
  None,
  MaxWrites,    \* bound: writes to the QML properties
  MaxChanges,   \* bound: changes the service makes by itself
  MaxToggles,   \* bound: changes of enabled
  MaxRefusals   \* bound: calls the service refuses

ASSUME NoneAssumption == None \notin Values
ASSUME BoundAssumption ==
  MaxWrites \in Nat /\ MaxChanges \in Nat /\ MaxToggles \in Nat /\ MaxRefusals \in Nat

VARIABLES
  completed,   \* m_completed: the spy watches the property
  enabled,     \* m_enabled
  link,        \* "down", "asked" (within connectToDBus), "up" (m_propertyConnected)
  named,       \* m_mapProperties knows what the service calls the property
  cache,       \* m_propertyMap
  prop,        \* the QML property
  toService,   \* the calls on the way to the service
  toClient,    \* the values on the way to a client, of replies and of signals
  value,       \* the service's property
  counts,      \* what the bounds count
  last,        \* history: the last value written by a completed client
  untold,      \* history: the clients the service has changed without telling
  refused,     \* history: the clients the service has refused a Set, and told nothing since
  lost         \* history: the clients whose last write was refused, or was not sent because it
               \* took back a write that they had not heard of

vars == <<completed, enabled, link, named, cache, prop, toService, toClient, value, counts,
          last, untold, refused, lost>>

Count(what, max) == counts[what] < max /\ counts' = [counts EXCEPT ![what] = @ + 1]

Init ==
  /\ completed = [c \in Clients |-> FALSE]
  /\ enabled = [c \in Clients |-> TRUE]
  /\ link = [c \in Clients |-> "down"]
  /\ named = [c \in Clients |-> FALSE]
  /\ cache = [c \in Clients |-> None] /\ prop = [c \in Clients |-> None]
  /\ toService = [c \in Clients |-> <<>>] /\ toClient = [c \in Clients |-> <<>>]
  /\ value \in Values
  /\ counts = [write |-> 0, change |-> 0, toggle |-> 0, refusal |-> 0]
  /\ last = [c \in Clients |-> None]
  /\ untold = {} /\ refused = {} /\ lost = {}

-----------------------------------------------------------------------------
(* The client. *)

GetAll == [call |-> "GetAll", value |-> None, named |-> FALSE]
Set(c, v) == [call |-> "Set", value |-> v, named |-> named[c]]

Sends(calls) == \E i \in DOMAIN calls : calls[i].call = "Set"
Asks(c) == \E i \in DOMAIN toService[c] : toService[c][i].call = "GetAll"
Quiet(c) == toService[c] = <<>> /\ toClient[c] = <<>>

\* The main thread of the client is not within connectToDBus.
Free(c) == link[c] # "asked"

\* Variant: nothing is asked when the connection is made again.
ConnectSignalOnly(c) ==
  /\ link' = [link EXCEPT ![c] = "asked"]
  /\ toService' = IF cache[c] = None THEN [toService EXCEPT ![c] = Append(@, GetAll)] ELSE toService

\* connectToDBus asks first and subscribes after that.
Connect(c) ==
  /\ link' = [link EXCEPT ![c] = "asked"]
  /\ toService' = [toService EXCEPT ![c] = Append(@, GetAll)]

ComponentComplete(c) ==
  /\ ~completed[c]
  /\ completed' = [completed EXCEPT ![c] = TRUE]
  /\ IF enabled[c] THEN Connect(c) ELSE UNCHANGED <<link, toService>>
  /\ UNCHANGED <<enabled, named, cache, prop, toClient, value, counts, last, untold, refused, lost>>

Subscribed(c) ==
  /\ link[c] = "asked"
  /\ link' = [link EXCEPT ![c] = "up"]
  /\ UNCHANGED <<completed, enabled, named, cache, prop, toService, toClient, value, counts, last,
                 untold, refused, lost>>

\* Variant: the object is connected before it is complete.
SetEnabledEarly(c) ==
  /\ Free(c) /\ Count("toggle", MaxToggles)
  /\ enabled' = [enabled EXCEPT ![c] = ~@]
  /\ IF enabled'[c] THEN Connect(c)
     ELSE link' = [link EXCEPT ![c] = "down"] /\ UNCHANGED toService
  /\ UNCHANGED <<completed, named, cache, prop, toClient, value, last, untold, refused, lost>>

\* A call that is on its way, and an answer, are not taken back.
SetEnabled(c) ==
  /\ Free(c) /\ Count("toggle", MaxToggles)
  /\ enabled' = [enabled EXCEPT ![c] = ~@]
  /\ IF ~completed[c] THEN UNCHANGED <<link, toService>>
     ELSE IF enabled'[c] THEN Connect(c)
     ELSE link' = [link EXCEPT ![c] = "down"] /\ UNCHANGED toService
  /\ UNCHANGED <<completed, named, cache, prop, toClient, value, last, untold, refused, lost>>

\* onPropertySpy: the property has become v.
Spy(c, v, cached) ==
  toService' = IF cached = v THEN toService ELSE [toService EXCEPT ![c] = Append(@, Set(c, v))]

\* QML writes the property.
Write(c, v) ==
  /\ Free(c) /\ v # prop[c] /\ Count("write", MaxWrites)
  /\ prop' = [prop EXCEPT ![c] = v]
  /\ IF completed[c]
     THEN /\ Spy(c, v, cache[c])
          /\ last' = [last EXCEPT ![c] = v]
          /\ lost' = IF v = cache[c] /\ (~Quiet(c) \/ link[c] # "up" \/ c \in untold)
                     THEN lost \cup {c} ELSE lost \ {c}
     ELSE UNCHANGED <<toService, last, lost>>
  /\ UNCHANGED <<completed, enabled, link, named, cache, toClient, value, untold, refused>>

\* Variant: the spy is asked before the cache has the value.
ReceiveEchoes(c) ==
  LET v == Head(toClient[c])
  IN /\ Free(c) /\ toClient[c] # <<>>
     /\ toClient' = [toClient EXCEPT ![c] = Tail(@)]
     /\ named' = [named EXCEPT ![c] = TRUE]
     /\ cache' = [cache EXCEPT ![c] = v]
     /\ prop' = [prop EXCEPT ![c] = v]
     /\ IF v = prop[c] THEN UNCHANGED toService ELSE Spy(c, v, cache[c])
     /\ UNCHANGED <<completed, enabled, link, value, counts, last, untold, refused, lost>>

\* Variant: a value that is in the cache is not new.
ReceiveNew(c) ==
  LET v == Head(toClient[c])
  IN /\ Free(c) /\ toClient[c] # <<>>
     /\ toClient' = [toClient EXCEPT ![c] = Tail(@)]
     /\ named' = [named EXCEPT ![c] = TRUE]
     /\ cache' = [cache EXCEPT ![c] = v]
     /\ prop' = IF v = cache[c] THEN prop ELSE [prop EXCEPT ![c] = v]
     /\ UNCHANGED <<completed, enabled, link, toService, value, counts, last, untold, refused, lost>>

\* onAllProperties, of a reply or of a signal: the cache first, then the property,
\* whose change the spy compares with it.
Receive(c) ==
  LET v == Head(toClient[c])
  IN /\ Free(c) /\ toClient[c] # <<>>
     /\ toClient' = [toClient EXCEPT ![c] = Tail(@)]
     /\ named' = [named EXCEPT ![c] = TRUE]
     /\ cache' = [cache EXCEPT ![c] = v]
     /\ prop' = [prop EXCEPT ![c] = v]
     /\ IF v = prop[c] THEN UNCHANGED toService ELSE Spy(c, v, cache'[c])
     /\ UNCHANGED <<completed, enabled, link, value, counts, last, untold, refused, lost>>

-----------------------------------------------------------------------------
(* The service. *)

\* The property becomes v, and those who have subscribed are sent it.  Those whose
\* question is still on its way will be told.
Signals(v) ==
  LET told == {c \in Clients : link[c] = "up"}
  IN /\ value' = v
     /\ toClient' = [c \in Clients |-> IF c \in told THEN Append(toClient[c], v) ELSE toClient[c]]
     /\ untold' = (untold \ told) \cup {c \in Clients : link[c] = "asked" /\ ~Asks(c)}

ServiceChanges(v) ==
  /\ v # value /\ Count("change", MaxChanges)
  /\ Signals(v)
  /\ refused' = {c \in refused : link[c] # "up"}
  /\ UNCHANGED <<completed, enabled, link, named, cache, prop, toService, last, lost>>

ServiceAnswers(c) ==
  /\ toService[c] # <<>> /\ Head(toService[c]).call = "GetAll"
  /\ toService' = [toService EXCEPT ![c] = Tail(@)]
  /\ toClient' = [toClient EXCEPT ![c] = Append(@, value)]
  /\ untold' = untold \ {c} /\ refused' = refused \ {c}
  /\ UNCHANGED <<completed, enabled, link, named, cache, prop, value, counts, last, lost>>

ServiceSets(c) ==
  LET call == Head(toService[c])
  IN /\ toService[c] # <<>> /\ call.call = "Set" /\ call.named
     /\ toService' = [toService EXCEPT ![c] = Tail(@)]
     /\ IF call.value = value THEN UNCHANGED <<value, toClient, untold, refused>>
        ELSE /\ Signals(call.value)
             /\ refused' = {d \in refused : link[d] # "up"}
     /\ UNCHANGED <<completed, enabled, link, named, cache, prop, counts, last, lost>>

\* The service is not there, or does not let the value be set; the errors are not
\* looked at.  A Set without a name is always refused.
ServiceRefuses(c) ==
  LET call == Head(toService[c])
  IN /\ toService[c] # <<>>
     /\ IF call.call = "Set" /\ ~call.named THEN UNCHANGED counts ELSE Count("refusal", MaxRefusals)
     /\ toService' = [toService EXCEPT ![c] = Tail(@)]
     /\ IF call.call = "Set" THEN refused' = refused \cup {c} /\ UNCHANGED untold
        ELSE untold' = untold \cup {c} /\ UNCHANGED refused
     /\ lost' = IF call.call = "Set" /\ ~Sends(Tail(toService[c])) THEN lost \cup {c} ELSE lost
     /\ UNCHANGED <<completed, enabled, link, named, cache, prop, toClient, value, last>>

Next ==
  \/ \E c \in Clients :
       \/ ComponentComplete(c) \/ Subscribed(c) \/ SetEnabled(c) \/ Receive(c)
       \/ ServiceAnswers(c) \/ ServiceSets(c) \/ ServiceRefuses(c)
       \/ \E v \in Values : Write(c, v)
  \/ \E v \in Values : ServiceChanges(v)

Spec == Init /\ [][Next]_vars

\* The bus and the event loop deliver, and the service deals with every call.
FairSpec ==
  /\ Spec
  /\ \A c \in Clients :
       /\ WF_vars(Subscribed(c)) /\ WF_vars(Receive(c))
       /\ WF_vars(ServiceAnswers(c) \/ ServiceSets(c) \/ ServiceRefuses(c))

-----------------------------------------------------------------------------
TypeOK ==
  /\ completed \in [Clients -> BOOLEAN] /\ enabled \in [Clients -> BOOLEAN]
  /\ link \in [Clients -> {"down", "asked", "up"}]
  /\ named \in [Clients -> BOOLEAN]
  /\ cache \in [Clients -> Values \cup {None}] /\ prop \in [Clients -> Values \cup {None}]
  /\ toService \in [Clients -> Seq({GetAll} \cup [call : {"Set"}, value : Values, named : BOOLEAN])]
  /\ toClient \in [Clients -> Seq(Values)]
  /\ value \in Values
  /\ counts \in [{"write", "change", "toggle", "refusal"} -> Nat]
  /\ last \in [Clients -> Values \cup {None}]
  /\ untold \subseteq Clients /\ refused \subseteq Clients /\ lost \subseteq Clients
  /\ \A c \in Clients : link[c] # "down" <=> completed[c] /\ enabled[c]

\* A connected client to which nothing is on its way has the service's value,
\* except when GetAll failed or the service changed between the answer to GetAll
\* and the subscription: nothing asks again after that.
CacheIsCurrent ==
  \A c \in Clients \ untold : link[c] = "up" /\ Quiet(c) => cache[c] = value

\* Then the QML property shows that value too, whatever was written to it, unless
\* the service refused the write: the property goes on showing a refused value.
PropertyIsCurrent ==
  \A c \in Clients \ (untold \cup refused) : link[c] = "up" /\ Quiet(c) => prop[c] = value

\* What the only writer wrote last is what the service has in the end, except when
\* it was refused, or when it took back a write before the client had heard of it.
LastWriteHolds ==
  \A c \in Clients \ lost :
    /\ \A d \in Clients : last[d] # None <=> d = c
    /\ counts.change = 0
    /\ Quiet(c)
    => value = last[c]

\* A client is never told to answer what it hears: once nobody writes, changes or
\* refuses any more, the calls and the signals come to an end.
CallsEnd == <>[](\A c \in Clients : Quiet(c))
====
