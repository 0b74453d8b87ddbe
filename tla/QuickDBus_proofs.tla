---------------------------- MODULE QuickDBus_proofs ----------------------------
(***************************************************************************)
(* Theorems about QuickDBus, for every set of clients and values and for   *)
(* all bounds: what a client holds and shows once nothing is on its way,   *)
(* and what becomes of the value written last.                             *)
(***************************************************************************)
EXTENDS QuickDBus, SequenceTheorems, TLAPS

USE NoneAssumption, BoundAssumption

SetCall == [call : {"Set"}, value : Values, named : BOOLEAN]
Calls == {GetAll} \cup SetCall

-----------------------------------------------------------------------------
(* Sequences that grow at the end and shrink at the front. *)

LEMMA AppendLast ==
  ASSUME NEW S, NEW s \in Seq(S), NEW x \in S
  PROVE  /\ Append(s, x) \in Seq(S) /\ Append(s, x) # <<>>
         /\ Len(Append(s, x)) = Len(s) + 1 /\ Len(s) \in Nat
         /\ Append(s, x)[Len(s) + 1] = x
         /\ \A i \in 1..Len(s) : Append(s, x)[i] = s[i]
         /\ DOMAIN Append(s, x) = 1..(Len(s) + 1) /\ DOMAIN s = 1..Len(s)
  BY AppendProperties

LEMMA TailFront ==
  ASSUME NEW S, NEW s \in Seq(S), s # <<>>
  PROVE  /\ Head(s) \in S /\ Head(s) = s[1]
         /\ Tail(s) \in Seq(S)
         /\ Len(s) \in Nat \ {0} /\ Len(Tail(s)) = Len(s) - 1
         /\ \A i \in 1..(Len(s) - 1) : Tail(s)[i] = s[i + 1]
         /\ DOMAIN Tail(s) = 1..(Len(s) - 1) /\ DOMAIN s = 1..Len(s)
         /\ Tail(s) = <<>> <=> Len(s) = 1
  <1>1. Head(s) \in S /\ Head(s) = s[1] /\ Tail(s) \in Seq(S) /\ Len(s) \in Nat \ {0}
    BY HeadTailProperties, EmptySeq
  <1>2. Len(Tail(s)) = Len(s) - 1 /\ \A i \in 1..(Len(s) - 1) : Tail(s)[i] = s[i + 1]
    BY HeadTailProperties
  <1>3. DOMAIN Tail(s) = 1..(Len(s) - 1) /\ DOMAIN s = 1..Len(s)
    BY <1>1, <1>2, LenProperties
  <1>4. Tail(s) = <<>> <=> Len(s) = 1
    <2>1. Tail(s) = <<>> => Len(Tail(s)) = 0
      BY EmptySeq
    <2>2. Tail(s) # <<>> => Len(Tail(s)) \in Nat \ {0}
      BY <1>1, EmptySeq
    <2>3. QED
      BY <2>1, <2>2, <1>1, <1>2
  <1>5. QED
    BY <1>1, <1>2, <1>3, <1>4

\* A question is among the calls.
AskIn(s) == \E i \in DOMAIN s : s[i].call = "GetAll"

\* v is the value of the last Set among the calls.
LastSet(s, v) ==
  \E i \in DOMAIN s :
    /\ s[i].call = "Set" /\ s[i].value = v
    /\ \A j \in DOMAIN s : j > i => s[j].call # "Set"

\* The last value of a sequence, or d.
LastOf(s, d) == IF s = <<>> THEN d ELSE s[Len(s)]

LEMMA NoCalls == ~AskIn(<<>>) /\ ~Sends(<<>>)
  BY DEF AskIn, Sends

\* A Set behind other calls is the last one.
LEMMA AppendSet ==
  ASSUME NEW s \in Seq(Calls), NEW x \in SetCall
  PROVE  /\ Append(s, x) \in Seq(Calls)
         /\ AskIn(Append(s, x)) <=> AskIn(s)
         /\ LastSet(Append(s, x), x.value)
  <1> DEFINE t == Append(s, x)
  <1>1. x \in Calls /\ x.call = "Set"
    BY DEF Calls, SetCall
  <1>2. /\ t \in Seq(Calls) /\ Len(s) \in Nat
        /\ t[Len(s) + 1] = x
        /\ \A i \in 1..Len(s) : t[i] = s[i]
        /\ DOMAIN t = 1..(Len(s) + 1) /\ DOMAIN s = 1..Len(s)
    BY <1>1, AppendLast
  <1> HIDE DEF t
  <1>3. AskIn(t) <=> AskIn(s)
    BY <1>1, <1>2 DEF AskIn
  <1>4. LastSet(t, x.value)
    BY <1>1, <1>2 DEF LastSet
  <1>5. QED
    BY <1>2, <1>3, <1>4 DEF t

\* A question behind other calls changes nothing about the Sets.
LEMMA AppendGetAll ==
  ASSUME NEW s \in Seq(Calls)
  PROVE  /\ Append(s, GetAll) \in Seq(Calls)
         /\ AskIn(Append(s, GetAll))
         /\ Sends(Append(s, GetAll)) <=> Sends(s)
         /\ \A v : LastSet(s, v) => LastSet(Append(s, GetAll), v)
  <1> DEFINE t == Append(s, GetAll)
  <1>1. GetAll \in Calls /\ GetAll.call = "GetAll"
    BY DEF Calls, GetAll
  <1>2. /\ t \in Seq(Calls) /\ Len(s) \in Nat
        /\ t[Len(s) + 1] = GetAll
        /\ \A i \in 1..Len(s) : t[i] = s[i]
        /\ DOMAIN t = 1..(Len(s) + 1) /\ DOMAIN s = 1..Len(s)
    BY <1>1, AppendLast
  <1> HIDE DEF t
  <1>3. AskIn(t)
    BY <1>1, <1>2 DEF AskIn
  <1>4. Sends(t) <=> Sends(s)
    BY <1>1, <1>2 DEF Sends
  <1>5. ASSUME NEW v, LastSet(s, v) PROVE LastSet(t, v)
    <2>1. PICK i \in DOMAIN s : /\ s[i].call = "Set" /\ s[i].value = v
                                /\ \A j \in DOMAIN s : j > i => s[j].call # "Set"
      BY <1>5 DEF LastSet
    <2>2. i \in DOMAIN t /\ t[i].call = "Set" /\ t[i].value = v
      BY <2>1, <1>2
    <2>3. \A j \in DOMAIN t : j > i => t[j].call # "Set"
      BY <2>1, <1>1, <1>2
    <2>4. QED
      BY <2>2, <2>3 DEF LastSet
  <1>6. QED
    BY <1>2, <1>3, <1>4, <1>5 DEF t

\* The first call is taken off: what it was tells what is left.
LEMMA TailCalls ==
  ASSUME NEW s \in Seq(Calls), s # <<>>
  PROVE  /\ Head(s) \in Calls /\ Tail(s) \in Seq(Calls)
         /\ Head(s).call # "GetAll" => (AskIn(Tail(s)) <=> AskIn(s))
         /\ Head(s).call = "Set" => Head(s) \in SetCall /\ Sends(s)
         /\ Head(s).call # "Set" => (Sends(Tail(s)) <=> Sends(s))
         /\ Sends(Tail(s)) => Sends(s)
         /\ \A v : LastSet(s, v) =>
              LastSet(Tail(s), v) \/ (Head(s).call = "Set" /\ Head(s).value = v /\ ~Sends(Tail(s)))
  <1> DEFINE t == Tail(s)  x == Head(s)
  <1>1. /\ x \in Calls /\ x = s[1]
        /\ t \in Seq(Calls) /\ Len(s) \in Nat \ {0}
        /\ \A i \in 1..(Len(s) - 1) : t[i] = s[i + 1]
        /\ DOMAIN t = 1..(Len(s) - 1) /\ DOMAIN s = 1..Len(s)
    BY TailFront
  <1> HIDE DEF t, x
  <1>2. \A i \in DOMAIN s : i = 1 \/ (i - 1 \in DOMAIN t /\ t[i - 1] = s[i])
    BY <1>1
  <1>3. \A i \in DOMAIN t : i + 1 \in DOMAIN s /\ t[i] = s[i + 1]
    BY <1>1
  <1>4. x.call # "GetAll" => (AskIn(t) <=> AskIn(s))
    BY <1>1, <1>2, <1>3 DEF AskIn
  <1>5. x.call = "Set" => x \in SetCall /\ Sends(s)
    BY <1>1 DEF Calls, GetAll, Sends
  <1>6. (x.call # "Set" => (Sends(t) <=> Sends(s))) /\ (Sends(t) => Sends(s))
    BY <1>1, <1>2, <1>3 DEF Sends
  <1>7. ASSUME NEW v, LastSet(s, v)
        PROVE  LastSet(t, v) \/ (x.call = "Set" /\ x.value = v /\ ~Sends(t))
    <2>1. PICK i \in DOMAIN s : /\ s[i].call = "Set" /\ s[i].value = v
                                /\ \A j \in DOMAIN s : j > i => s[j].call # "Set"
      BY <1>7 DEF LastSet
    <2>2. CASE i = 1
      <3>1. x.call = "Set" /\ x.value = v
        BY <2>1, <2>2, <1>1
      <3>2. ASSUME NEW j \in DOMAIN t PROVE t[j].call # "Set"
        <4>1. j + 1 \in DOMAIN s /\ j + 1 > i /\ t[j] = s[j + 1]
          BY <2>2, <1>1
        <4>2. QED
          BY <4>1, <2>1
      <3>3. QED
        BY <3>1, <3>2 DEF Sends
    <2>3. CASE i # 1
      <3>1. i - 1 \in DOMAIN t /\ t[i - 1].call = "Set" /\ t[i - 1].value = v
        BY <2>1, <2>3, <1>2
      <3>2. ASSUME NEW j \in DOMAIN t, j > i - 1 PROVE t[j].call # "Set"
        <4>1. j + 1 \in DOMAIN s /\ j + 1 > i /\ t[j] = s[j + 1]
          BY <3>2, <1>1
        <4>2. QED
          BY <4>1, <2>1
      <3>3. QED
        BY <3>1, <3>2 DEF LastSet
    <2>4. QED
      BY <2>2, <2>3
  <1>8. QED
    BY <1>1, <1>4, <1>5, <1>6, <1>7 DEF t, x

\* The last of the values after one has been added, and after the first has been
\* taken off and become the default.
LEMMA LastValue ==
  ASSUME NEW s \in Seq(Values), NEW v \in Values, NEW d
  PROVE  /\ Append(s, v) \in Seq(Values) /\ Append(s, v) # <<>>
         /\ LastOf(Append(s, v), d) = v
         /\ s # <<>> => /\ Head(s) \in Values /\ Tail(s) \in Seq(Values)
                        /\ LastOf(Tail(s), Head(s)) = LastOf(s, d)
  <1>1. /\ Append(s, v) \in Seq(Values) /\ Append(s, v) # <<>>
        /\ LastOf(Append(s, v), d) = v
    BY AppendLast DEF LastOf
  <1>2. ASSUME s # <<>>
        PROVE  /\ Head(s) \in Values /\ Tail(s) \in Seq(Values)
               /\ LastOf(Tail(s), Head(s)) = LastOf(s, d)
    <2>1. /\ Head(s) \in Values /\ Head(s) = s[1] /\ Tail(s) \in Seq(Values)
          /\ Len(s) \in Nat \ {0} /\ Len(Tail(s)) = Len(s) - 1
          /\ \A i \in 1..(Len(s) - 1) : Tail(s)[i] = s[i + 1]
          /\ Tail(s) = <<>> <=> Len(s) = 1
      BY <1>2, TailFront
    <2>2. Tail(s) # <<>> => Tail(s)[Len(Tail(s))] = s[Len(s)]
      <3>1. Tail(s) # <<>> => Len(s) - 1 \in 1..(Len(s) - 1) /\ Len(s) - 1 + 1 = Len(s)
        BY <2>1
      <3>2. QED
        BY <3>1, <2>1
    <2>3. QED
      BY <1>2, <2>1, <2>2 DEF LastOf
  <1>3. QED
    BY <1>1, <1>2

-----------------------------------------------------------------------------
(* Type correctness. *)

LEMMA InitTypeOK == Init => TypeOK
  BY EmptySeq DEF Init, TypeOK

\* TypeOK names the calls as Calls does.
LEMMA TypeNames ==
  TypeOK <=>
    /\ completed \in [Clients -> BOOLEAN] /\ enabled \in [Clients -> BOOLEAN]
    /\ link \in [Clients -> {"down", "asked", "up"}]
    /\ named \in [Clients -> BOOLEAN]
    /\ cache \in [Clients -> Values \cup {None}] /\ prop \in [Clients -> Values \cup {None}]
    /\ toService \in [Clients -> Seq(Calls)]
    /\ toClient \in [Clients -> Seq(Values)]
    /\ value \in Values
    /\ counts \in [{"write", "change", "toggle", "refusal"} -> Nat]
    /\ last \in [Clients -> Values \cup {None}]
    /\ untold \subseteq Clients /\ refused \subseteq Clients /\ lost \subseteq Clients
    /\ \A c \in Clients : link[c] # "down" <=> completed[c] /\ enabled[c]
  BY DEF TypeOK, Calls, SetCall

\* What the service tells its clients are values.
LEMMA SignalsType ==
  ASSUME TypeOK, NEW v \in Values, Signals(v)
  PROVE  /\ value' \in Values /\ toClient' \in [Clients -> Seq(Values)] /\ untold' \subseteq Clients
         /\ \A c \in Clients :
              /\ link[c] = "up" => toClient'[c] = Append(toClient[c], v)
              /\ link[c] # "up" => toClient'[c] = toClient[c]
              /\ c \in untold' <=> (c \in untold /\ link[c] # "up") \/ (link[c] = "asked" /\ ~Asks(c))
  <1>1. \A c \in Clients : toClient[c] \in Seq(Values) /\ Append(toClient[c], v) \in Seq(Values)
    BY LastValue DEF TypeOK
  <1>2. QED
    BY <1>1 DEF Signals, TypeOK

\* A connected client has asked.
LEMMA ConnectType ==
  ASSUME TypeOK, NEW c \in Clients, Connect(c)
  PROVE  /\ link' \in [Clients -> {"down", "asked", "up"}] /\ link' = [link EXCEPT ![c] = "asked"]
         /\ toService' \in [Clients -> Seq(Calls)]
         /\ toService' = [toService EXCEPT ![c] = Append(@, GetAll)]
  BY AppendGetAll, TypeNames DEF Connect

LEMMA NextTypeOK == TypeOK /\ [Next]_vars => TypeOK'
  <1> SUFFICES ASSUME TypeOK, [Next]_vars PROVE TypeOK'
    OBVIOUS
  <1> USE TypeNames
  <1>t. ASSUME /\ completed' \in [Clients -> BOOLEAN] /\ enabled' \in [Clients -> BOOLEAN]
               /\ link' \in [Clients -> {"down", "asked", "up"}]
               /\ named' \in [Clients -> BOOLEAN]
               /\ cache' \in [Clients -> Values \cup {None}] /\ prop' \in [Clients -> Values \cup {None}]
               /\ toService' \in [Clients -> Seq(Calls)]
               /\ toClient' \in [Clients -> Seq(Values)]
               /\ value' \in Values
               /\ counts' \in [{"write", "change", "toggle", "refusal"} -> Nat]
               /\ last' \in [Clients -> Values \cup {None}]
               /\ untold' \subseteq Clients /\ refused' \subseteq Clients /\ lost' \subseteq Clients
               /\ \A c \in Clients : link'[c] # "down" <=> completed'[c] /\ enabled'[c]
        PROVE  TypeOK'
    BY <1>t DEF TypeOK, Calls, SetCall
  <1>c. ASSUME NEW what \in {"write", "change", "toggle", "refusal"}, NEW max, Count(what, max)
        PROVE  counts' \in [{"write", "change", "toggle", "refusal"} -> Nat]
    BY <1>c DEF Count
  <1>1. ASSUME NEW c \in Clients, ComponentComplete(c) PROVE TypeOK'
    <2>1. CASE enabled[c]
      BY <1>1, <2>1, <1>t, ConnectType DEF ComponentComplete
    <2>2. CASE ~enabled[c]
      BY <1>1, <2>2, <1>t DEF ComponentComplete
    <2>3. QED
      BY <2>1, <2>2
  <1>2. ASSUME NEW c \in Clients, Subscribed(c) PROVE TypeOK'
    BY <1>2, <1>t DEF Subscribed
  <1>3. ASSUME NEW c \in Clients, SetEnabled(c) PROVE TypeOK'
    <2>1. counts' \in [{"write", "change", "toggle", "refusal"} -> Nat]
      BY <1>3, <1>c DEF SetEnabled
    <2>2. CASE ~completed[c]
      BY <1>3, <2>1, <2>2, <1>t DEF SetEnabled
    <2>3. CASE completed[c] /\ enabled'[c]
      BY <1>3, <2>1, <2>3, <1>t, ConnectType DEF SetEnabled
    <2>4. CASE completed[c] /\ ~enabled'[c]
      BY <1>3, <2>1, <2>4, <1>t DEF SetEnabled
    <2>5. QED
      BY <2>2, <2>3, <2>4
  <1>4. ASSUME NEW c \in Clients, Receive(c) PROVE TypeOK'
    <2>1. Head(toClient[c]) \in Values /\ Tail(toClient[c]) \in Seq(Values)
      BY <1>4, HeadTailProperties DEF Receive
    <2>2. toService' = toService
      BY <1>4, <2>1 DEF Receive, Spy
    <2>3. QED
      BY <1>4, <2>1, <2>2, <1>t DEF Receive
  <1>5. ASSUME NEW c \in Clients, ServiceAnswers(c) PROVE TypeOK'
    <2>1. Tail(toService[c]) \in Seq(Calls) /\ Append(toClient[c], value) \in Seq(Values)
      BY <1>5, TailCalls, LastValue DEF ServiceAnswers
    <2>2. untold' \subseteq Clients /\ refused' \subseteq Clients
      BY <1>5 DEF ServiceAnswers
    <2>3. QED
      BY <1>5, <2>1, <2>2, <1>t DEF ServiceAnswers
  <1>6. ASSUME NEW c \in Clients, ServiceSets(c) PROVE TypeOK'
    <2>1. Tail(toService[c]) \in Seq(Calls) /\ Head(toService[c]) \in SetCall
      BY <1>6, TailCalls DEF ServiceSets
    <2>2. Head(toService[c]).value \in Values
      BY <2>1 DEF SetCall
    <2>3. value' \in Values /\ toClient' \in [Clients -> Seq(Values)] /\ untold' \subseteq Clients
      BY <1>6, <2>2, SignalsType DEF ServiceSets
    <2>4. QED
      BY <1>6, <2>1, <2>3, <1>t DEF ServiceSets
  <1>7. ASSUME NEW c \in Clients, ServiceRefuses(c) PROVE TypeOK'
    <2>1. Tail(toService[c]) \in Seq(Calls)
      BY <1>7, TailCalls DEF ServiceRefuses
    <2>2. counts' \in [{"write", "change", "toggle", "refusal"} -> Nat]
      <3>1. counts' = counts \/ Count("refusal", MaxRefusals)
        BY <1>7 DEF ServiceRefuses
      <3>2. QED
        BY <3>1, <1>c
    <2>3. untold' \subseteq Clients /\ refused' \subseteq Clients /\ lost' \subseteq Clients
      BY <1>7 DEF ServiceRefuses
    <2>4. QED
      BY <1>7, <2>1, <2>2, <2>3, <1>t DEF ServiceRefuses
  <1>8. ASSUME NEW c \in Clients, NEW v \in Values, Write(c, v) PROVE TypeOK'
    <2>1. Set(c, v) \in SetCall
      BY DEF Set, SetCall
    <2>2. toService' \in [Clients -> Seq(Calls)]
      <3>1. toService' = toService \/ toService' = [toService EXCEPT ![c] = Append(@, Set(c, v))]
        BY <1>8, Zenon DEF Write, Spy
      <3>2. Append(toService[c], Set(c, v)) \in Seq(Calls)
        BY <2>1, AppendSet
      <3>3. QED
        BY <3>1, <3>2
    <2>3. counts' \in [{"write", "change", "toggle", "refusal"} -> Nat]
      BY <1>8, <1>c DEF Write
    <2>4. prop' \in [Clients -> Values \cup {None}] /\ last' \in [Clients -> Values \cup {None}]
          /\ lost' \subseteq Clients
      <3>1. prop' = [prop EXCEPT ![c] = v]
        BY <1>8 DEF Write
      <3>2. prop' \in [Clients -> Values \cup {None}]
        BY <3>1
      <3>3. last' \in [Clients -> Values \cup {None}]
        <4>1. last' = last \/ last' = [last EXCEPT ![c] = v]
          <5>1. CASE completed[c]
            BY <1>8, <5>1 DEF Write
          <5>2. CASE ~completed[c]
            BY <1>8, <5>2 DEF Write
          <5>3. QED
            BY <5>1, <5>2
        <4>2. CASE last' = last
          BY <4>2
        <4>3. CASE last' = [last EXCEPT ![c] = v]
          BY <4>3
        <4>4. QED
          BY <4>1, <4>2, <4>3
      <3>4. lost' \subseteq Clients
        <4>1. CASE completed[c]
          BY <1>8, <4>1 DEF Write
        <4>2. CASE ~completed[c]
          BY <1>8, <4>2 DEF Write
        <4>3. QED
          BY <4>1, <4>2
      <3>5. QED
        BY <3>2, <3>3, <3>4
    <2>5. QED
      BY <1>8, <2>2, <2>3, <2>4, <1>t DEF Write
  <1>9. ASSUME NEW v \in Values, ServiceChanges(v) PROVE TypeOK'
    <2>1. counts' \in [{"write", "change", "toggle", "refusal"} -> Nat]
      BY <1>9, <1>c DEF ServiceChanges
    <2>2. value' \in Values /\ toClient' \in [Clients -> Seq(Values)] /\ untold' \subseteq Clients
      BY <1>9, SignalsType DEF ServiceChanges
    <2>3. QED
      BY <1>9, <2>1, <2>2, <1>t DEF ServiceChanges
  <1>10. CASE UNCHANGED vars
    BY <1>10, <1>t DEF vars
  <1>11. QED
    BY <1>1, <1>2, <1>3, <1>4, <1>5, <1>6, <1>7, <1>8, <1>9, <1>10 DEF Next

\* Every reachable state is well typed: only values are sent, and a client is
\* connected exactly when it is complete and enabled.
THEOREM TypeCorrect == Spec => []TypeOK
  BY InitTypeOK, NextTypeOK, PTL DEF Spec

-----------------------------------------------------------------------------
(* What a client is told. *)

\* A client that has asked and been answered, and whose every change since has been
\* signalled, has been sent the service's value last.
CacheInv ==
  \A c \in Clients \ untold :
    link[c] # "down" /\ ~Asks(c) => LastOf(toClient[c], cache[c]) = value

LEMMA AsksIsAskIn == \A c \in Clients : Asks(c) <=> AskIn(toService[c])
  BY DEF Asks, AskIn

\* The service changes its value: whoever is subscribed is sent the new one, and
\* whoever is between the answer and the subscription is untold.
LEMMA SignalsCache ==
  ASSUME TypeOK, NEW v \in Values, Signals(v), link' = link, cache' = cache,
         \A c \in Clients : Asks(c) <=> Asks(c)'
  PROVE  CacheInv'
  <1> SUFFICES ASSUME NEW c \in Clients, c \notin untold', link[c] # "down", ~Asks(c)
               PROVE  LastOf(toClient'[c], cache[c]) = v
    BY DEF CacheInv, Signals
  <1>1. link[c] = "up" /\ toClient'[c] = Append(toClient[c], v)
    BY SignalsType, TypeNames
  <1>2. toClient[c] \in Seq(Values)
    BY TypeNames
  <1>3. QED
    BY <1>1, <1>2, LastValue

\* Nothing a client is told and nothing about its questions has changed.
LEMMA CacheKept ==
  ASSUME TypeOK, CacheInv, value' = value,
         \A c \in Clients :
           /\ toClient'[c] = toClient[c] /\ cache'[c] = cache[c]
           /\ link'[c] # "down" /\ ~Asks(c)' /\ c \notin untold' =>
                link[c] # "down" /\ ~Asks(c) /\ c \notin untold
  PROVE  CacheInv'
  BY DEF CacheInv

LEMMA InitCacheInv == Init => CacheInv
  BY DEF Init, CacheInv

LEMMA NextCacheInv == TypeOK /\ CacheInv /\ [Next]_vars => CacheInv'
  <1> SUFFICES ASSUME TypeOK, CacheInv, [Next]_vars PROVE CacheInv'
    OBVIOUS
  <1>a. \A c \in Clients : Asks(c) <=> AskIn(toService[c])
    BY AsksIsAskIn
  <1>b. \A c \in Clients : Asks(c)' <=> AskIn(toService'[c])
    BY DEF Asks, AskIn
  <1>t. toService \in [Clients -> Seq(Calls)] /\ toClient \in [Clients -> Seq(Values)] /\ value \in Values
        /\ link \in [Clients -> {"down", "asked", "up"}] /\ cache \in [Clients -> Values \cup {None}]
    BY TypeNames
  <1>k. ASSUME NEW c \in Clients, Connect(c), UNCHANGED <<cache, toClient, value, untold>>
        PROVE  CacheInv'
    <2>1. AskIn(toService'[c]) /\ \A d \in Clients : d # c => toService'[d] = toService[d]
      BY <1>k, <1>t, AppendGetAll DEF Connect
    <2>2. \A d \in Clients : d # c => link'[d] = link[d]
      BY <1>k, <1>t DEF Connect
    <2>3. QED
      BY <1>k, <2>1, <2>2, <1>a, <1>b, CacheKept
  <1>1. ASSUME NEW c \in Clients, ComponentComplete(c) PROVE CacheInv'
    <2>1. CASE enabled[c]
      BY <1>1, <2>1, <1>k DEF ComponentComplete
    <2>2. CASE ~enabled[c]
      BY <1>1, <2>2, <1>a, <1>b, CacheKept DEF ComponentComplete
    <2>3. QED
      BY <2>1, <2>2
  <1>2. ASSUME NEW c \in Clients, Subscribed(c) PROVE CacheInv'
    BY <1>2, <1>t, <1>a, <1>b, CacheKept DEF Subscribed
  <1>3. ASSUME NEW c \in Clients, SetEnabled(c) PROVE CacheInv'
    <2>2. CASE ~completed[c]
      BY <1>3, <2>2, <1>a, <1>b, CacheKept DEF SetEnabled
    <2>3. CASE completed[c] /\ enabled'[c]
      BY <1>3, <2>3, <1>k DEF SetEnabled
    <2>4. CASE completed[c] /\ ~enabled'[c]
      <3>1. \A d \in Clients : link'[d] # "down" => link'[d] = link[d]
        BY <1>3, <2>4, <1>t DEF SetEnabled
      <3>2. UNCHANGED <<toService, toClient, cache, value, untold>>
        BY <1>3, <2>4 DEF SetEnabled
      <3>3. QED
        BY <3>1, <3>2, <1>a, <1>b, CacheKept
    <2>5. QED
      BY <2>2, <2>3, <2>4
  <1>4. ASSUME NEW c \in Clients, Receive(c) PROVE CacheInv'
    <2>1. /\ toClient[c] # <<>> /\ toClient' = [toClient EXCEPT ![c] = Tail(@)]
          /\ cache' = [cache EXCEPT ![c] = Head(toClient[c])]
          /\ toService' = toService /\ link' = link /\ value' = value /\ untold' = untold
      BY <1>4, <1>t DEF Receive, Spy
    <2>2. \A d \in Clients : LastOf(toClient'[d], cache'[d]) = LastOf(toClient[d], cache[d])
      BY <2>1, <1>t, LastValue
    <2>3. QED
      BY <2>1, <2>2, <1>a, <1>b DEF CacheInv
  <1>5. ASSUME NEW c \in Clients, ServiceAnswers(c) PROVE CacheInv'
    <2>1. /\ toClient' = [toClient EXCEPT ![c] = Append(@, value)]
          /\ toService' = [toService EXCEPT ![c] = Tail(@)]
          /\ cache' = cache /\ link' = link /\ value' = value /\ untold' = untold \ {c}
      BY <1>5 DEF ServiceAnswers
    <2>2. LastOf(toClient'[c], cache'[c]) = value
      BY <2>1, <1>t, LastValue
    <2>3. \A d \in Clients : d # c => toClient'[d] = toClient[d] /\ toService'[d] = toService[d]
      BY <2>1, <1>t
    <2>4. QED
      BY <2>1, <2>2, <2>3, <1>a, <1>b DEF CacheInv
  <1>6. ASSUME NEW c \in Clients, ServiceSets(c) PROVE CacheInv'
    <2>1. /\ toService[c] # <<>> /\ Head(toService[c]).call = "Set"
          /\ toService' = [toService EXCEPT ![c] = Tail(@)]
          /\ cache' = cache /\ link' = link
      BY <1>6 DEF ServiceSets
    <2>2. \A d \in Clients : Asks(d) <=> Asks(d)'
      BY <2>1, <1>t, <1>a, <1>b, TailCalls
    <2>3. CASE Head(toService[c]).value = value
      BY <1>6, <2>1, <2>2, <2>3, CacheKept DEF ServiceSets
    <2>4. CASE Head(toService[c]).value # value
      <3>1. Signals(Head(toService[c]).value)
        BY <1>6, <2>4 DEF ServiceSets
      <3>2. Head(toService[c]).value \in Values
        BY <2>1, <1>t, TailCalls DEF SetCall
      <3>3. QED
        BY <3>1, <3>2, <2>1, <2>2, SignalsCache
    <2>5. QED
      BY <2>3, <2>4
  <1>7. ASSUME NEW c \in Clients, ServiceRefuses(c) PROVE CacheInv'
    <2>1. /\ toService[c] # <<>> /\ toService' = [toService EXCEPT ![c] = Tail(@)]
          /\ cache' = cache /\ link' = link /\ value' = value /\ toClient' = toClient
          /\ IF Head(toService[c]).call = "Set" THEN untold' = untold ELSE untold' = untold \cup {c}
      BY <1>7 DEF ServiceRefuses
    <2>2. Head(toService[c]).call = "Set" => (Asks(c) <=> Asks(c)')
      BY <2>1, <1>t, <1>a, <1>b, TailCalls
    <2>3. \A d \in Clients : d # c => toService'[d] = toService[d]
      BY <2>1, <1>t
    <2>4. QED
      BY <2>1, <2>2, <2>3, <1>a, <1>b, CacheKept
  <1>8. ASSUME NEW c \in Clients, NEW v \in Values, Write(c, v) PROVE CacheInv'
    <2>1. UNCHANGED <<cache, link, value, toClient, untold>>
      BY <1>8 DEF Write
    <2>2. toService' = toService \/ toService' = [toService EXCEPT ![c] = Append(@, Set(c, v))]
      <3>1. CASE completed[c]
        BY <1>8, <3>1 DEF Write, Spy
      <3>2. CASE ~completed[c]
        BY <1>8, <3>2 DEF Write
      <3>3. QED
        BY <3>1, <3>2
    <2>3. Set(c, v) \in SetCall
      BY TypeNames DEF Set, SetCall
    <2>4. AskIn(Append(toService[c], Set(c, v))) <=> AskIn(toService[c])
      BY <2>3, <1>t, AppendSet
    <2>5. \A d \in Clients : AskIn(toService'[d]) <=> AskIn(toService[d])
      BY <2>2, <2>4, <1>t
    <2>6. QED
      BY <2>1, <2>5, <1>a, <1>b, CacheKept
  <1>9. ASSUME NEW v \in Values, ServiceChanges(v) PROVE CacheInv'
    <2>1. Signals(v) /\ link' = link /\ cache' = cache /\ toService' = toService
      BY <1>9 DEF ServiceChanges
    <2>2. QED
      BY <2>1, <1>a, <1>b, SignalsCache
  <1>10. CASE UNCHANGED vars
    BY <1>10, <1>a, <1>b, CacheKept DEF vars
  <1>11. QED
    BY <1>1, <1>2, <1>3, <1>4, <1>5, <1>6, <1>7, <1>8, <1>9, <1>10 DEF Next

LEMMA CacheInvHolds == Spec => [](TypeOK /\ CacheInv)
  BY InitTypeOK, NextTypeOK, InitCacheInv, NextCacheInv, PTL DEF Spec

\* A connected client that was told everything has the service's value in its cache
\* when nothing is on its way: no order of answers, signals, writes and reconnections
\* leaves an older one there.
THEOREM CacheCurrent == Spec => []CacheIsCurrent
  <1>1. TypeOK /\ CacheInv => CacheIsCurrent
    <2> SUFFICES ASSUME CacheInv, NEW c \in Clients \ untold, link[c] = "up", Quiet(c)
                 PROVE  cache[c] = value
      BY DEF CacheIsCurrent
    <2>1. ~Asks(c) /\ toClient[c] = <<>>
      BY AsksIsAskIn, NoCalls DEF Quiet
    <2>2. QED
      BY <2>1 DEF CacheInv, LastOf
  <1>2. QED
    BY <1>1, CacheInvHolds, PTL

-----------------------------------------------------------------------------
(* What a client shows. *)

\* What QML shows is in the cache, or on its way to the service as the last Set, or
\* about to be replaced by what the client will be told.
Settles(c) ==
  \/ link[c] = "down" \/ Asks(c) \/ c \in untold \/ c \in refused
  \/ toClient[c] # <<>>
  \/ prop[c] = cache[c]
  \/ LastSet(toService[c], prop[c])

PropInv == \A c \in Clients : Settles(c)

\* A signal is a value on its way.
LEMMA SignalsProp ==
  ASSUME TypeOK, NEW v \in Values, Signals(v), NEW c \in Clients, link' = link, prop' = prop,
         cache' = cache, Settles(c), Asks(c) => Asks(c)', c \in refused /\ link[c] # "up" => c \in refused',
         LastSet(toService[c], prop[c]) => LastSet(toService'[c], prop[c]) \/ link[c] = "up"
  PROVE  Settles(c)'
  <1>1. toClient[c] \in Seq(Values)
    BY TypeNames
  <1>2. CASE link[c] = "up"
    <2>1. toClient'[c] # <<>>
      BY <1>1, <1>2, SignalsType, LastValue
    <2>2. QED
      BY <2>1 DEF Settles
  <1>3. CASE link[c] # "up"
    <2>1. toClient'[c] = toClient[c] /\ (c \in untold => c \in untold')
      BY <1>3, SignalsType
    <2>2. QED
      BY <1>3, <2>1 DEF Settles
  <1>4. QED
    BY <1>2, <1>3

LEMMA InitPropInv == Init => PropInv
  BY DEF Init, PropInv, Settles

LEMMA NextPropInv == TypeOK /\ CacheInv /\ PropInv /\ [Next]_vars => PropInv'
  <1> SUFFICES ASSUME TypeOK, CacheInv, PropInv, [Next]_vars, NEW c \in Clients PROVE Settles(c)'
    BY DEF PropInv
  <1>0. Settles(c)
    BY DEF PropInv
  <1>a. Asks(c) <=> AskIn(toService[c])
    BY AsksIsAskIn
  <1>b. Asks(c)' <=> AskIn(toService'[c])
    BY DEF Asks, AskIn
  <1>t. toService \in [Clients -> Seq(Calls)] /\ toClient \in [Clients -> Seq(Values)] /\ value \in Values
        /\ link \in [Clients -> {"down", "asked", "up"}]
        /\ cache \in [Clients -> Values \cup {None}] /\ prop \in [Clients -> Values \cup {None}]
        /\ (link[c] # "down" => completed[c])
    BY TypeNames
  <1>s. ASSUME UNCHANGED <<link[c], toService[c], toClient[c], prop[c], cache[c]>>,
               c \in untold => c \in untold', c \in refused => c \in refused'
        PROVE  Settles(c)'
    BY <1>s, <1>0, <1>a, <1>b DEF Settles
  <1>k. ASSUME NEW d \in Clients, Connect(d), UNCHANGED <<cache, prop, toClient, untold, refused>>
        PROVE  Settles(c)'
    <2>1. CASE d = c
      <3>1. AskIn(toService'[c])
        BY <1>k, <2>1, <1>t, AppendGetAll DEF Connect
      <3>2. QED
        BY <3>1, <1>b DEF Settles
    <2>2. CASE d # c
      <3>1. link'[c] = link[c] /\ toService'[c] = toService[c]
        BY <1>k, <2>2, <1>t DEF Connect
      <3>2. QED
        BY <1>k, <3>1, <1>s
    <2>3. QED
      BY <2>1, <2>2
  <1>1. ASSUME NEW d \in Clients, ComponentComplete(d) PROVE Settles(c)'
    <2>1. CASE enabled[d]
      BY <1>1, <2>1, <1>k DEF ComponentComplete
    <2>2. CASE ~enabled[d]
      BY <1>1, <2>2, <1>s DEF ComponentComplete
    <2>3. QED
      BY <2>1, <2>2
  <1>2. ASSUME NEW d \in Clients, Subscribed(d) PROVE Settles(c)'
    <2>1. /\ link'[c] = "down" => link[c] = "down"
          /\ link[c] = "down" => link'[c] = "down"
          /\ UNCHANGED <<toService, toClient, prop, cache, untold, refused>>
      BY <1>2, <1>t DEF Subscribed
    <2>2. QED
      BY <2>1, <1>0, <1>a, <1>b DEF Settles
  <1>3. ASSUME NEW d \in Clients, SetEnabled(d) PROVE Settles(c)'
    <2>1. UNCHANGED <<cache, prop, toClient, untold, refused>>
      BY <1>3 DEF SetEnabled
    <2>2. CASE ~completed[d]
      BY <1>3, <2>1, <2>2, <1>s DEF SetEnabled
    <2>3. CASE completed[d] /\ enabled'[d]
      BY <1>3, <2>1, <2>3, <1>k DEF SetEnabled
    <2>4. CASE completed[d] /\ ~enabled'[d]
      <3>1. link' = [link EXCEPT ![d] = "down"] /\ toService' = toService
        BY <1>3, <2>4 DEF SetEnabled
      <3>2. CASE d = c
        BY <3>1, <3>2, <1>t DEF Settles
      <3>3. CASE d # c
        <4>1. link'[c] = link[c]
          BY <3>1, <3>3, <1>t
        <4>2. QED
          BY <2>1, <3>1, <4>1, <1>s
      <3>4. QED
        BY <3>2, <3>3
    <2>5. QED
      BY <2>2, <2>3, <2>4
  <1>4. ASSUME NEW d \in Clients, Receive(d) PROVE Settles(c)'
    <2>1. /\ toClient' = [toClient EXCEPT ![d] = Tail(@)]
          /\ cache' = [cache EXCEPT ![d] = Head(toClient[d])]
          /\ prop' = [prop EXCEPT ![d] = Head(toClient[d])]
          /\ toService' = toService /\ link' = link /\ untold' = untold /\ refused' = refused
      BY <1>4, <1>t DEF Receive, Spy
    <2>2. CASE d = c
      <3>1. prop'[c] = cache'[c]
        BY <2>1, <2>2, <1>t
      <3>2. QED
        BY <3>1 DEF Settles
    <2>3. CASE d # c
      BY <2>1, <2>3, <1>t, <1>s
    <2>4. QED
      BY <2>2, <2>3
  <1>5. ASSUME NEW d \in Clients, ServiceAnswers(d) PROVE Settles(c)'
    <2>1. /\ toClient' = [toClient EXCEPT ![d] = Append(@, value)]
          /\ toService' = [toService EXCEPT ![d] = Tail(@)]
          /\ cache' = cache /\ prop' = prop /\ link' = link
          /\ untold' = untold \ {d} /\ refused' = refused \ {d}
      BY <1>5 DEF ServiceAnswers
    <2>2. CASE d = c
      <3>1. toClient'[c] # <<>>
        BY <2>1, <2>2, <1>t, LastValue
      <3>2. QED
        BY <3>1 DEF Settles
    <2>3. CASE d # c
      BY <2>1, <2>3, <1>t, <1>s
    <2>4. QED
      BY <2>2, <2>3
  <1>6. ASSUME NEW d \in Clients, ServiceSets(d) PROVE Settles(c)'
    <2> DEFINE call == Head(toService[d])
    <2>1. /\ toService[d] # <<>> /\ call.call = "Set"
          /\ toService' = [toService EXCEPT ![d] = Tail(@)]
          /\ cache' = cache /\ prop' = prop /\ link' = link
      BY <1>6 DEF ServiceSets
    <2>2. call.value \in Values
      BY <2>1, <1>t, TailCalls DEF SetCall
    <2>3. Asks(c) <=> Asks(c)'
      BY <2>1, <1>t, <1>a, <1>b, TailCalls
    <2>4. LastSet(toService[c], prop[c]) =>
            LastSet(toService'[c], prop[c]) \/ (d = c /\ call.value = prop[c])
      BY <2>1, <1>t, TailCalls
    <2>5. CASE call.value = value
      <3>1. UNCHANGED <<value, toClient, untold, refused>>
        BY <1>6, <2>5 DEF ServiceSets
      <3>2. CASE LastSet(toService[c], prop[c]) /\ ~LastSet(toService'[c], prop[c])
        <4>1. prop[c] = value
          BY <2>4, <2>5, <3>2
        <4>2. link[c] # "down" /\ c \notin untold /\ ~Asks(c) /\ toClient[c] = <<>> => cache[c] = value
          BY DEF CacheInv, LastOf
        <4>3. QED
          BY <2>1, <2>3, <3>1, <4>1, <4>2 DEF Settles
      <3>3. CASE ~LastSet(toService[c], prop[c]) \/ LastSet(toService'[c], prop[c])
        BY <2>1, <2>3, <3>1, <3>3, <1>0 DEF Settles
      <3>4. QED
        BY <3>2, <3>3
    <2>6. CASE call.value # value
      <3>1. Signals(call.value) /\ refused' = {e \in refused : link[e] # "up"}
        BY <1>6, <2>6 DEF ServiceSets
      <3>2. CASE LastSet(toService[c], prop[c]) => LastSet(toService'[c], prop[c]) \/ link[c] = "up"
        BY <3>1, <3>2, <2>1, <2>2, <2>3, <1>0, SignalsProp
      <3>3. CASE LastSet(toService[c], prop[c]) /\ ~LastSet(toService'[c], prop[c]) /\ link[c] # "up"
        <4>1. link[c] = "down" \/ Asks(c) \/ c \in untold'
          BY <3>1, <3>3, <2>2, <1>t, SignalsType
        <4>2. QED
          BY <4>1, <2>1, <2>3 DEF Settles
      <3>4. QED
        BY <3>2, <3>3
    <2>7. QED
      BY <2>5, <2>6
  <1>7. ASSUME NEW d \in Clients, ServiceRefuses(d) PROVE Settles(c)'
    <2>1. /\ toService' = [toService EXCEPT ![d] = Tail(@)]
          /\ UNCHANGED <<cache, link, prop, toClient>>
          /\ untold \subseteq untold' /\ refused \subseteq refused'
          /\ d \in untold' \/ d \in refused'
      BY <1>7 DEF ServiceRefuses
    <2>2. CASE d = c
      BY <2>1, <2>2 DEF Settles
    <2>3. CASE d # c
      BY <2>1, <2>3, <1>t, <1>s
    <2>4. QED
      BY <2>2, <2>3
  <1>8. ASSUME NEW d \in Clients, NEW v \in Values, Write(d, v) PROVE Settles(c)'
    <2>1. /\ prop' = [prop EXCEPT ![d] = v]
          /\ UNCHANGED <<cache, link, toClient, untold, refused>>
      BY <1>8 DEF Write
    <2>2. completed[d] => IF cache[d] = v THEN toService' = toService
                          ELSE toService' = [toService EXCEPT ![d] = Append(@, Set(d, v))]
      BY <1>8 DEF Write, Spy
    <2>3. ~completed[d] => toService' = toService
      BY <1>8 DEF Write
    <2>4. CASE d # c
      <3>1. toService'[c] = toService[c] /\ prop'[c] = prop[c]
        BY <2>1, <2>2, <2>3, <2>4, <1>t
      <3>2. QED
        BY <3>1, <2>1, <1>s
    <2>5. CASE d = c /\ link[c] = "down"
      BY <2>1, <2>5 DEF Settles
    <2>6. CASE d = c /\ link[c] # "down" /\ cache[c] = v
      BY <2>1, <2>6, <1>t DEF Settles
    <2>7. CASE d = c /\ link[c] # "down" /\ cache[c] # v
      <3>1. Set(c, v) \in SetCall /\ Set(c, v).value = v
        BY TypeNames DEF Set, SetCall
      <3>2. LastSet(Append(toService[c], Set(c, v)), v)
        BY <3>1, <1>t, AppendSet
      <3>3. toService'[c] = Append(toService[c], Set(c, v)) /\ prop'[c] = v
        BY <2>1, <2>2, <2>7, <1>t
      <3>4. QED
        BY <3>2, <3>3 DEF Settles
    <2>8. QED
      BY <2>4, <2>5, <2>6, <2>7
  <1>9. ASSUME NEW v \in Values, ServiceChanges(v) PROVE Settles(c)'
    <2>1. /\ Signals(v) /\ UNCHANGED <<link, cache, prop, toService>>
          /\ refused' = {e \in refused : link[e] # "up"}
      BY <1>9 DEF ServiceChanges
    <2>2. QED
      BY <2>1, <1>0, <1>a, <1>b, SignalsProp
  <1>10. CASE UNCHANGED vars
    BY <1>10, <1>s DEF vars
  <1>11. QED
    BY <1>1, <1>2, <1>3, <1>4, <1>5, <1>6, <1>7, <1>8, <1>9, <1>10 DEF Next

\* Then the property shows the service's value too, unless a write was refused: a
\* value QML has written is never left standing when the service has another.
THEOREM PropertyCurrent == Spec => []PropertyIsCurrent
  <1>1. TypeOK /\ CacheInv /\ PropInv => PropertyIsCurrent
    <2> SUFFICES ASSUME CacheInv, PropInv, NEW c \in Clients \ (untold \cup refused),
                        link[c] = "up", Quiet(c)
                 PROVE  prop[c] = value
      BY DEF PropertyIsCurrent
    <2>1. ~Asks(c) /\ toClient[c] = <<>> /\ toService[c] = <<>>
      BY AsksIsAskIn, NoCalls DEF Quiet
    <2>2. cache[c] = value
      BY <2>1 DEF CacheInv, LastOf
    <2>3. ~LastSet(<<>>, prop[c])
      BY DEF LastSet
    <2>4. QED
      BY <2>1, <2>2, <2>3 DEF PropInv, Settles
  <1>2. Spec => [](TypeOK /\ CacheInv /\ PropInv)
    BY InitTypeOK, NextTypeOK, InitCacheInv, NextCacheInv, InitPropInv, NextPropInv, PTL DEF Spec
  <1>3. QED
    BY <1>1, <1>2, PTL

-----------------------------------------------------------------------------
(* The value written last. *)

OnlyWriter(c) == \A d \in Clients : last[d] # None <=> d = c

\* The last write of the only writer is the last Set on its way, or done.
Holds(c) ==
  \/ c \in lost
  \/ LastSet(toService[c], last[c])
  \/ ~Sends(toService[c]) /\ value = last[c]

WriteInv ==
  /\ \A c \in Clients : last[c] = None => ~Sends(toService[c])
  /\ \A c \in Clients : OnlyWriter(c) /\ counts.change = 0 => Holds(c)

LEMMA InitWriteInv == Init => WriteInv
  <1> SUFFICES ASSUME Init, NEW c \in Clients
               PROVE  ~Sends(toService[c]) /\ ~OnlyWriter(c)
    BY DEF WriteInv
  <1>1. toService[c] = <<>> /\ last[c] = None
    BY DEF Init
  <1>2. QED
    BY <1>1, NoCalls DEF OnlyWriter

\* Nobody has written, and the calls have lost no Set.
LEMMA WriteKept ==
  ASSUME TypeOK, WriteInv, last' = last, counts'.change = 0 => counts.change = 0,
         \A c \in Clients : Sends(toService'[c]) => Sends(toService[c]),
         \A c \in Clients : OnlyWriter(c) /\ counts.change = 0 /\ Holds(c) => Holds(c)'
  PROVE  WriteInv'
  BY DEF WriteInv, OnlyWriter

LEMMA NextWriteInv == TypeOK /\ CacheInv /\ WriteInv /\ [Next]_vars => WriteInv'
  <1> SUFFICES ASSUME TypeOK, CacheInv, WriteInv, [Next]_vars PROVE WriteInv'
    OBVIOUS
  <1>t. toService \in [Clients -> Seq(Calls)] /\ value \in Values
        /\ counts \in [{"write", "change", "toggle", "refusal"} -> Nat]
        /\ last \in [Clients -> Values \cup {None}]
        /\ \A c \in Clients : link[c] # "down" => completed[c]
    BY TypeNames
  <1>n. ASSUME NEW what \in {"write", "toggle", "refusal"}, NEW max, Count(what, max)
        PROVE  counts'.change = counts.change
    BY <1>n, <1>t DEF Count
  <1>s. ASSUME last' = last, toService' = toService, value' = value, lost' = lost,
               counts'.change = counts.change
        PROVE  WriteInv'
    BY <1>s, WriteKept DEF Holds
  <1>k. ASSUME NEW c \in Clients, Connect(c), UNCHANGED <<last, value, lost>>,
               counts'.change = counts.change
        PROVE  WriteInv'
    <2>1. \A d \in Clients : Sends(toService'[d]) <=> Sends(toService[d])
      BY <1>k, <1>t, AppendGetAll DEF Connect
    <2>2. \A d \in Clients : LastSet(toService[d], last[d]) => LastSet(toService'[d], last[d])
      BY <1>k, <1>t, AppendGetAll DEF Connect
    <2>3. QED
      BY <1>k, <2>1, <2>2, WriteKept DEF Holds
  <1>1. ASSUME NEW c \in Clients, ComponentComplete(c) PROVE WriteInv'
    <2>1. CASE enabled[c]
      BY <1>1, <2>1, <1>k DEF ComponentComplete
    <2>2. CASE ~enabled[c]
      BY <1>1, <2>2, <1>s DEF ComponentComplete
    <2>3. QED
      BY <2>1, <2>2
  <1>2. ASSUME NEW c \in Clients, Subscribed(c) PROVE WriteInv'
    BY <1>2, <1>s DEF Subscribed
  <1>3. ASSUME NEW c \in Clients, SetEnabled(c) PROVE WriteInv'
    <2>1. counts'.change = counts.change /\ UNCHANGED <<last, value, lost>>
      BY <1>3, <1>n DEF SetEnabled
    <2>2. Connect(c) \/ toService' = toService
      BY <1>3 DEF SetEnabled
    <2>3. QED
      BY <2>1, <2>2, <1>k, <1>s
  <1>4. ASSUME NEW c \in Clients, Receive(c) PROVE WriteInv'
    <2>1. UNCHANGED <<toService, last, value, lost, counts>>
      BY <1>4, TypeNames DEF Receive, Spy
    <2>2. QED
      BY <2>1, <1>s
  <1>5. ASSUME NEW c \in Clients, ServiceAnswers(c) PROVE WriteInv'
    <2>1. /\ toService[c] # <<>> /\ Head(toService[c]).call = "GetAll"
          /\ toService' = [toService EXCEPT ![c] = Tail(@)]
          /\ UNCHANGED <<last, value, lost, counts>>
      BY <1>5 DEF ServiceAnswers
    <2>2. \A d \in Clients : Sends(toService'[d]) <=> Sends(toService[d])
      BY <2>1, <1>t, TailCalls
    <2>3. \A d \in Clients : LastSet(toService[d], last[d]) => LastSet(toService'[d], last[d])
      BY <2>1, <1>t, TailCalls
    <2>4. QED
      BY <2>1, <2>2, <2>3, WriteKept DEF Holds
  <1>6. ASSUME NEW c \in Clients, ServiceSets(c) PROVE WriteInv'
    <2> DEFINE call == Head(toService[c])
    <2>1. /\ toService[c] # <<>> /\ call.call = "Set"
          /\ toService' = [toService EXCEPT ![c] = Tail(@)]
          /\ UNCHANGED <<last, lost, counts>>
          /\ value' = call.value
      BY <1>6 DEF ServiceSets, Signals
    <2>2. Sends(toService[c]) /\ last[c] # None
      <3>1. Sends(toService[c])
        BY <2>1, <1>t, TailCalls
      <3>2. QED
        BY <3>1 DEF WriteInv
    <2>3. \A d \in Clients : Sends(toService'[d]) => Sends(toService[d])
      BY <2>1, <1>t, TailCalls
    <2>4. \A d \in Clients : OnlyWriter(d) => d = c
      BY <2>2 DEF OnlyWriter
    <2>5. LastSet(toService[c], last[c]) =>
            LastSet(toService'[c], last[c]) \/ (call.value = last[c] /\ ~Sends(toService'[c]))
      BY <2>1, <1>t, TailCalls
    <2>6. Holds(c) => Holds(c)'
      BY <2>1, <2>2, <2>5 DEF Holds
    <2>7. QED
      BY <2>1, <2>3, <2>4, <2>6, WriteKept
  <1>7. ASSUME NEW c \in Clients, ServiceRefuses(c) PROVE WriteInv'
    <2> DEFINE call == Head(toService[c])
    <2>1. /\ toService[c] # <<>>
          /\ toService' = [toService EXCEPT ![c] = Tail(@)]
          /\ UNCHANGED <<last, value>>
          /\ lost' = IF call.call = "Set" /\ ~Sends(Tail(toService[c])) THEN lost \cup {c} ELSE lost
      BY <1>7 DEF ServiceRefuses
    <2>2. counts'.change = counts.change
      <3>1. counts' = counts \/ Count("refusal", MaxRefusals)
        BY <1>7 DEF ServiceRefuses
      <3>2. QED
        BY <3>1, <1>n
    <2>3. \A d \in Clients : Sends(toService'[d]) => Sends(toService[d])
      BY <2>1, <1>t, TailCalls
    <2>4. \A d \in Clients : d # c => toService'[d] = toService[d] /\ (d \in lost <=> d \in lost')
      BY <2>1, <1>t
    <2>5. toService'[c] = Tail(toService[c])
      BY <2>1, <1>t
    <2>6. Holds(c) => Holds(c)'
      <3>1. LastSet(toService[c], last[c]) =>
              LastSet(Tail(toService[c]), last[c]) \/ (call.call = "Set" /\ ~Sends(Tail(toService[c])))
        BY <2>1, <1>t, TailCalls
      <3>2. ~Sends(toService[c]) => ~Sends(toService'[c])
        BY <2>3
      <3>3. call.call = "Set" /\ ~Sends(Tail(toService[c])) => c \in lost'
        BY <2>1
      <3>4. c \in lost => c \in lost'
        BY <2>1
      <3>5. QED
        BY <2>1, <2>5, <3>1, <3>2, <3>3, <3>4 DEF Holds
    <2>7. \A d \in Clients : Holds(d) => Holds(d)'
      BY <2>1, <2>4, <2>6 DEF Holds
    <2>8. QED
      BY <2>1, <2>2, <2>3, <2>7, WriteKept
  <1>8. ASSUME NEW c \in Clients, NEW v \in Values, Write(c, v) PROVE WriteInv'
    <2>1. counts'.change = counts.change /\ value' = value
      BY <1>8, <1>n DEF Write
    <2>2. CASE ~completed[c]
      BY <1>8, <2>1, <2>2, <1>s DEF Write
    <2>3. CASE completed[c]
      <3>1. /\ last' = [last EXCEPT ![c] = v]
            /\ IF cache[c] = v THEN toService' = toService
               ELSE toService' = [toService EXCEPT ![c] = Append(@, Set(c, v))]
        BY <1>8, <2>3 DEF Write, Spy
      <3>2. last'[c] = v /\ v # None /\ \A d \in Clients : d # c => last'[d] = last[d] /\ toService'[d] = toService[d]
        BY <3>1, <1>t
      <3>3. \A d \in Clients : last'[d] = None => ~Sends(toService'[d])
        BY <3>2 DEF WriteInv
      <3>4. \A d \in Clients : OnlyWriter(d)' => d = c
        BY <3>2 DEF OnlyWriter
      <3>5. Holds(c)'
        <4>1. CASE cache[c] # v
          <5>1. Set(c, v) \in SetCall /\ Set(c, v).value = v
            BY TypeNames DEF Set, SetCall
          <5>2. LastSet(Append(toService[c], Set(c, v)), v)
            BY <5>1, <1>t, AppendSet
          <5>3. toService'[c] = Append(toService[c], Set(c, v))
            BY <3>1, <4>1, <1>t
          <5>4. QED
            BY <5>2, <5>3, <3>2 DEF Holds
        <4>2. CASE cache[c] = v /\ (~Quiet(c) \/ link[c] # "up" \/ c \in untold)
          <5>1. lost' = lost \cup {c}
            BY <1>8, <2>3, <4>2 DEF Write
          <5>2. QED
            BY <5>1 DEF Holds
        <4>3. CASE cache[c] = v /\ Quiet(c) /\ link[c] = "up" /\ c \notin untold
          <5>1. toService[c] = <<>> /\ toClient[c] = <<>> /\ ~Asks(c)
            BY <4>3, AsksIsAskIn, NoCalls DEF Quiet
          <5>2. value = v
            BY <4>3, <5>1 DEF CacheInv, LastOf
          <5>3. toService'[c] = <<>>
            BY <3>1, <4>3, <5>1
          <5>4. QED
            BY <5>2, <5>3, <2>1, <3>2, NoCalls DEF Holds
        <4>4. QED
          BY <4>1, <4>2, <4>3
      <3>6. QED
        BY <3>3, <3>4, <3>5 DEF WriteInv
    <2>4. QED
      BY <2>2, <2>3
  <1>9. ASSUME NEW v \in Values, ServiceChanges(v) PROVE WriteInv'
    <2>1. counts'.change # 0
      BY <1>9, <1>t DEF ServiceChanges, Count
    <2>2. last' = last /\ toService' = toService
      BY <1>9 DEF ServiceChanges
    <2>3. QED
      BY <2>1, <2>2 DEF WriteInv
  <1>10. CASE UNCHANGED vars
    BY <1>10, <1>s DEF vars
  <1>11. QED
    BY <1>1, <1>2, <1>3, <1>4, <1>5, <1>6, <1>7, <1>8, <1>9, <1>10 DEF Next

\* What the only writer wrote last is what the service has once nothing is on the
\* writer's way: a value that comes back never undoes a later write.
THEOREM LastWriteStands == Spec => []LastWriteHolds
  <1>1. TypeOK /\ WriteInv => LastWriteHolds
    <2> SUFFICES ASSUME WriteInv, NEW c \in Clients \ lost, OnlyWriter(c), counts.change = 0, Quiet(c)
                 PROVE  value = last[c]
      BY DEF LastWriteHolds, OnlyWriter
    <2>1. Holds(c) /\ toService[c] = <<>>
      BY DEF WriteInv, Quiet
    <2>2. ~LastSet(<<>>, last[c])
      BY DEF LastSet
    <2>3. QED
      BY <2>1, <2>2 DEF Holds
  <1>2. Spec => [](TypeOK /\ CacheInv /\ WriteInv)
    BY InitTypeOK, NextTypeOK, InitCacheInv, NextCacheInv, InitWriteInv, NextWriteInv, PTL DEF Spec
  <1>3. QED
    BY <1>1, <1>2, PTL
=============================================================================
