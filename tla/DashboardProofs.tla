---------------------------- MODULE DashboardProofs ----------------------------
(***************************************************************************)
(* The dashboard's bus and its service registry, for any number of         *)
(* publishers, requests, peers and ports and any bounds.                   *)
(*                                                                         *)
(* Two developments side by side: nothing of the one uses the other.  Of   *)
(* the bus, where a message ends up that was published around a reload of  *)
(* the backends, and what a client and the metrics task make of a stream   *)
(* they read first from the store and then follow.  Of the services, what  *)
(* the registry may claim of processes that several requests, a watcher    *)
(* each and the processes themselves change behind each other's backs.     *)
(***************************************************************************)
EXTENDS DashboardBus, Services, FiniteSetTheorems, SequenceTheorems, TLAPS
-----------------------------------------------------------------------------
(* The bus: types. *)

FileName == {"queue-config", "registry", "cmdb", "scratch"}

EventName == {"QueueConfigChanged", "RegistryChanged", "ScoreChanged"}

EventTypes == changes \in Seq(FileName) /\ events \in Seq(EventName)

ReloadType ==
  [pc : {"spawn", "recv", "read", "swap", "clear", "ended"}, pos : Nat, from : Nat,
   new : Backend \cup {Strange}]

PubType ==
  [pc : {"idle", "append", "send"}, handle : Backend \cup {NoHandle}, msg : 0 .. MaxMessages, at : Nat]

ClientType ==
  [pc : {"away", "open", "read", "follow"}, handle : Backend \cup {NoHandle}, pos : Nat,
   seen : SUBSET Nat, lost : Nat]

RecorderType ==
  [pc : {"off", "backfill", "read", "subscribe", "run", "ended"}, handle : Backend \cup {NoHandle},
   pos : Nat, before : Nat]

\* A request, a client and the metrics task that goes on to store or to read has a handle,
\* and receivers have taken no more of the stream than was sent.
BusTypes ==
  /\ TypeOK
  /\ EventTypes
  /\ reload \in ReloadType
  /\ client \in ClientType
  /\ recorder \in RecorderType
  /\ client.pc \in {"read", "follow"} => client.handle \in Backend
  /\ client.pos <= Len(stream)
  /\ recorder.pc = "read" => recorder.handle \in Backend
  /\ recorder.pos <= Len(stream) /\ recorder.before <= Len(stream)
  /\ \A p \in Publisher : pub[p].pc # "idle" => pub[p].handle \in Backend /\ pub[p].msg \in 1 .. made
  /\ clears \in Nat

LEMMA BusFacts ==
  ASSUME BusTypes
  PROVE  /\ made \in Nat /\ made + 1 \in Nat /\ clears \in Nat /\ MaxMessages \in Nat
         /\ stream \in Seq(1 .. MaxMessages) /\ Len(stream) \in Nat
         /\ stored \in [Backend -> Seq(1 .. MaxMessages)]
         /\ recorded \in Seq(1 .. MaxMessages)
         /\ pub \in [Publisher -> PubType]
         /\ \A p \in Publisher : pub[p] \in PubType
         /\ \A p \in Publisher : pub[p].pc # "idle" =>
              pub[p].handle \in Backend /\ pub[p].msg \in 1 .. made /\ pub[p].msg \in 1 .. MaxMessages
<1>1. MaxMessages \in Nat
  BY BusAssumption
<1>2. pub \in [Publisher -> PubType]
  BY DEF BusTypes, TypeOK, PubType
<1> QED
  BY <1>1, <1>2 DEF BusTypes, TypeOK

LEMMA BusTypesInit == Init => BusTypes
<1> SUFFICES ASSUME Init PROVE BusTypes
  OBVIOUS
<1>1. TypeOK
  <2>1. file \in File /\ config \in Backend \cup {Strange} /\ backends \in Backend \cup {NoHandle}
    BY BusAssumption DEF Init, File, Parsed
  <2>2. /\ stored \in [Backend -> Seq(1 .. MaxMessages)] /\ stream \in Seq(1 .. MaxMessages)
        /\ recorded \in Seq(1 .. MaxMessages) /\ made \in 0 .. MaxMessages
    BY BusAssumption DEF Init
  <2>3. pub \in [Publisher -> PubType]
    BY BusAssumption DEF Init, NoPublish, PubType
  <2> QED
    BY <2>1, <2>2, <2>3 DEF Init, TypeOK, PubType
<1>2. EventTypes
  BY DEF Init, EventsInit, EventTypes
<1>3. Len(stream) = 0
  BY DEF Init
<1> QED
  BY <1>1, <1>2, <1>3, BusAssumption
     DEF Init, BusTypes, NoPublish, ReloadType, ClientType, RecorderType

LEMMA EventsKept ==
  ASSUME EventTypes, FileChanged("cmdb") \/ FileChanged("queue-config") \/ Forward
  PROVE  EventTypes'
<1>1. ASSUME NEW f \in FileName, FileChanged(f) PROVE EventTypes'
  BY <1>1 DEF FileChanged, EventTypes
<1>2. CASE Forward
  <2>1. PICK f \in FileName : changes' = Tail(changes) /\ events' = events \o Meaning[f]
    BY <1>2, HeadTailProperties DEF Forward, EventTypes
  <2>2. changes' \in Seq(FileName)
    BY <1>2, <2>1, HeadTailProperties DEF Forward, EventTypes
  <2>3. Meaning[f] \in Seq(EventName)
    <3>1. \/ Meaning[f] = <<"QueueConfigChanged">> \/ Meaning[f] = <<"RegistryChanged">>
          \/ Meaning[f] = <<"ScoreChanged">> \/ Meaning[f] = <<>>
      BY DEF Meaning, FileName
    <3>2. /\ <<"QueueConfigChanged">> \in Seq(EventName) /\ <<"RegistryChanged">> \in Seq(EventName)
          /\ <<"ScoreChanged">> \in Seq(EventName) /\ <<>> \in Seq(EventName)
      BY DEF EventName
    <3> QED
      BY <3>1, <3>2
  <2> HIDE DEF Meaning
  <2>4. events' \in Seq(EventName)
    BY <2>1, <2>3, ConcatProperties DEF EventTypes
  <2> QED
    BY <2>2, <2>4 DEF EventTypes
<1> QED
  BY <1>1, <1>2 DEF FileName

\* The file, the configuration and the reload task.
LEMMA ConfTypes ==
  ASSUME BusTypes, Edit \/ Watcher \/ Reload
  PROVE  /\ BusTypes' /\ UNCHANGED topicVars /\ UNCHANGED readerVars
<1>1. /\ file \in File /\ config \in Backend \cup {Strange} /\ backends \in Backend \cup {NoHandle}
      /\ clears \in Nat /\ clears + 1 \in Nat /\ reload \in ReloadType
      /\ reload.pos + 1 \in Nat
  BY DEF BusTypes, TypeOK, ReloadType
<1>2. UNCHANGED topicVars /\ UNCHANGED readerVars
  BY DEF Edit, Watcher, busVars, Reload, Subscribe, ReloadRecv, ReloadLagged, ReloadRead, ReloadSwap,
         ReloadClear
<1>3. file' \in File
  BY <1>1 DEF Edit, Watcher, busVars, confVars, Reload, Subscribe, ReloadRecv, ReloadLagged, ReloadRead,
              ReloadSwap, ReloadClear
<1>4. config' \in Backend \cup {Strange}
  BY <1>1 DEF Edit, Watcher, busVars, confVars, Reload, Subscribe, ReloadRecv, ReloadLagged, ReloadRead,
              ReloadSwap, ReloadClear, ReloadType
<1>5. backends' \in Backend \cup {NoHandle} /\ clears' \in Nat
  BY <1>1 DEF Edit, Watcher, busVars, confVars, Reload, Subscribe, ReloadRecv, ReloadLagged, ReloadRead,
              ReloadSwap, ReloadClear
<1>6. reload' \in ReloadType
  <2>1. CASE Edit \/ Watcher
    BY <1>1, <2>1 DEF Edit, Watcher, busVars, confVars
  <2>2. CASE Subscribe
    <3>1. Len(events) \in Nat
      BY DEF BusTypes, EventTypes
    <3> QED
      BY <1>1, <2>2, <3>1 DEF Subscribe, ReloadType
  <2>3. CASE ReloadRecv
    BY <1>1, <2>3 DEF ReloadRecv, ReloadType
  <2>4. CASE ReloadRead
    BY <1>1, <2>4 DEF ReloadRead, File, ReloadType
  <2>5. CASE ReloadLagged \/ ReloadSwap \/ ReloadClear
    BY <1>1, <2>5 DEF ReloadLagged, ReloadSwap, ReloadClear, ReloadType
  <2> QED
    BY <2>1, <2>2, <2>3, <2>4, <2>5 DEF Reload
<1>7. EventTypes'
  <2>1. CASE Edit \/ Watcher
    BY <2>1, EventsKept DEF Edit, Watcher, BusTypes, EventTypes
  <2>2. CASE Reload
    BY <2>2 DEF Reload, Subscribe, ReloadRecv, ReloadLagged, ReloadRead, ReloadSwap, ReloadClear,
                eventVars, EventTypes, BusTypes
  <2> QED
    BY <2>1, <2>2
<1>8. reload'.pc \in {"spawn", "recv", "read", "swap", "clear", "ended"}
  BY <1>6 DEF ReloadType
<1>9. TypeOK'
  BY <1>2, <1>3, <1>4, <1>5, <1>8 DEF BusTypes, TypeOK, topicVars, readerVars
<1> QED
  BY <1>2, <1>5, <1>6, <1>7, <1>9 DEF BusTypes, topicVars, readerVars

\* What a publish does to the topic.
LEMMA PublishTypes ==
  ASSUME BusTypes, NEW p \in Publisher, Publish(p)
  PROVE  BusTypes'
<1>1. UNCHANGED eventVars /\ UNCHANGED confVars /\ UNCHANGED readerVars
  BY DEF Publish, PublishBegin, PublishAppend, PublishFail, PublishSend
<1>2. ASSUME backends' \in Backend \cup {NoHandle}, made' \in 0 .. MaxMessages,
             stored' \in [Backend -> Seq(1 .. MaxMessages)], stream' \in Seq(1 .. MaxMessages),
             Len(stream') >= Len(stream), NEW q \in PubType, pub' = [pub EXCEPT ![p] = q],
             q.pc # "idle" => q.handle \in Backend /\ q.msg \in 1 .. made', made <= made'
      PROVE  BusTypes'
  <2>1. pub' \in [Publisher -> PubType]
    BY <1>2, BusFacts
  <2>2. TypeOK'
    BY <1>1, <1>2, <2>1 DEF BusTypes, TypeOK, PubType, confVars, readerVars
  <2>3. \A n \in Publisher : pub'[n].pc # "idle" => pub'[n].handle \in Backend /\ pub'[n].msg \in 1 .. made'
    <3>1. 1 .. made \subseteq 1 .. made'
      BY <1>2, BusFacts
    <3> QED
      BY <1>2, <3>1, BusFacts
  <2>4. client.pos <= Len(stream') /\ recorder.pos <= Len(stream') /\ recorder.before <= Len(stream')
    <3>1. Len(stream) \in Nat /\ Len(stream') \in Nat /\ client.pos \in Nat /\ recorder.pos \in Nat
          /\ recorder.before \in Nat
      BY <1>2, BusFacts DEF BusTypes, ClientType, RecorderType
    <3> QED
      BY <1>2, <3>1 DEF BusTypes
  <2> QED
    BY <1>1, <2>2, <2>3, <2>4 DEF BusTypes, eventVars, confVars, readerVars, EventTypes
<1>3. CASE PublishBegin(p)
  <2>1. PICK h \in Backend : 
          /\ BackendFor(h)
          /\ pub' = [pub EXCEPT ![p] = [pc |-> "append", handle |-> h, msg |-> made + 1, at |-> clears]]
    BY <1>3 DEF PublishBegin
  <2>2. made < MaxMessages /\ made' = made + 1 /\ UNCHANGED <<stored, stream>>
    BY <1>3 DEF PublishBegin
  <2>3. made' \in 0 .. MaxMessages /\ made + 1 \in 0 .. MaxMessages /\ made + 1 \in 1 .. made' /\ made <= made'
    BY <2>2, BusFacts
  <2> DEFINE q == [pc |-> "append", handle |-> h, msg |-> made + 1, at |-> clears]
  <2>4. q \in PubType /\ (q.pc # "idle" => q.handle \in Backend /\ q.msg \in 1 .. made')
    BY <2>3, BusFacts DEF PubType
  <2> HIDE DEF q
  <2>5. Len(stream') >= Len(stream)
    BY <2>2, BusFacts
  <2>6. backends' \in Backend \cup {NoHandle}
    BY <2>1 DEF BackendFor
  <2> QED
    BY <1>2, <2>1, <2>2, <2>3, <2>4, <2>5, <2>6, BusFacts DEF q
<1>4. pub[p] \in PubType /\ pub[p].msg \in 0 .. MaxMessages
  BY BusFacts DEF PubType
<1>5. NoPublish \in PubType /\ NoPublish.pc = "idle"
  BY BusFacts DEF NoPublish, PubType
<1>m. /\ pub[p].pc # "idle" => pub[p].msg \in 1 .. MaxMessages
      /\ made <= made /\ backends \in Backend \cup {NoHandle} /\ made \in 0 .. MaxMessages
  BY BusFacts DEF BusTypes, TypeOK
<1>6. CASE PublishAppend(p)
  <2>1. /\ pub[p].pc = "append" /\ pub' = [pub EXCEPT ![p].pc = "send"]
        /\ stored' = [stored EXCEPT ![pub[p].handle] = Append(@, pub[p].msg)]
        /\ UNCHANGED <<backends, stream, made>>
    BY <1>6 DEF PublishAppend
  <2> DEFINE q == [pub[p] EXCEPT !.pc = "send"]
  <2>2. q \in PubType /\ q.handle \in Backend /\ q.msg \in 1 .. made /\ pub' = [pub EXCEPT ![p] = q]
    BY <1>4, <2>1, BusFacts DEF PubType
  <2> HIDE DEF q
  <2>3. stored' \in [Backend -> Seq(1 .. MaxMessages)]
    <3>1. pub[p].handle \in Backend
      BY <2>1, BusFacts
    <3>2. Append(stored[pub[p].handle], pub[p].msg) \in Seq(1 .. MaxMessages)
      BY <1>m, <2>1, <3>1, BusFacts
    <3> QED
      BY <2>1, <3>2, BusFacts
  <2>4. Len(stream') >= Len(stream)
    BY <2>1, BusFacts
  <2> QED
    BY <1>2, <1>m, <2>1, <2>2, <2>3, <2>4, BusFacts
<1>7. CASE PublishFail(p)
  <2>1. pub' = [pub EXCEPT ![p] = NoPublish] /\ UNCHANGED <<backends, stored, stream, made>>
    BY <1>7 DEF PublishFail
  <2>2. Len(stream') >= Len(stream)
    BY <2>1, BusFacts
  <2> QED
    BY <1>2, <1>5, <1>m, <2>1, <2>2, BusFacts
<1>8. CASE PublishSend(p)
  <2>1. /\ pub[p].pc = "send" /\ pub' = [pub EXCEPT ![p] = NoPublish]
        /\ stream' = Append(stream, pub[p].msg)
        /\ UNCHANGED <<backends, stored, made>>
    BY <1>8 DEF PublishSend
  <2>2. stream' \in Seq(1 .. MaxMessages) /\ Len(stream') >= Len(stream)
    BY <1>m, <2>1, BusFacts
  <2> QED
    BY <1>2, <1>5, <1>m, <2>1, <2>2, BusFacts
<1> QED
  BY <1>3, <1>6, <1>7, <1>8 DEF Publish

\* The client and the metrics task read, and may put a handle into the cache.
LEMMA ReaderFacts ==
  ASSUME Client \/ Recorder
  PROVE  /\ UNCHANGED eventVars /\ UNCHANGED confVars /\ UNCHANGED topicVars
         /\ backends' = backends \/ \E h \in Backend : BackendFor(h)
<1>1. CASE Client
  BY <1>1 DEF Client, ClientSubscribe, ClientOpen, ClientRead, ClientRecv, ClientLagged
<1>2. CASE Recorder
  BY <1>2 DEF Recorder, RecorderOpen, RecorderSkip, RecorderRead, RecorderSubscribe, RecorderRecv,
              RecorderLagged
<1> QED
  BY <1>1, <1>2

LEMMA SeqElements ==
  ASSUME NEW S, NEW s \in Seq(S)
  PROVE  Len(s) \in Nat /\ DOMAIN s = 1 .. Len(s) /\ \A i \in 1 .. Len(s) : s[i] \in S
OBVIOUS

LEMMA ElementsFacts ==
  ASSUME NEW S, NEW s \in Seq(S), NEW e \in S
  PROVE  /\ Elements(s) \subseteq S
         /\ Append(s, e) \in Seq(S) /\ Elements(Append(s, e)) = Elements(s) \cup {e}
<1>1. Elements(s) \subseteq S
  BY DEF Elements
<1>2. /\ Append(s, e) \in Seq(S) /\ Len(s) \in Nat /\ DOMAIN s = 1 .. Len(s)
      /\ DOMAIN Append(s, e) = 1 .. Len(s) + 1
      /\ Append(s, e)[Len(s) + 1] = e /\ \A i \in 1 .. Len(s) : Append(s, e)[i] = s[i]
  OBVIOUS
<1>3. 1 .. Len(s) + 1 = (1 .. Len(s)) \cup {Len(s) + 1}
  BY <1>2
<1> QED
  BY <1>1, <1>2, <1>3 DEF Elements

LEMMA ClientTypes ==
  ASSUME BusTypes, Client
  PROVE  /\ client' \in ClientType /\ client'.pos <= Len(stream)
         /\ client'.pc \in {"read", "follow"} => client'.handle \in Backend
<1>1. /\ client \in ClientType /\ Len(stream) \in Nat /\ client.pos <= Len(stream) /\ client.pos \in Nat
      /\ client.pc \in {"read", "follow"} => client.handle \in Backend
      /\ client.seen \subseteq Nat
  BY BusFacts DEF BusTypes, ClientType
<1>2. CASE ClientSubscribe
  <2>1. client' = [client EXCEPT !.pc = "open", !.pos = Len(stream)] /\ Len(stream) <= Len(stream)
    BY <1>1, <1>2 DEF ClientSubscribe
  <2> QED
    BY <1>1, <2>1 DEF ClientType
<1>3. CASE ClientOpen
  BY <1>1, <1>3 DEF ClientOpen, ClientType
<1>4. CASE ClientRead
  <2>1. client.handle \in Backend
    BY <1>1, <1>4 DEF ClientRead
  <2>2. Elements(stored[client.handle]) \subseteq Nat
    <3>1. stored[client.handle] \in Seq(1 .. MaxMessages)
      BY <2>1, BusFacts
    <3> DEFINE s == stored[client.handle]
    <3> HIDE DEF s
    <3>2. \A i \in DOMAIN s : s[i] \in 1 .. MaxMessages
      BY <3>1, SeqElements DEF s
    <3>3. \A m \in 1 .. MaxMessages : m \in Nat
      OBVIOUS
    <3>4. Elements(s) \subseteq Nat
      BY <3>2, <3>3 DEF Elements
    <3> QED
      BY <3>4 DEF s
  <2>3. client.seen \cup Elements(stored[client.handle]) \in SUBSET Nat
    BY <1>1, <2>2
  <2> DEFINE e == client.seen \cup Elements(stored[client.handle])
  <2>4. client' = [client EXCEPT !.pc = "follow", !.seen = e]
    BY <1>4 DEF ClientRead
  <2> HIDE DEF e
  <2> QED
    BY <1>1, <2>1, <2>3, <2>4 DEF ClientType, e
<1>5. CASE ClientRecv
  <2>1. /\ client.pos < Len(stream) /\ client.pos + 1 \in Nat /\ client.pos + 1 <= Len(stream)
        /\ client' = [client EXCEPT !.pos = client.pos + 1, !.seen = client.seen \cup {stream[client.pos + 1]}]
    BY <1>1, <1>5 DEF ClientRecv, Unread
  <2>2. stream[client.pos + 1] \in Nat
    BY <1>1, <2>1, BusFacts
  <2>3. client.seen \cup {stream[client.pos + 1]} \in SUBSET Nat
    BY <1>1, <2>2
  <2> DEFINE e == client.seen \cup {stream[client.pos + 1]}
  <2> HIDE DEF e
  <2> QED
    BY <1>1, <2>1, <2>3 DEF ClientType, e
<1>6. CASE ClientLagged
  <2>1. Len(stream) - Capacity \in Nat /\ Len(stream) - Capacity <= Len(stream)
    BY <1>1, <1>6, EventsAssumption DEF ClientLagged, Lagged
  <2> QED
    BY <1>1, <1>6, <2>1 DEF ClientLagged, ClientType
<1> QED
  BY <1>2, <1>3, <1>4, <1>5, <1>6 DEF Client

LEMMA BacklogType ==
  ASSUME BusTypes, NEW b \in Backend
  PROVE  /\ Backlog(b) \in Seq(1 .. MaxMessages)
         /\ Len(Backlog(b)) \in Nat /\ FirstOffset[b] \in {0, 1}
         /\ Len(Backlog(b)) =
              IF Len(stored[b]) + FirstOffset[b] >= 2 THEN Len(stored[b]) + FirstOffset[b] - 1 ELSE 0
         /\ \A i \in 1 .. Len(Backlog(b)) :
              /\ i + 1 - FirstOffset[b] \in DOMAIN stored[b]
              /\ Backlog(b)[i] = stored[b][i + 1 - FirstOffset[b]]
<1>1. FirstOffset[b] \in {0, 1}
  BY BusAssumption
<1> DEFINE s == stored[b]
          f == FirstOffset[b]
          m == 2 - f
<1>2. s \in Seq(1 .. MaxMessages) /\ Len(s) \in Nat /\ DOMAIN s = 1 .. Len(s)
  BY BusFacts
<1>3. Backlog(b) = SubSeq(s, m, Len(s))
  BY DEF Backlog
<1>4. m \in {1, 2} /\ f \in {0, 1}
  BY <1>1
<1> HIDE DEF s, m
<1>5. \A i \in m .. Len(s) : s[i] \in 1 .. MaxMessages
  <2>1. \A i \in m .. Len(s) : i \in 1 .. Len(s)
    BY <1>2, <1>4
  <2> QED
    BY <1>2, <2>1, SeqElements
<1>6. m \in Int /\ Len(s) \in Int
  BY <1>2, <1>4
<1> DEFINE t == SubSeq(s, m, Len(s))
<1>7. /\ t \in Seq(1 .. MaxMessages)
      /\ Len(t) = IF m <= Len(s) THEN Len(s) - m + 1 ELSE 0
      /\ \A i \in 1 .. Len(s) - m + 1 : t[i] = s[m + i - 1]
  BY <1>5, <1>6, SubSeqProperties
<1> HIDE DEF t
<1>8. Len(t) \in Nat
  BY <1>2, <1>4, <1>7
<1>9. \A i \in 1 .. Len(t) : m + i - 1 \in 1 .. Len(s) /\ t[i] = s[m + i - 1]
  BY <1>2, <1>4, <1>7
<1>10. \A i \in 1 .. Len(t) : m + i - 1 = i + 1 - f
  BY <1>1, <1>8 DEF m
<1>11. \A i \in 1 .. Len(t) : i + 1 - f \in DOMAIN s /\ t[i] = s[i + 1 - f]
  BY <1>2, <1>9, <1>10
<1>12. Len(t) = IF Len(s) + f >= 2 THEN Len(s) + f - 1 ELSE 0
  BY <1>2, <1>4, <1>7 DEF m
<1> QED
  BY <1>1, <1>3, <1>7, <1>8, <1>11, <1>12 DEF s, t

LEMMA RecorderTypes ==
  ASSUME BusTypes, Recorder
  PROVE  /\ recorder' \in RecorderType /\ recorder'.pos <= Len(stream) /\ recorder'.before <= Len(stream)
         /\ recorder'.pc = "read" => recorder'.handle \in Backend
         /\ recorded' \in Seq(1 .. MaxMessages)
<1>1. /\ recorder \in RecorderType /\ Len(stream) \in Nat
      /\ recorder.pos <= Len(stream) /\ recorder.before <= Len(stream)
      /\ recorder.pc = "read" => recorder.handle \in Backend
      /\ recorded \in Seq(1 .. MaxMessages)
      /\ recorder.pos \in Nat
  BY BusFacts DEF BusTypes, RecorderType
<1>2. CASE RecorderOpen
  <2>1. PICK h \in Backend : recorder' = [recorder EXCEPT !.pc = "read", !.handle = h, !.before = Len(stream)]
    BY <1>2 DEF RecorderOpen
  <2>2. recorded' = recorded /\ Len(stream) <= Len(stream)
    BY <1>1, <1>2 DEF RecorderOpen
  <2> QED
    BY <1>1, <2>1, <2>2 DEF RecorderType
<1>3. CASE RecorderSkip
  BY <1>1, <1>3 DEF RecorderSkip, RecorderType
<1>4. CASE RecorderRead
  <2>1. recorder.handle \in Backend /\ recorded' = recorded \o Backlog(recorder.handle)
    BY <1>1, <1>4 DEF RecorderRead
  <2>2. recorded' \in Seq(1 .. MaxMessages)
    BY <1>1, <2>1, BacklogType, ConcatProperties
  <2> QED
    BY <1>1, <1>4, <2>2 DEF RecorderRead, RecorderType
<1>5. CASE RecorderSubscribe
  <2>1. recorder' = [recorder EXCEPT !.pc = "run", !.pos = Len(stream)]
    BY <1>5 DEF RecorderSubscribe
  <2>2. recorded' = recorded /\ Len(stream) <= Len(stream)
    BY <1>1, <1>5 DEF RecorderSubscribe
  <2> QED
    BY <1>1, <2>1, <2>2 DEF RecorderType
<1>6. CASE RecorderRecv
  <2>1. /\ recorder.pos < Len(stream) /\ recorder.pos + 1 \in Nat /\ recorder.pos + 1 <= Len(stream)
        /\ recorder' = [recorder EXCEPT !.pos = recorder.pos + 1]
        /\ recorded' = Append(recorded, stream[recorder.pos + 1])
        /\ recorder.pc = "run"
    BY <1>1, <1>6 DEF RecorderRecv, Unread
  <2>2. stream[recorder.pos + 1] \in 1 .. MaxMessages
    BY <1>1, <2>1, BusFacts
  <2>3. recorded' \in Seq(1 .. MaxMessages)
    BY <1>1, <2>1, <2>2
  <2> QED
    BY <1>1, <2>1, <2>3 DEF RecorderType
<1>7. CASE RecorderLagged
  BY <1>1, <1>7 DEF RecorderLagged, RecorderType
<1> QED
  BY <1>2, <1>3, <1>4, <1>5, <1>6, <1>7 DEF Recorder

LEMMA ReaderTypes ==
  ASSUME BusTypes, Client \/ Recorder
  PROVE  BusTypes'
<1>1. /\ UNCHANGED eventVars /\ UNCHANGED confVars /\ UNCHANGED topicVars
      /\ backends' \in Backend \cup {NoHandle}
  BY ReaderFacts DEF BackendFor, BusTypes, TypeOK
<1>2. CASE Client
  <2>1. UNCHANGED <<recorder, recorded>>
    BY <1>2 DEF Client, ClientSubscribe, ClientOpen, ClientRead, ClientRecv, ClientLagged
  <2>2. client'.pc \in {"away", "open", "read", "follow"}
    BY <1>2, ClientTypes DEF ClientType
  <2>3. TypeOK'
    BY <1>1, <2>1, <2>2 DEF BusTypes, TypeOK, confVars, topicVars
  <2> QED
    BY <1>1, <1>2, <2>1, <2>3, ClientTypes DEF BusTypes, EventTypes, eventVars, confVars, topicVars
<1>3. CASE Recorder
  <2>1. client' = client
    BY <1>3 DEF Recorder, RecorderOpen, RecorderSkip, RecorderRead, RecorderSubscribe, RecorderRecv,
                RecorderLagged
  <2>2. recorder'.pc \in {"off", "backfill", "read", "subscribe", "run", "ended"}
    BY <1>3, RecorderTypes DEF RecorderType
  <2>3. TypeOK'
    BY <1>1, <1>3, <2>1, <2>2, RecorderTypes DEF BusTypes, TypeOK, confVars, topicVars
  <2> QED
    BY <1>1, <1>3, <2>1, <2>3, RecorderTypes DEF BusTypes, EventTypes, eventVars, confVars, topicVars
<1> QED
  BY <1>2, <1>3

LEMMA BusTypesNext == BusTypes /\ [Next]_vars => BusTypes'
<1> SUFFICES ASSUME BusTypes, [Next]_vars PROVE BusTypes'
  OBVIOUS
<1>1. CASE UNCHANGED vars
  BY <1>1 DEF vars, busVars, eventVars, confVars, topicVars, readerVars, BusTypes, TypeOK, EventTypes
<1> QED
  BY <1>1, ConfTypes, PublishTypes, ReaderTypes DEF Next

THEOREM BusTypesInvariant == Spec => []BusTypes
<1>1. Init => BusTypes
  BY BusTypesInit
<1>2. BusTypes /\ [Next]_vars => BusTypes'
  BY BusTypesNext
<1> QED
  BY <1>1, <1>2, PTL DEF Spec

\* The configuration, the cache of handles and all that is stored and sent keep their
\* types through edits, reloads, publishes and readers in any order (bus.rs, BusState).
THEOREM BusTypeCorrect == Spec => []TypeOK
<1>1. BusTypes => TypeOK
  BY DEF BusTypes
<1> QED
  BY <1>1, BusTypesInvariant, PTL

-----------------------------------------------------------------------------
(* Handles. *)

\* The cache holds the configured backend, save between the halves of a reload, and so
\* does a publish that began since the last one.
RouteInv ==
  /\ reload.pc # "clear" /\ backends # NoHandle => backends = config
  /\ \A p \in Publisher : pub[p].pc # "idle" => pub[p].at <= clears
  /\ \A p \in Publisher :
       pub[p].pc # "idle" /\ pub[p].at = clears /\ reload.pc # "clear" => pub[p].handle = config

LEMMA RouteConf ==
  ASSUME BusTypes, RouteInv, Edit \/ Watcher \/ Reload
  PROVE  RouteInv'
<1>1. pub' = pub
  BY ConfTypes DEF topicVars
<1>2. \A p \in Publisher : pub[p].pc # "idle" => pub[p].at \in Nat
  BY BusFacts DEF PubType
<1>3. clears \in Nat
  BY BusFacts
<1>4. CASE Edit \/ Watcher
  BY <1>1, <1>4 DEF Edit, Watcher, busVars, confVars, RouteInv
<1>5. CASE Subscribe \/ ReloadRecv \/ ReloadLagged \/ ReloadRead
  <2>1. UNCHANGED <<config, backends, clears>> /\ reload.pc # "clear"
    BY <1>5 DEF Subscribe, ReloadRecv, ReloadLagged, ReloadRead
  <2> QED
    BY <1>1, <2>1 DEF RouteInv
<1>6. CASE ReloadSwap
  <2>1. reload'.pc = "clear" /\ UNCHANGED <<clears, backends>>
    BY <1>6 DEF ReloadSwap, BusTypes, ReloadType
  <2> QED
    BY <1>1, <2>1 DEF RouteInv
<1>7. CASE ReloadClear
  <2>1. backends' = NoHandle /\ clears' = clears + 1 /\ config' = config
    BY <1>7 DEF ReloadClear
  <2>2. \A p \in Publisher : pub[p].pc # "idle" => pub[p].at <= clears' /\ pub[p].at # clears'
    BY <1>2, <1>3, <2>1 DEF RouteInv
  <2> QED
    BY <1>1, <2>1, <2>2 DEF RouteInv
<1> QED
  BY <1>4, <1>5, <1>6, <1>7 DEF Reload

\* backend_for hands out what the cache holds or the configuration names.
LEMMA RouteHandle ==
  ASSUME BusTypes, RouteInv, NEW h \in Backend, BackendFor(h)
  PROVE  /\ backends' = h
         /\ reload.pc # "clear" => h = config
BY DEF BackendFor, RouteInv

LEMMA RoutePublish ==
  ASSUME BusTypes, RouteInv, NEW p \in Publisher, Publish(p)
  PROVE  RouteInv'
<1>1. UNCHANGED <<config, reload, clears>> /\ clears \in Nat
  BY BusFacts DEF Publish, PublishBegin, PublishAppend, PublishFail, PublishSend, confVars
<1>2. CASE PublishBegin(p)
  <2>1. PICK h \in Backend :
          /\ BackendFor(h)
          /\ pub' = [pub EXCEPT ![p] = [pc |-> "append", handle |-> h, msg |-> made + 1, at |-> clears]]
    BY <1>2 DEF PublishBegin
  <2>2. /\ pub'[p].handle = h /\ pub'[p].at = clears
        /\ \A n \in Publisher : n # p => pub'[n] = pub[n]
    BY <2>1, BusFacts
  <2>3. backends' = h /\ (reload.pc # "clear" => h = config)
    BY <2>1, RouteHandle
  <2> QED
    BY <1>1, <2>2, <2>3 DEF RouteInv
<1>3. CASE PublishAppend(p) \/ PublishFail(p) \/ PublishSend(p)
  <2>1. /\ backends' = backends
        /\ \A n \in Publisher : n # p => pub'[n] = pub[n]
        /\ \/ pub'[p].pc = "idle"
           \/ pub[p].pc # "idle" /\ pub'[p].at = pub[p].at /\ pub'[p].handle = pub[p].handle
    BY <1>3, BusFacts DEF PublishAppend, PublishFail, PublishSend, NoPublish, PubType
  <2> QED
    BY <1>1, <2>1 DEF RouteInv
<1> QED
  BY <1>2, <1>3 DEF Publish

\* A publish that began after the last reload ended writes to the backend that the
\* configuration names, whatever order publishes, readers and the two halves of a reload
\* take (bus.rs, reload_from_path).
THEOREM RouteSafety == Spec => []Routed
<1>1. Init => RouteInv
  BY DEF Init, RouteInv, NoPublish
<1>2. BusTypes /\ RouteInv /\ [Next]_vars => RouteInv'
  <2> SUFFICES ASSUME BusTypes, RouteInv, [Next]_vars PROVE RouteInv'
    OBVIOUS
  <2>1. CASE UNCHANGED vars
    BY <2>1 DEF vars, busVars, confVars, topicVars, RouteInv
  <2>2. CASE Client \/ Recorder
    <3>1. UNCHANGED <<config, reload, clears, pub>>
          /\ (backends' = backends \/ \E h \in Backend : BackendFor(h))
      BY <2>2, ReaderFacts DEF confVars, topicVars
    <3>2. reload.pc # "clear" /\ backends' # NoHandle => backends' = config
      BY <3>1, RouteHandle DEF RouteInv
    <3> QED
      BY <3>1, <3>2 DEF RouteInv
  <2> QED
    BY <2>1, <2>2, RouteConf, RoutePublish DEF Next
<1>3. RouteInv => Routed
  BY DEF RouteInv, Routed
<1> QED
  BY <1>1, <1>2, <1>3, BusTypesInvariant, PTL DEF Spec

-----------------------------------------------------------------------------
(* Messages. *)

Once(s) == \A i, j \in DOMAIN s : s[i] = s[j] => i = j

LEMMA OnceAppend ==
  ASSUME NEW S, NEW s \in Seq(S), NEW e \in S, Once(s), e \notin Elements(s)
  PROVE  Once(Append(s, e))
<1>1. /\ Len(s) \in Nat /\ DOMAIN s = 1 .. Len(s)
      /\ DOMAIN Append(s, e) = 1 .. Len(s) + 1
      /\ Append(s, e)[Len(s) + 1] = e /\ \A i \in 1 .. Len(s) : Append(s, e)[i] = s[i]
  OBVIOUS
<1>2. 1 .. Len(s) + 1 = (1 .. Len(s)) \cup {Len(s) + 1} /\ \A i \in 1 .. Len(s) : s[i] # e
  BY <1>1 DEF Elements
<1> QED
  BY <1>1, <1>2 DEF Once

\* A message is sent once and stored once, and one under way was not sent and, before
\* it is appended, not stored.
UniqueInv ==
  /\ Once(stream) /\ Elements(stream) \subseteq 1 .. made
  /\ \A b \in Backend : Once(stored[b]) /\ Elements(stored[b]) \subseteq 1 .. made
  /\ \A p \in Publisher : pub[p].pc # "idle" => pub[p].msg \notin Elements(stream)
  /\ \A p \in Publisher : pub[p].pc = "append" => \A b \in Backend : pub[p].msg \notin Elements(stored[b])
  /\ \A p, n \in Publisher : pub[p].pc # "idle" /\ pub[n].pc # "idle" /\ pub[p].msg = pub[n].msg => p = n

LEMMA UniqueBegin ==
  ASSUME BusTypes, UniqueInv, NEW p \in Publisher, PublishBegin(p)
  PROVE  UniqueInv'
<1>1. PICK h \in Backend :
        pub' = [pub EXCEPT ![p] = [pc |-> "append", handle |-> h, msg |-> made + 1, at |-> clears]]
  BY DEF PublishBegin
<1>2. made' = made + 1 /\ UNCHANGED <<stored, stream>> /\ made \in Nat
  BY BusFacts DEF PublishBegin
<1>3. 1 .. made \subseteq 1 .. made' /\ made + 1 \notin 1 .. made
  BY <1>2
<1>4. /\ pub'[p].pc = "append" /\ pub'[p].msg = made + 1
      /\ \A n \in Publisher : n # p => pub'[n] = pub[n]
  BY <1>1, BusFacts
<1>5. made + 1 \notin Elements(stream) /\ \A b \in Backend : made + 1 \notin Elements(stored[b])
  BY <1>3 DEF UniqueInv
<1>6. \A n \in Publisher : pub[n].pc # "idle" => pub[n].msg # made + 1
  BY <1>3, BusFacts
<1>7. /\ Once(stream') /\ Elements(stream') \subseteq 1 .. made'
      /\ \A b \in Backend : Once(stored'[b]) /\ Elements(stored'[b]) \subseteq 1 .. made'
  BY <1>2, <1>3 DEF UniqueInv
<1>8. \A n \in Publisher : pub'[n].pc # "idle" => pub'[n].msg \notin Elements(stream')
  BY <1>2, <1>4, <1>5 DEF UniqueInv
<1>9. \A n \in Publisher : pub'[n].pc = "append" => \A b \in Backend : pub'[n].msg \notin Elements(stored'[b])
  BY <1>2, <1>4, <1>5 DEF UniqueInv
<1>10. \A m, n \in Publisher : pub'[m].pc # "idle" /\ pub'[n].pc # "idle" /\ pub'[m].msg = pub'[n].msg => m = n
  BY <1>4, <1>6 DEF UniqueInv
<1> QED
  BY <1>7, <1>8, <1>9, <1>10 DEF UniqueInv

LEMMA AppendFacts ==
  ASSUME BusTypes, NEW p \in Publisher, PublishAppend(p)
  PROVE  /\ pub[p].pc = "append" /\ pub'[p] = [pub[p] EXCEPT !.pc = "send"]
         /\ pub'[p].pc = "send" /\ pub'[p].msg = pub[p].msg
         /\ \A n \in Publisher : n # p => pub'[n] = pub[n]
         /\ pub[p].handle \in Backend /\ pub[p].msg \in 1 .. made
         /\ stored'[pub[p].handle] = Append(stored[pub[p].handle], pub[p].msg)
         /\ \A b \in Backend : b # pub[p].handle => stored'[b] = stored[b]
         /\ Elements(stored'[pub[p].handle]) = Elements(stored[pub[p].handle]) \cup {pub[p].msg}
         /\ UNCHANGED <<stream, made, begun>> /\ UNCHANGED readerVars
<1>1. /\ pub[p].pc = "append" /\ pub' = [pub EXCEPT ![p].pc = "send"]
      /\ stored' = [stored EXCEPT ![pub[p].handle] = Append(@, pub[p].msg)]
      /\ UNCHANGED <<stream, made, begun>> /\ UNCHANGED readerVars
  BY DEF PublishAppend
<1>2. /\ pub[p] \in PubType /\ pub[p].handle \in Backend /\ pub[p].msg \in 1 .. made
      /\ pub[p].msg \in 1 .. MaxMessages
  BY <1>1, BusFacts
<1>3. /\ pub'[p] = [pub[p] EXCEPT !.pc = "send"]
      /\ \A n \in Publisher : n # p => pub'[n] = pub[n]
  BY <1>1, BusFacts
<1>4. pub'[p].pc = "send" /\ pub'[p].msg = pub[p].msg
  BY <1>2, <1>3 DEF PubType
<1>5. PICK h \in Backend, m \in 1 .. MaxMessages : h = pub[p].handle /\ m = pub[p].msg
  BY <1>2
<1>6. stored' = [stored EXCEPT ![h] = Append(stored[h], m)]
  BY <1>1, <1>5
<1>7. stored'[h] = Append(stored[h], m) /\ \A b \in Backend : b # h => stored'[b] = stored[b]
  BY <1>5, <1>6, BusFacts
<1>8. Elements(Append(stored[h], m)) = Elements(stored[h]) \cup {m}
  <2> DEFINE S == 1 .. MaxMessages
  <2>1. stored[h] \in Seq(S) /\ m \in S
    BY <1>5, BusFacts
  <2> HIDE DEF S
  <2> QED
    BY <2>1, ElementsFacts
<1> QED
  BY <1>1, <1>2, <1>3, <1>4, <1>5, <1>7, <1>8

LEMMA UniqueAppend ==
  ASSUME BusTypes, UniqueInv, NEW p \in Publisher, PublishAppend(p)
  PROVE  UniqueInv'
<1>1. PICK h \in Backend, m \in 1 .. made : h = pub[p].handle /\ m = pub[p].msg
  BY AppendFacts
<1>2. /\ stored'[h] = Append(stored[h], m) /\ \A b \in Backend : b # h => stored'[b] = stored[b]
      /\ Elements(stored'[h]) = Elements(stored[h]) \cup {m}
      /\ pub[p].pc = "append" /\ pub'[p].pc = "send" /\ pub'[p].msg = m
      /\ \A n \in Publisher : n # p => pub'[n] = pub[n]
      /\ UNCHANGED <<stream, made>>
  BY <1>1, AppendFacts
<1>3. Once(stored'[h]) /\ Elements(stored'[h]) \subseteq 1 .. made
  <2>1. stored[h] \in Seq(1 .. MaxMessages) /\ m \in 1 .. MaxMessages
    BY <1>1, <1>2, BusFacts
  <2>2. Once(stored[h]) /\ m \notin Elements(stored[h])
    BY <1>1, <1>2 DEF UniqueInv
  <2>3. Once(Append(stored[h], m))
    BY <2>1, <2>2, OnceAppend
  <2> QED
    BY <1>1, <1>2, <2>3 DEF UniqueInv
<1>4. \A b \in Backend : Once(stored'[b]) /\ Elements(stored'[b]) \subseteq 1 .. made
  BY <1>2, <1>3 DEF UniqueInv
<1>5. \A n \in Publisher : n # p /\ pub[n].pc # "idle" => pub[n].msg # m
  BY <1>1, <1>2 DEF UniqueInv
<1>6. \A n \in Publisher : pub'[n].pc = "append" => \A b \in Backend : pub'[n].msg \notin Elements(stored'[b])
  BY <1>2, <1>5 DEF UniqueInv
<1>7. \A n \in Publisher : pub'[n].pc # "idle" => pub[n].pc # "idle" /\ pub'[n].msg = pub[n].msg
  BY <1>1, <1>2
<1> QED
  BY <1>2, <1>4, <1>6, <1>7 DEF UniqueInv

LEMMA SendFacts ==
  ASSUME BusTypes, NEW p \in Publisher, PublishSend(p)
  PROVE  /\ pub[p].pc = "send" /\ pub' = [pub EXCEPT ![p] = NoPublish] /\ pub[p].msg \in 1 .. made
         /\ stream' = Append(stream, pub[p].msg)
         /\ Len(stream') = Len(stream) + 1 /\ DOMAIN stream' = 1 .. Len(stream) + 1
         /\ \A i \in 1 .. Len(stream) : stream'[i] = stream[i]
         /\ stream'[Len(stream) + 1] = pub[p].msg
         /\ Elements(stream') = Elements(stream) \cup {pub[p].msg}
         /\ UNCHANGED <<stored, made, begun>> /\ UNCHANGED readerVars
<1>1. /\ pub[p].pc = "send" /\ pub' = [pub EXCEPT ![p] = NoPublish]
      /\ stream' = Append(stream, pub[p].msg)
      /\ UNCHANGED <<stored, made, begun>> /\ UNCHANGED readerVars
  BY DEF PublishSend
<1>2. PICK m \in 1 .. MaxMessages : m = pub[p].msg
  BY <1>1, BusFacts
<1>3. stream \in Seq(1 .. MaxMessages) /\ pub[p].msg \in 1 .. made
  BY <1>1, BusFacts
<1>4. Elements(Append(stream, m)) = Elements(stream) \cup {m}
  <2> DEFINE S == 1 .. MaxMessages
  <2>1. stream \in Seq(S) /\ m \in S
    BY <1>3
  <2> HIDE DEF S
  <2> QED
    BY <2>1, ElementsFacts
<1>5. /\ Len(Append(stream, m)) = Len(stream) + 1 /\ DOMAIN Append(stream, m) = 1 .. Len(stream) + 1
      /\ \A i \in 1 .. Len(stream) : Append(stream, m)[i] = stream[i]
      /\ Append(stream, m)[Len(stream) + 1] = m
  BY <1>3
<1> QED
  BY <1>1, <1>2, <1>3, <1>4, <1>5

LEMMA UniqueRest ==
  ASSUME BusTypes, UniqueInv, NEW p \in Publisher, PublishFail(p) \/ PublishSend(p)
  PROVE  UniqueInv'
<1>1. NoPublish.pc = "idle" /\ pub \in [Publisher -> PubType]
  BY BusFacts DEF NoPublish
<1>2. CASE PublishFail(p)
  <2>1. pub' = [pub EXCEPT ![p] = NoPublish] /\ UNCHANGED <<stored, stream, made>>
    BY <1>2 DEF PublishFail
  <2>2. pub'[p].pc = "idle" /\ \A n \in Publisher : n # p => pub'[n] = pub[n]
    BY <1>1, <2>1
  <2> QED
    BY <2>1, <2>2 DEF UniqueInv
<1>3. CASE PublishSend(p)
  <2>1. PICK m \in 1 .. made : m = pub[p].msg
    BY <1>3, SendFacts
  <2>2. /\ pub[p].pc = "send" /\ stream' = Append(stream, m) /\ UNCHANGED <<stored, made>>
        /\ Elements(stream') = Elements(stream) \cup {m}
    BY <1>3, <2>1, SendFacts
  <2>3. pub'[p].pc = "idle" /\ \A n \in Publisher : n # p => pub'[n] = pub[n]
    BY <1>1, <1>3, SendFacts
  <2>4. Once(stream') /\ Elements(stream') \subseteq 1 .. made
    <3>1. stream \in Seq(1 .. MaxMessages) /\ m \in 1 .. MaxMessages
      BY <2>1, <2>2, BusFacts
    <3>2. Once(stream) /\ m \notin Elements(stream)
      BY <2>1, <2>2 DEF UniqueInv
    <3>3. Once(Append(stream, m))
      BY <3>1, <3>2, OnceAppend
    <3> QED
      BY <2>1, <2>2, <3>3 DEF UniqueInv
  <2>5. \A n \in Publisher : n # p /\ pub[n].pc # "idle" => pub[n].msg # m
    BY <2>1, <2>2 DEF UniqueInv
  <2>6. \A n \in Publisher : pub'[n].pc # "idle" => pub'[n].msg \notin Elements(stream')
    BY <2>2, <2>3, <2>5 DEF UniqueInv
  <2> QED
    BY <2>2, <2>3, <2>4, <2>6 DEF UniqueInv
<1> QED
  BY <1>2, <1>3

LEMMA UniqueNext == BusTypes /\ UniqueInv /\ [Next]_vars => UniqueInv'
<1> SUFFICES ASSUME BusTypes, UniqueInv, [Next]_vars PROVE UniqueInv'
  OBVIOUS
<1>1. CASE UNCHANGED topicVars
  BY <1>1 DEF topicVars, UniqueInv
<1>2. UNCHANGED vars => UNCHANGED topicVars
  BY DEF vars, busVars
<1> QED
  BY <1>1, <1>2, ConfTypes, ReaderFacts, UniqueBegin, UniqueAppend, UniqueRest DEF Next, Publish

THEOREM UniqueInvariant == Spec => []UniqueInv
<1>1. Init => UniqueInv
  <2> SUFFICES ASSUME Init PROVE UniqueInv
    OBVIOUS
  <2>1. Once(<<>>) /\ Elements(<<>>) = {}
    BY DEF Once, Elements
  <2> QED
    BY <2>1 DEF Init, UniqueInv, NoPublish
<1>2. BusTypes /\ UniqueInv /\ [Next]_vars => UniqueInv'
  BY UniqueNext
<1> QED
  BY <1>1, <1>2, BusTypesInvariant, PTL DEF Spec

-----------------------------------------------------------------------------
LEMMA MissesReader ==
  ASSUME BusTypes, ClientMissesNothing, Client
  PROVE  ClientMissesNothing'
<1>0. UNCHANGED <<stored, stream>> /\ client \in ClientType
  BY ReaderFacts DEF topicVars, BusTypes
<1> SUFFICES ASSUME client'.pc = "follow", NEW i \in DOMAIN stream, i <= client'.pos, i > client'.lost,
                    stream[i] \in Elements(stored[client'.handle])
             PROVE  stream[i] \in client'.seen
  <2>1. Len(stream) \in Nat /\ DOMAIN stream = 1 .. Len(stream)
    BY BusFacts
  <2>2. client' \in ClientType
    BY ClientTypes
  <2> QED
    BY <1>0, <2>1, <2>2 DEF ClientMissesNothing, ClientType
<1>1. DOMAIN stream = 1 .. Len(stream) /\ Len(stream) \in Nat /\ client.pos \in Nat /\ client.lost \in Nat
  BY <1>0, BusFacts DEF ClientType
<1>2. CASE ClientSubscribe \/ ClientOpen
  BY <1>0, <1>2 DEF ClientSubscribe, ClientOpen, ClientType
<1>3. CASE ClientRead
  BY <1>0, <1>3 DEF ClientRead, ClientType
<1>4. CASE ClientRecv
  <2>1. /\ client'.pos = client.pos + 1 /\ client'.seen = client.seen \cup {stream[client.pos + 1]}
        /\ client'.pc = client.pc /\ client'.lost = client.lost /\ client'.handle = client.handle
    BY <1>0, <1>4 DEF ClientRecv, ClientType
  <2>2. i <= client.pos \/ i = client.pos + 1
    BY <1>1, <2>1
  <2> QED
    BY <1>1, <2>1, <2>2 DEF ClientMissesNothing
<1>5. CASE ClientLagged
  <2>1. client'.pos = client'.lost
    BY <1>0, <1>5 DEF ClientLagged, ClientType
  <2>2. client'.lost \in Nat
    BY ClientTypes DEF ClientType
  <2> QED
    BY <1>1, <2>1, <2>2
<1> QED
  BY <1>2, <1>3, <1>4, <1>5 DEF Client

LEMMA MissesPublish ==
  ASSUME BusTypes, UniqueInv, ClientMissesNothing, NEW p \in Publisher, Publish(p)
  PROVE  ClientMissesNothing'
<1>0. /\ client' = client /\ client.pos \in Nat /\ client.pos <= Len(stream)
      /\ DOMAIN stream = 1 .. Len(stream) /\ Len(stream) \in Nat
      /\ client.pc = "follow" => client.handle \in Backend
  BY BusFacts DEF Publish, PublishBegin, PublishAppend, PublishFail, PublishSend, readerVars, BusTypes,
                  ClientType
<1>1. CASE PublishBegin(p) \/ PublishFail(p)
  BY <1>0, <1>1 DEF PublishBegin, PublishFail, ClientMissesNothing
<1>2. CASE PublishAppend(p)
  <2>1. stream' = stream /\ pub[p].msg \notin Elements(stream)
    BY <1>2, AppendFacts DEF UniqueInv
  <2>2. \A b \in Backend : Elements(stored'[b]) \subseteq Elements(stored[b]) \cup {pub[p].msg}
    BY <1>2, AppendFacts
  <2>3. \A i \in DOMAIN stream : stream[i] # pub[p].msg
    BY <2>1 DEF Elements
  <2> QED
    BY <1>0, <2>1, <2>2, <2>3 DEF ClientMissesNothing
<1>3. CASE PublishSend(p)
  <2>1. /\ DOMAIN stream' = 1 .. Len(stream) + 1 /\ stored' = stored
        /\ \A i \in 1 .. Len(stream) : stream'[i] = stream[i]
    BY <1>3, SendFacts
  <2>2. Len(stream) + 1 > client.pos /\ \A i \in 1 .. Len(stream) + 1 : i \in 1 .. Len(stream) \/ i > client.pos
    BY <1>0
  <2> QED
    BY <1>0, <2>1, <2>2 DEF ClientMissesNothing
<1> QED
  BY <1>1, <1>2, <1>3 DEF Publish

\* A client that subscribes and then reads the backlog has every message whose publish
\* returned, in hand or on its way, save what the stream dropped as it lagged or a reload
\* stored in another backend than it read (routes.rs).
THEOREM ClientSafety == Spec => []ClientMissesNothing
<1>1. Init => ClientMissesNothing
  BY DEF Init, ClientMissesNothing
<1>2. BusTypes /\ UniqueInv /\ ClientMissesNothing /\ [Next]_vars => ClientMissesNothing'
  <2> SUFFICES ASSUME BusTypes, UniqueInv, ClientMissesNothing, [Next]_vars PROVE ClientMissesNothing'
    OBVIOUS
  <2>1. CASE UNCHANGED <<stored, stream, client>>
    BY <2>1 DEF ClientMissesNothing
  <2>2. UNCHANGED vars => UNCHANGED <<stored, stream, client>>
    BY DEF vars, busVars, topicVars, readerVars
  <2>3. Edit \/ Watcher \/ Reload => UNCHANGED <<stored, stream, client>>
    BY ConfTypes DEF topicVars, readerVars
  <2>4. Recorder => UNCHANGED <<stored, stream, client>>
    BY ReaderFacts DEF Recorder, RecorderOpen, RecorderSkip, RecorderRead, RecorderSubscribe, RecorderRecv,
                       RecorderLagged, topicVars
  <2> QED
    BY <2>1, <2>2, <2>3, <2>4, MissesReader, MissesPublish DEF Next
<1> QED
  BY <1>1, <1>2, BusTypesInvariant, UniqueInvariant, PTL DEF Spec

-----------------------------------------------------------------------------
(* What the metrics task records. *)

Positions(s, m) == {i \in DOMAIN s : s[i] = m}

LEMMA PositionsFacts ==
  ASSUME NEW S, NEW s \in Seq(S), NEW m
  PROVE  /\ IsFiniteSet(Positions(s, m))
         /\ m \notin Elements(s) => Cardinality(Positions(s, m)) = 0
         /\ m \in Elements(s) /\ Once(s) => Cardinality(Positions(s, m)) = 1
<1>1. Len(s) \in Nat /\ DOMAIN s = 1 .. Len(s) /\ Positions(s, m) \subseteq 1 .. Len(s)
  BY DEF Positions
<1>2. IsFiniteSet(Positions(s, m))
  <2>1. IsFiniteSet(1 .. Len(s))
    BY <1>1, FS_Interval
  <2> QED
    BY <1>1, <2>1, FS_Subset
<1>3. m \notin Elements(s) => Positions(s, m) = {}
  BY DEF Positions, Elements
<1>4. m \in Elements(s) /\ Once(s) => \E i : Positions(s, m) = {i}
  BY DEF Positions, Elements, Once
<1> QED
  BY <1>2, <1>3, <1>4, FS_EmptySet, FS_Singleton

LEMMA PositionsAppend ==
  ASSUME NEW S, NEW s \in Seq(S), NEW e \in S, NEW m
  PROVE  /\ m # e => Cardinality(Positions(Append(s, e), m)) = Cardinality(Positions(s, m))
         /\ e \notin Elements(s) => Cardinality(Positions(Append(s, e), e)) = 1
<1>1. /\ Len(s) \in Nat /\ DOMAIN s = 1 .. Len(s) /\ DOMAIN Append(s, e) = 1 .. Len(s) + 1
      /\ Append(s, e)[Len(s) + 1] = e
      /\ \A i \in 1 .. Len(s) : Append(s, e)[i] = s[i]
  OBVIOUS
<1>2. Len(s) + 1 \notin 1 .. Len(s) /\ 1 .. Len(s) + 1 = (1 .. Len(s)) \cup {Len(s) + 1}
  BY <1>1
<1>3. m # e => Positions(Append(s, e), m) = Positions(s, m)
  BY <1>1, <1>2 DEF Positions
<1>4. e \notin Elements(s) => Positions(Append(s, e), e) = {Len(s) + 1}
  BY <1>1, <1>2 DEF Positions, Elements
<1> QED
  BY <1>3, <1>4, FS_Singleton

Stage == {"off", "backfill", "read", "subscribe", "run", "ended"}

\* The backfill copies the backlog before the task subscribes, and what began while the
\* task runs is recorded only as it is received.
RecordInv ==
  /\ recorder.pc \in {"off", "backfill", "read"} => recorded = <<>>
  /\ Elements(recorded) \subseteq 1 .. made
  /\ recorder.pc \in {"run", "ended"} => recorder.before <= recorder.pos
  /\ DOMAIN begun = 1 .. made /\ begun \in Seq(Stage)
  /\ recorder.pc \notin {"run", "ended"} => \A m \in 1 .. made : begun[m] # "run"
  /\ recorder.pc \in {"run", "ended"} =>
       \A m \in Elements(recorded) : begun[m] = "run" => \E i \in 1 .. recorder.pos : stream[i] = m

\* Sent before the backfill began.
Early(m) == \E i \in 1 .. recorder.before : stream[i] = m

\* In the backlog of b.
Behind(m, b) == \E i \in DOMAIN stored[b] : i + FirstOffset[b] >= 2 /\ stored[b][i] = m

OnceInv ==
  /\ recorder.pc \in {"subscribe", "run", "ended"} /\ recorder.handle # NoHandle =>
       \A m : Early(m) /\ Behind(m, recorder.handle) => Cardinality(Positions(recorded, m)) = 1
  /\ recorder.pc \in {"run", "ended"} =>
       \A i \in 1 .. recorder.pos : begun[stream[i]] = "run" => Cardinality(Positions(recorded, stream[i])) = 1

LEMMA BacklogElements ==
  ASSUME BusTypes, NEW b \in Backend
  PROVE  /\ \A m : m \in Elements(Backlog(b)) <=> Behind(m, b)
         /\ Once(stored[b]) => Once(Backlog(b))
         /\ Elements(Backlog(b)) \subseteq Elements(stored[b])
<1> DEFINE t == Backlog(b)
          s == stored[b]
<1>1. /\ Len(t) \in Nat /\ DOMAIN t = 1 .. Len(t) /\ FirstOffset[b] \in {0, 1}
      /\ \A i \in 1 .. Len(t) : i + 1 - FirstOffset[b] \in DOMAIN s /\ t[i] = s[i + 1 - FirstOffset[b]]
  BY BacklogType
<1>2. Len(s) \in Nat /\ DOMAIN s = 1 .. Len(s)
  BY BusFacts
<1>3. Len(t) = IF Len(s) + FirstOffset[b] >= 2 THEN Len(s) + FirstOffset[b] - 1 ELSE 0
  BY BacklogType
<1> HIDE DEF t, s
<1>4. ASSUME NEW m, m \in Elements(t) PROVE \E i \in DOMAIN s : i + FirstOffset[b] >= 2 /\ s[i] = m
  <2>1. PICK i \in 1 .. Len(t) : t[i] = m
    BY <1>1, <1>4 DEF Elements
  <2>2. (i + 1 - FirstOffset[b]) + FirstOffset[b] >= 2
    BY <1>1
  <2> QED
    BY <1>1, <2>1, <2>2
<1>5. ASSUME NEW m, NEW i \in DOMAIN s, i + FirstOffset[b] >= 2, s[i] = m PROVE m \in Elements(t)
  <2>1. i + FirstOffset[b] - 1 \in 1 .. Len(t)
    BY <1>1, <1>2, <1>3, <1>5
  <2>2. (i + FirstOffset[b] - 1) + 1 - FirstOffset[b] = i
    BY <1>1, <1>2
  <2>3. t[i + FirstOffset[b] - 1] = m
    BY <1>1, <1>5, <2>1, <2>2
  <2> QED
    BY <1>1, <2>1, <2>3 DEF Elements
<1>6. Once(s) => Once(t)
  <2> SUFFICES ASSUME Once(s), NEW i \in 1 .. Len(t), NEW j \in 1 .. Len(t), t[i] = t[j] PROVE i = j
    BY <1>1 DEF Once
  <2>1. i + 1 - FirstOffset[b] = j + 1 - FirstOffset[b]
    BY <1>1 DEF Once
  <2> QED
    BY <1>1, <2>1
<1>7. Elements(t) \subseteq Elements(s)
  BY <1>1 DEF Elements
<1> QED
  BY <1>4, <1>5, <1>6, <1>7 DEF Behind, t, s

-----------------------------------------------------------------------------
LEMMA StreamFacts ==
  ASSUME BusTypes, UniqueInv
  PROVE  /\ recorder \in RecorderType /\ recorder.pos \in Nat /\ recorder.before \in Nat
         /\ recorder.pos <= Len(stream) /\ recorder.before <= Len(stream)
         /\ Len(stream) \in Nat /\ DOMAIN stream = 1 .. Len(stream)
         /\ \A i \in 1 .. Len(stream) : stream[i] \in 1 .. made
         /\ \A i \in 1 .. Len(stream) : stream[i] \in Elements(stream)
         /\ \A i \in 1 .. recorder.pos : i \in 1 .. Len(stream)
         /\ \A i \in 1 .. recorder.before : i \in 1 .. Len(stream)
<1>1. /\ recorder \in RecorderType /\ recorder.pos \in Nat /\ recorder.before \in Nat
      /\ recorder.pos <= Len(stream) /\ recorder.before <= Len(stream)
      /\ Len(stream) \in Nat /\ DOMAIN stream = 1 .. Len(stream)
  BY BusFacts DEF BusTypes, RecorderType
<1>2. \A i \in 1 .. Len(stream) : stream[i] \in Elements(stream)
  BY <1>1 DEF Elements
<1>3. Elements(stream) \subseteq 1 .. made
  BY DEF UniqueInv
<1> QED
  BY <1>1, <1>2, <1>3

LEMMA BegunAppend ==
  ASSUME NEW S, NEW s \in Seq(S), NEW n \in Nat, DOMAIN s = 1 .. n, NEW e \in S
  PROVE  /\ DOMAIN Append(s, e) = 1 .. n + 1 /\ Append(s, e)[n + 1] = e
         /\ Append(s, e) \in Seq(S)
         /\ \A m \in 1 .. n : Append(s, e)[m] = s[m]
<1>1. Len(s) = n
  <2>1. Len(s) \in Nat /\ DOMAIN s = 1 .. Len(s)
    OBVIOUS
  <2>2. ASSUME NEW k \in Nat, 1 .. k = 1 .. n PROVE k = n
    BY <2>2
  <2> QED
    BY <2>1, <2>2
<1> QED
  BY <1>1, AppendProperties

LEMMA RecordPublish ==
  ASSUME BusTypes, UniqueInv, RecordInv, OnceInv, NEW p \in Publisher, Publish(p)
  PROVE  RecordInv' /\ OnceInv'
<1>0. recorder' = recorder /\ recorded' = recorded /\ made \in Nat
  BY BusFacts DEF Publish, PublishBegin, PublishAppend, PublishFail, PublishSend, readerVars
<1>1. CASE PublishBegin(p)
  <2>1. made' = made + 1 /\ begun' = Append(begun, recorder.pc) /\ UNCHANGED <<stream, stored>>
    BY <1>1 DEF PublishBegin
  <2>2. /\ DOMAIN begun' = 1 .. made' /\ begun'[made + 1] = recorder.pc
        /\ \A m \in 1 .. made : begun'[m] = begun[m]
        /\ begun' \in Seq(Stage)
    <3>1. recorder.pc \in Stage
      BY StreamFacts DEF RecorderType, Stage
    <3> QED
      BY <1>0, <2>1, <3>1, BegunAppend DEF RecordInv
  <2>3. 1 .. made' = (1 .. made) \cup {made + 1}
    BY <1>0, <2>1
  <2>4. RecordInv'
    BY <1>0, <2>1, <2>2, <2>3 DEF RecordInv
  <2>5. \A i \in 1 .. recorder.pos : begun'[stream[i]] = begun[stream[i]]
    BY <2>2, StreamFacts
  <2>6. OnceInv'
    BY <1>0, <2>1, <2>5 DEF OnceInv, Early, Behind
  <2> QED
    BY <2>4, <2>6
<1>2. CASE PublishFail(p)
  <2>1. UNCHANGED <<stored, stream, made, begun>>
    BY <1>2 DEF PublishFail
  <2> QED
    BY <1>0, <2>1 DEF RecordInv, OnceInv, Early, Behind
<1>3. CASE PublishAppend(p)
  <2>1. UNCHANGED <<stream, made, begun>> /\ pub[p].msg \notin Elements(stream)
    BY <1>3, AppendFacts DEF UniqueInv
  <2>2. RecordInv'
    BY <1>0, <2>1 DEF RecordInv
  <2>3. ASSUME NEW m, NEW b \in Backend, Early(m), Behind(m, b)'
        PROVE  Behind(m, b)
    <3>1. PICK i \in DOMAIN stored'[b] : i + FirstOffset[b] >= 2 /\ stored'[b][i] = m
      BY <2>3 DEF Behind
    <3>2. m \in Elements(stream)
      BY <2>3, StreamFacts DEF Early
    <3>3. CASE b # pub[p].handle
      BY <1>3, <3>1, <3>3, AppendFacts DEF Behind
    <3>4. CASE b = pub[p].handle
      <4>1. PICK e \in 1 .. MaxMessages : e = pub[p].msg
        BY <1>3, AppendFacts, BusFacts
      <4>2. stored'[b] = Append(stored[b], e) /\ stored[b] \in Seq(1 .. MaxMessages)
        BY <1>3, <3>4, <4>1, AppendFacts, BusFacts
      <4>3. i \in 1 .. Len(stored[b]) + 1 /\ m # e
        BY <2>1, <3>1, <3>2, <4>1, <4>2
      <4>4. i \in DOMAIN stored[b] /\ stored[b][i] = m
        BY <3>1, <4>2, <4>3
      <4> QED
        BY <3>1, <4>4 DEF Behind
    <3> QED
      BY <3>3, <3>4
  <2>4. recorder.handle # NoHandle => recorder.handle \in Backend
    BY StreamFacts DEF RecorderType
  <2>5. \A m : Early(m)' <=> Early(m)
    BY <1>0, <2>1 DEF Early
  <2>6. ASSUME recorder.pc \in {"subscribe", "run", "ended"}, recorder.handle # NoHandle,
               NEW m, Early(m), Behind(m, recorder.handle)'
        PROVE  Cardinality(Positions(recorded, m)) = 1
    <3>1. PICK b \in Backend : b = recorder.handle
      BY <2>4, <2>6
    <3>2. Behind(m, b)'
      BY <1>0, <2>6, <3>1 DEF Behind
    <3> QED
      BY <2>3, <2>6, <3>1, <3>2 DEF OnceInv
  <2>7. OnceInv'
    BY <1>0, <2>1, <2>5, <2>6 DEF OnceInv
  <2> QED
    BY <2>2, <2>7
<1>4. CASE PublishSend(p)
  <2>1. /\ \A i \in 1 .. Len(stream) : stream'[i] = stream[i]
        /\ UNCHANGED <<stored, made, begun>>
    BY <1>4, SendFacts
  <2>2. /\ \A i \in 1 .. recorder.pos : stream'[i] = stream[i]
        /\ \A i \in 1 .. recorder.before : stream'[i] = stream[i]
    BY <2>1, StreamFacts
  <2>3. RecordInv'
    BY <1>0, <2>1, <2>2 DEF RecordInv
  <2>4. OnceInv'
    BY <1>0, <2>1, <2>2 DEF OnceInv, Early, Behind
  <2> QED
    BY <2>3, <2>4
<1> QED
  BY <1>1, <1>2, <1>3, <1>4 DEF Publish

LEMMA RecordReader ==
  ASSUME BusTypes, UniqueInv, RecordInv, OnceInv, Recorder
  PROVE  RecordInv' /\ OnceInv'
<1>0. UNCHANGED <<stored, stream, made, begun>> /\ made \in Nat
  BY ReaderFacts, BusFacts DEF topicVars
<1>a. recorder \in RecorderType /\ recorded \in Seq(1 .. MaxMessages)
  BY StreamFacts, BusFacts
<1>1. CASE RecorderOpen \/ RecorderSkip
  <2>1. /\ recorded' = recorded /\ recorder.pc \in {"backfill", "read"}
        /\ recorder'.pc \in {"read", "subscribe"}
        /\ recorder'.pc = "subscribe" => recorder'.handle = NoHandle
    BY <1>1, <1>a DEF RecorderOpen, RecorderSkip, RecorderType
  <2> QED
    BY <1>0, <2>1 DEF RecordInv, OnceInv
<1>2. CASE RecorderRead
  <2>1. PICK b \in Backend : b = recorder.handle
    BY <1>2 DEF RecorderRead, BusTypes
  <2>2. /\ recorder.pc = "read" /\ recorder'.pc = "subscribe"
        /\ recorder'.handle = b /\ recorder'.before = recorder.before
    BY <1>2, <1>a, <2>1 DEF RecorderRead, RecorderType
  <2>3. recorded' = Backlog(b)
    <3>1. recorded' = <<>> \o Backlog(b)
      BY <1>2, <2>1, <2>2 DEF RecorderRead, RecordInv
    <3>2. Backlog(b) \in Seq(1 .. MaxMessages)
      BY BacklogType
    <3> QED
      BY <3>1, <3>2
  <2>4. PICK t \in Seq(1 .. MaxMessages) : t = Backlog(b)
    BY BacklogType
  <2>5. Once(t) /\ Elements(t) \subseteq 1 .. made /\ \A m : m \in Elements(t) <=> Behind(m, b)
    BY <2>4, BacklogElements DEF UniqueInv
  <2>6. recorded' = t
    BY <2>3, <2>4
  <2>7. RecordInv'
    BY <1>0, <2>2, <2>5, <2>6 DEF RecordInv
  <2>8. \A m : Behind(m, b) => Cardinality(Positions(t, m)) = 1
    BY <2>5, PositionsFacts
  <2>9. \A m : Behind(m, b)' <=> Behind(m, b)
    BY <1>0 DEF Behind
  <2>11. OnceInv'
    BY <1>0, <2>2, <2>6, <2>8 DEF OnceInv, Behind
  <2> QED
    BY <2>7, <2>11
<1>3. CASE RecorderSubscribe
  <2>1. /\ recorded' = recorded /\ recorder.pc = "subscribe" /\ recorder'.pc = "run"
        /\ recorder'.handle = recorder.handle /\ recorder'.before = recorder.before
        /\ recorder'.pos = Len(stream)
    BY <1>3, <1>a DEF RecorderSubscribe, RecorderType
  <2>2. RecordInv'
    <3>1. recorder.before <= Len(stream) /\ \A m \in Elements(recorded) : begun[m] # "run"
      BY <2>1, StreamFacts DEF RecordInv
    <3> QED
      BY <1>0, <2>1, <3>1 DEF RecordInv
  <2>3. \A i \in 1 .. Len(stream) : begun[stream[i]] # "run"
    BY <2>1, StreamFacts DEF RecordInv
  <2>4. OnceInv'
    BY <1>0, <2>1, <2>3 DEF OnceInv, Early, Behind
  <2> QED
    BY <2>2, <2>4
<1>4. CASE RecorderRecv
  <2>1. /\ recorder.pc = "run" /\ recorder'.pc = "run"
        /\ recorder'.handle = recorder.handle /\ recorder'.before = recorder.before
        /\ recorder'.pos = recorder.pos + 1 /\ recorder.pos < Len(stream)
        /\ recorded' = Append(recorded, stream[recorder.pos + 1])
    BY <1>4, <1>a DEF RecorderRecv, RecorderType, Unread
  <2>2. recorder.pos \in Nat /\ recorder.pos + 1 \in 1 .. Len(stream) /\ recorder.before \in Nat
    BY <2>1, StreamFacts
  <2>3. PICK e \in 1 .. made : e = stream[recorder.pos + 1]
    BY <2>2, StreamFacts
  <2>4. e \in 1 .. MaxMessages
    BY <2>2, <2>3, BusFacts, SeqElements
  <2>5. /\ Elements(recorded') = Elements(recorded) \cup {e}
        /\ \A m : m # e => Cardinality(Positions(recorded', m)) = Cardinality(Positions(recorded, m))
        /\ e \notin Elements(recorded) => Cardinality(Positions(recorded', e)) = 1
    <3> DEFINE S == 1 .. MaxMessages
    <3>1. recorded \in Seq(S) /\ e \in S /\ recorded' = Append(recorded, e)
      BY <1>a, <2>1, <2>3, <2>4
    <3> HIDE DEF S
    <3> QED
      BY <3>1, ElementsFacts, PositionsAppend
  <2>6. \A i \in 1 .. recorder.pos + 1 : i \in 1 .. recorder.pos \/ i = recorder.pos + 1
    BY <2>2
  <2>7. \A i \in 1 .. recorder.pos : i \in 1 .. recorder.pos + 1 /\ i \in 1 .. Len(stream) /\ i # recorder.pos + 1
    BY <2>2
  <2>8. \A i \in 1 .. recorder.pos : stream[i] # e
    BY <2>2, <2>3, <2>7, StreamFacts DEF UniqueInv, Once
  <2>9. RecordInv'
    <3>1. Elements(recorded') \subseteq 1 .. made
      BY <2>5 DEF RecordInv
    <3>2. recorder.before <= recorder.pos + 1
      BY <2>1, <2>2 DEF RecordInv
    <3>3. \A m \in Elements(recorded') : begun[m] = "run" => \E i \in 1 .. recorder.pos + 1 : stream[i] = m
      BY <2>1, <2>2, <2>3, <2>5, <2>7 DEF RecordInv
    <3> QED
      BY <1>0, <2>1, <3>1, <3>2, <3>3 DEF RecordInv
  <2>10. \A m : Early(m) => m # e
    <3>1. \A i \in 1 .. recorder.before : i \in 1 .. recorder.pos
      BY <2>1, <2>2 DEF RecordInv
    <3> QED
      BY <2>8, <3>1 DEF Early
  <2>11. begun[e] = "run" => e \notin Elements(recorded)
    BY <2>1, <2>8 DEF RecordInv
  <2>12. \A i \in 1 .. recorder.pos + 1 : begun[stream[i]] = "run" =>
           Cardinality(Positions(recorded', stream[i])) = 1
    BY <2>1, <2>3, <2>5, <2>6, <2>8, <2>11 DEF OnceInv
  <2>13. recorder.handle # NoHandle =>
           \A m : Early(m) /\ Behind(m, recorder.handle) => Cardinality(Positions(recorded', m)) = 1
    BY <2>1, <2>5, <2>10 DEF OnceInv
  <2>14. OnceInv'
    BY <1>0, <2>1, <2>12, <2>13 DEF OnceInv, Early, Behind
  <2> QED
    BY <2>9, <2>14
<1>5. CASE RecorderLagged
  <2>1. /\ recorded' = recorded /\ recorder.pc = "run" /\ recorder'.pc = "ended"
        /\ recorder'.handle = recorder.handle /\ recorder'.before = recorder.before
        /\ recorder'.pos = recorder.pos
    BY <1>5, <1>a DEF RecorderLagged, RecorderType
  <2> QED
    BY <1>0, <2>1 DEF RecordInv, OnceInv, Early, Behind
<1> QED
  BY <1>1, <1>2, <1>3, <1>4, <1>5 DEF Recorder

\* What was published wholly before the backfill, to the backend it read, and what was
\* published wholly after the subscription is recorded once, although nothing joins the
\* two halves of the metrics task (lib.rs, serve).
THEOREM RecordSafety == Spec => []RecordedOnce
<1>1. Init => RecordInv /\ OnceInv
  <2> SUFFICES ASSUME Init PROVE RecordInv /\ OnceInv
    OBVIOUS
  <2>1. /\ recorder.pc \in {"off", "backfill"} /\ recorded = <<>> /\ made = 0 /\ begun = <<>>
    BY DEF Init
  <2>2. Elements(<<>>) = {} /\ DOMAIN <<>> = 1 .. 0
    BY DEF Elements
  <2> QED
    BY <2>1, <2>2 DEF RecordInv, OnceInv
<1>2. BusTypes /\ UniqueInv /\ RecordInv /\ OnceInv /\ [Next]_vars => RecordInv' /\ OnceInv'
  <2> SUFFICES ASSUME BusTypes, UniqueInv, RecordInv, OnceInv, [Next]_vars PROVE RecordInv' /\ OnceInv'
    OBVIOUS
  <2>1. CASE UNCHANGED <<stored, stream, made, begun, recorder, recorded>>
    BY <2>1 DEF RecordInv, OnceInv, Early, Behind
  <2>2. UNCHANGED vars => UNCHANGED <<stored, stream, made, begun, recorder, recorded>>
    BY DEF vars, busVars, topicVars, readerVars
  <2>3. Edit \/ Watcher \/ Reload => UNCHANGED <<stored, stream, made, begun, recorder, recorded>>
    BY ConfTypes DEF topicVars, readerVars
  <2>4. Client => UNCHANGED <<stored, stream, made, begun, recorder, recorded>>
    BY ReaderFacts DEF Client, ClientSubscribe, ClientOpen, ClientRead, ClientRecv, ClientLagged, topicVars
  <2> QED
    BY <2>1, <2>2, <2>3, <2>4, RecordReader, RecordPublish DEF Next
<1>3. BusTypes /\ UniqueInv /\ OnceInv => RecordedOnce
  <2> SUFFICES ASSUME BusTypes, UniqueInv, OnceInv PROVE RecordedOnce
    OBVIOUS
  <2>1. \A m : Times(m) = Cardinality(Positions(recorded, m))
    BY DEF Times, Positions
  <2>2. \A m \in Elements(SubSeq(stream, 1, recorder.before)) : Early(m)
    <3>1. /\ Len(SubSeq(stream, 1, recorder.before)) = recorder.before
          /\ \A i \in 1 .. recorder.before : SubSeq(stream, 1, recorder.before)[i] = stream[i]
          /\ DOMAIN SubSeq(stream, 1, recorder.before) = 1 .. recorder.before
      <4> DEFINE n == recorder.before
      <4>1. stream \in Seq(1 .. MaxMessages) /\ n \in Nat /\ n <= Len(stream) /\ Len(stream) \in Nat
        BY StreamFacts, BusFacts
      <4> HIDE DEF n
      <4>2. \A i \in 1 .. n : stream[i] \in 1 .. MaxMessages
        <5>1. \A i \in 1 .. n : i \in 1 .. Len(stream)
          BY <4>1
        <5> QED
          BY <4>1, <5>1, SeqElements
      <4>3. /\ SubSeq(stream, 1, n) \in Seq(1 .. MaxMessages)
            /\ Len(SubSeq(stream, 1, n)) = IF 1 <= n THEN n - 1 + 1 ELSE 0
            /\ \A i \in 1 .. n - 1 + 1 : SubSeq(stream, 1, n)[i] = stream[1 + i - 1]
        BY <4>1, <4>2, SubSeqProperties
      <4>4. Len(SubSeq(stream, 1, n)) = n /\ \A i \in 1 .. n : SubSeq(stream, 1, n)[i] = stream[i]
        BY <4>1, <4>3
      <4>5. DOMAIN SubSeq(stream, 1, n) = 1 .. n
        BY <4>3, <4>4, SeqElements
      <4> QED
        BY <4>4, <4>5 DEF n
    <3> QED
      BY <3>1 DEF Early, Elements
  <2>3. recorder.handle # NoHandle => recorder.handle \in Backend
    BY StreamFacts DEF RecorderType
  <2>4. recorder.handle # NoHandle =>
          \A m \in Elements(Backlog(recorder.handle)) : Behind(m, recorder.handle)
    BY <2>3, BacklogElements
  <2> QED
    BY <2>1, <2>2, <2>4 DEF OnceInv, RecordedOnce
<1> QED
  BY <1>1, <1>2, <1>3, BusTypesInvariant, UniqueInvariant, PTL DEF Spec

-----------------------------------------------------------------------------
(* The service lifecycle: inductive invariants. *)

Child == [peer : Peer, port : Port, st : {"starting", "bound", "exited", "reaped"}]

RequestType ==
  [pc : {"idle", "port", "save", "probe", "spawn", "insert", "kill"} \cup Writing,
   peer : Peer, port : Port \cup {NoPort}, pid : Nat, kind : {"none", "failed", "stopped"}]

WatchType ==
  [pc : {"off", "poll", "remove", "probe", "timeout"} \cup Writing, polls : Nat,
   kind : {"none", "started", "failed"}]

\* A child that runs, or none does under this number.
Runs(children, k) == k \in DOMAIN children /\ children[k].st \in {"starting", "bound"}

\* What a request holds: a port before it spawns, a child of this session and of its
\* own peer while it starts or stops one, a dead one when it reports it stopped.
Fits(q, children, session) ==
  /\ q.pid \in {0} \cup DOMAIN children
  /\ q.pc \in {"save", "probe", "spawn"} => q.port \in Port
  /\ q.pc \in {"insert", "kill"} => q.pid \in session /\ children[q.pid].peer = q.peer
  /\ q.pc \in Writing <=> q.kind # "none"
  /\ q.kind = "stopped" => ~Runs(children, q.pid)

\* A watcher watches a child of this session and is about to remove the handle of a
\* child that died only.
Watches(w, k, children, session) ==
  /\ w.pc # "off" => k \in session
  /\ w.pc = "remove" => ~Runs(children, k)
  /\ w.pc \in Writing => w.kind # "none"

\* A handle is one of a child of this session and of the peer.
Tracks(h, p, children, session) == h # 0 => h \in session /\ children[h].peer = p

RegistryInv ==
  /\ ServicesTypeOK
  /\ req \in [Request -> RequestType]
  /\ watch \in [Pid -> WatchType]
  /\ \A r \in Request : Fits(req[r], proc, born)
  /\ \A k \in Pid : Watches(watch[k], k, proc, born)
  /\ \A p \in Peer : Tracks(handles[p], p, proc, born)

\* Children keep their peer, and one that ended does not run again.
Lives(children, later) ==
  \A k \in DOMAIN children :
    /\ k \in DOMAIN later
    /\ later[k].peer = children[k].peer
    /\ Runs(later, k) => Runs(children, k)

LEMMA LivesOn ==
  ASSUME NEW children, NEW later, Lives(children, later),
         NEW session, session \subseteq DOMAIN children, NEW wider, session \subseteq wider
  PROVE  /\ \A q : Fits(q, children, session) => q.pid = 0 \/ q.pid \in DOMAIN later
         /\ \A q : Fits(q, children, session) /\ 0 \notin DOMAIN later => Fits(q, later, wider)
         /\ \A w, k : Watches(w, k, children, session) => Watches(w, k, later, wider)
         /\ \A h, p : Tracks(h, p, children, session) => Tracks(h, p, later, wider)
<1>1. \A q : Fits(q, children, session) => q.pid = 0 \/ q.pid \in DOMAIN later
  BY DEF Lives, Fits
<1>2. ASSUME NEW q, Fits(q, children, session), 0 \notin DOMAIN later
      PROVE  Fits(q, later, wider)
  <2>1. q.pc \in {"insert", "kill"} => q.pid \in wider /\ later[q.pid].peer = q.peer
    BY <1>2 DEF Lives, Fits
  <2>2. q.kind = "stopped" => ~Runs(later, q.pid)
    BY <1>2 DEF Lives, Fits, Runs
  <2> QED
    BY <1>1, <1>2, <2>1, <2>2 DEF Fits
<1>3. ASSUME NEW w, NEW k, Watches(w, k, children, session)
      PROVE  Watches(w, k, later, wider)
  BY <1>3 DEF Lives, Watches
<1>4. \A h, p : Tracks(h, p, children, session) => Tracks(h, p, later, wider)
  BY DEF Lives, Tracks
<1> QED
  BY <1>1, <1>2, <1>3, <1>4

LEMMA Pids ==
  ASSUME RegistryInv
  PROVE  /\ proc \in Seq(Child) /\ Len(proc) \in Nat /\ Len(proc) <= MaxSpawns /\ MaxSpawns \in Nat
         /\ DOMAIN proc = 1 .. Len(proc) /\ DOMAIN proc \subseteq Pid /\ 0 \notin DOMAIN proc
         /\ born \subseteq DOMAIN proc
         /\ \A k \in DOMAIN proc : proc[k] \in Child
<1>1. proc \in Seq(Child) /\ Len(proc) <= MaxSpawns /\ born \subseteq DOMAIN proc /\ MaxSpawns \in Nat
  BY ServicesAssumption DEF RegistryInv, ServicesTypeOK, Spawned, Child
<1>2. Len(proc) \in Nat /\ DOMAIN proc = 1 .. Len(proc)
  BY <1>1
<1>3. DOMAIN proc \subseteq Pid /\ 0 \notin DOMAIN proc
  BY <1>1, <1>2 DEF Pid
<1>4. \A k \in DOMAIN proc : proc[k] \in Child
  BY <1>1
<1> QED
  BY <1>1, <1>2, <1>3, <1>4

\* A step within the session: whatever it changes has to be right, the rest stays so.
LEMMA RegistryStep ==
  ASSUME RegistryInv,
         proc' \in Seq(Child), Len(proc') <= MaxSpawns, Lives(proc, proc'),
         born \subseteq born', born' \subseteq DOMAIN proc',
         handles' \in [Peer -> {0} \cup DOMAIN proc'], ports' \in [Peer -> Port \cup {NoPort}],
         req' \in [Request -> RequestType], watch' \in [Pid -> WatchType],
         ledger' \in [exists : BOOLEAN, copies : Nat],
         log' \subseteq {"started", "failed", "stopped"} \X ({0} \cup DOMAIN proc'),
         \A r \in Request : req'[r] = req[r] \/ Fits(req'[r], proc', born'),
         \A k \in Pid : watch'[k] = watch[k] \/ Watches(watch'[k], k, proc', born'),
         \A p \in Peer : handles'[p] = handles[p] \/ Tracks(handles'[p], p, proc', born')
  PROVE  RegistryInv'
<1>1. ServicesTypeOK'
  BY DEF ServicesTypeOK, Spawned, Child
<1>2. 0 \notin DOMAIN proc'
  OBVIOUS
<1>3. /\ \A q : Fits(q, proc, born) => Fits(q, proc', born')
      /\ \A w, k : Watches(w, k, proc, born) => Watches(w, k, proc', born')
      /\ \A h, p : Tracks(h, p, proc, born) => Tracks(h, p, proc', born')
  BY <1>2, Pids, LivesOn
<1>4. \A r \in Request : Fits(req'[r], proc', born')
  BY <1>3 DEF RegistryInv
<1>5. \A k \in Pid : Watches(watch'[k], k, proc', born')
  BY <1>3 DEF RegistryInv
<1>6. \A p \in Peer : Tracks(handles'[p], p, proc', born')
  BY <1>3 DEF RegistryInv
<1> QED
  BY <1>1, <1>4, <1>5, <1>6 DEF RegistryInv

LEMMA NoRequestFits ==
  /\ NoRequest \in RequestType
  /\ \A children, session : Fits(NoRequest, children, session)
<1>1. (CHOOSE p \in Peer : TRUE) \in Peer
  BY ServicesAssumption
<1> QED
  BY <1>1 DEF NoRequest, RequestType, Fits, Writing

LEMMA ServicesInitRegistry == ServicesInit => RegistryInv
<1> SUFFICES ASSUME ServicesInit PROVE RegistryInv
  OBVIOUS
<1>1. /\ proc = <<>> /\ born = {} /\ log = {} /\ DOMAIN <<>> = {} /\ Len(<<>>) = 0
      /\ proc \in Seq(Child)
  BY DEF ServicesInit
<1>2. ServicesTypeOK
  BY <1>1, ServicesAssumption DEF ServicesInit, ServicesTypeOK, Spawned, Child
<1>3. NoWatch \in WatchType /\ \A k : Watches(NoWatch, k, proc, born)
  BY DEF NoWatch, WatchType, Watches, Writing
<1>4. \A p \in Peer : Tracks(handles[p], p, proc, born)
  BY DEF ServicesInit, Tracks
<1> QED
  BY <1>2, <1>3, <1>4, NoRequestFits DEF RegistryInv, ServicesInit

-----------------------------------------------------------------------------
\* A request goes on to q and nothing else changes but its peer's port.
LEMMA RequestStep ==
  ASSUME RegistryInv, NEW r \in Request, NEW q, q \in RequestType, Fits(q, proc, born),
         req' = [req EXCEPT ![r] = q], ports' \in [Peer -> Port \cup {NoPort}],
         UNCHANGED <<handles, proc, watch, ledger, log, born>>
  PROVE  RegistryInv'
<1>1. Lives(proc, proc)
  BY DEF Lives
<1>2. req' \in [Request -> RequestType] /\ \A n \in Request : req'[n] = req[n] \/ Fits(req'[n], proc, born)
  BY DEF RegistryInv
<1> QED
  BY <1>1, <1>2, Pids, RegistryStep DEF RegistryInv, ServicesTypeOK, Spawned

LEMMA StartQuietly ==
  ASSUME RegistryInv, NEW r \in Request,
         StartCheck(r) \/ StartPort(r) \/ StartSave(r) \/ StartProbe(r) \/ StartFail(r)
  PROVE  RegistryInv'
<1>1. req[r] \in RequestType /\ Fits(req[r], proc, born) /\ ports \in [Peer -> Port \cup {NoPort}]
  BY DEF RegistryInv, ServicesTypeOK
<1>2. CASE StartCheck(r)
  <2>1. PICK p \in Peer : req' = [req EXCEPT ![r] = [NoRequest EXCEPT !.pc = "port", !.peer = p]]
    BY <1>2 DEF StartCheck
  <2> DEFINE q == [NoRequest EXCEPT !.pc = "port", !.peer = p]
  <2>2. q \in RequestType /\ Fits(q, proc, born)
    BY NoRequestFits DEF NoRequest, RequestType, Fits, Writing
  <2>3. ports' = ports /\ UNCHANGED <<handles, proc, watch, ledger, log, born>>
    BY <1>2 DEF StartCheck
  <2> HIDE DEF q
  <2> QED
    BY <1>1, <2>1, <2>2, <2>3, RequestStep DEF q
<1>3. ASSUME NEW x \in {"probe", "save"}, NEW f \in Port, req' = [req EXCEPT ![r].pc = x, ![r].port = f],
             req[r].pc = "port", ports' = ports, UNCHANGED <<handles, proc, watch, ledger, log, born>>
      PROVE  RegistryInv'
  <2> DEFINE q == [req[r] EXCEPT !.pc = x, !.port = f]
  <2>1. q \in RequestType /\ Fits(q, proc, born)
    BY <1>1, <1>3 DEF RequestType, Fits, Writing
  <2>2. req' = [req EXCEPT ![r] = q]
    BY <1>1, <1>3 DEF RegistryInv, RequestType
  <2> HIDE DEF q
  <2> QED
    BY <1>1, <1>3, <2>1, <2>2, RequestStep
<1>4. CASE StartPort(r)
  <2>1. ports' = ports /\ UNCHANGED <<handles, proc, watch, ledger, log, born>> /\ req[r].pc = "port"
    BY <1>4 DEF StartPort, At
  <2>2. ports[req[r].peer] \in Port \cup {NoPort}
    BY <1>1 DEF RequestType
  <2> QED
    BY <1>3, <1>4, <2>1, <2>2 DEF StartPort
<1>5. ASSUME NEW x, NEW q, q = [req[r] EXCEPT !.pc = x], q \in RequestType, Fits(q, proc, born),
             req' = [req EXCEPT ![r].pc = x], ports' \in [Peer -> Port \cup {NoPort}],
             UNCHANGED <<handles, proc, watch, ledger, log, born>>
      PROVE  RegistryInv'
  <2>1. req' = [req EXCEPT ![r] = q]
    BY <1>5 DEF RegistryInv
  <2> QED
    BY <1>5, <2>1, RequestStep
<1>6. CASE StartSave(r)
  <2>1. /\ req[r].pc = "save" /\ req' = [req EXCEPT ![r].pc = "probe"]
        /\ ports' = [ports EXCEPT ![req[r].peer] = req[r].port]
        /\ UNCHANGED <<handles, proc, watch, ledger, log, born>>
    BY <1>6 DEF StartSave, At, Goto
  <2>2. ports' \in [Peer -> Port \cup {NoPort}]
    BY <1>1, <2>1 DEF RequestType
  <2> DEFINE q == [req[r] EXCEPT !.pc = "probe"]
  <2>3. q \in RequestType /\ Fits(q, proc, born)
    BY <1>1, <2>1 DEF RequestType, Fits, Writing
  <2> HIDE DEF q
  <2> QED
    BY <1>5, <2>1, <2>2, <2>3 DEF q
<1>7. CASE StartProbe(r)
  <2>1. /\ req[r].pc = "probe" /\ ports' = ports
        /\ UNCHANGED <<handles, proc, watch, ledger, log, born>>
        /\ \/ req' = [req EXCEPT ![r].pc = "log", ![r].kind = "failed"]
           \/ req' = [req EXCEPT ![r].pc = "spawn"]
    BY <1>7 DEF StartProbe, At
  <2>2. CASE req' = [req EXCEPT ![r].pc = "log", ![r].kind = "failed"]
    <3> DEFINE q == [req[r] EXCEPT !.pc = "log", !.kind = "failed"]
    <3>1. q \in RequestType /\ Fits(q, proc, born)
      BY <1>1, <2>1 DEF RequestType, Fits, Writing
    <3>2. req' = [req EXCEPT ![r] = q]
      BY <2>2 DEF RegistryInv
    <3> HIDE DEF q
    <3> QED
      BY <1>1, <2>1, <3>1, <3>2, RequestStep
  <2>3. CASE req' = [req EXCEPT ![r].pc = "spawn"]
    <3> DEFINE q == [req[r] EXCEPT !.pc = "spawn"]
    <3>1. q \in RequestType /\ Fits(q, proc, born)
      BY <1>1, <2>1 DEF RequestType, Fits, Writing
    <3> HIDE DEF q
    <3> QED
      BY <1>1, <1>5, <2>1, <2>3, <3>1 DEF q
  <2> QED
    BY <2>1, <2>2, <2>3
<1>8. CASE StartFail(r)
  BY <1>1, <1>8, NoRequestFits, RequestStep DEF StartFail, Done
<1> QED
  BY <1>2, <1>4, <1>6, <1>7, <1>8

\* The child joins the session, in the hands of its request.
LEMMA SpawnFacts ==
  ASSUME RegistryInv, NEW r \in Request, StartSpawn(r)
  PROVE  /\ \E k \in Pid : 
              /\ k \notin DOMAIN proc /\ DOMAIN proc' = DOMAIN proc \cup {k}
              /\ proc'[k].peer = req[r].peer
              /\ req' = [req EXCEPT ![r] = [req[r] EXCEPT !.pc = "insert", !.pid = k]]
              /\ born' = born \cup {k}
         /\ proc' \in Seq(Child) /\ Len(proc') <= MaxSpawns
         /\ \A k \in DOMAIN proc : proc'[k] = proc[k]
         /\ UNCHANGED <<handles, ports, watch, ledger, log>>
<1> DEFINE k == Len(proc) + 1
           c == [peer |-> req[r].peer, port |-> req[r].port, st |-> "starting"]
<1>1. /\ Len(proc) < MaxSpawns /\ req[r].pc = "spawn"
      /\ proc' = Append(proc, c)
      /\ req' = [req EXCEPT ![r].pc = "insert", ![r].pid = k]
      /\ born' = born \cup {k}
      /\ UNCHANGED <<handles, ports, watch, ledger, log>>
  BY DEF StartSpawn, At
<1>2. c \in Child /\ c.peer = req[r].peer
  BY <1>1 DEF RegistryInv, Fits, RequestType, Child
<1> HIDE DEF c
<1>3. /\ proc' \in Seq(Child) /\ Len(proc') = Len(proc) + 1 /\ DOMAIN proc' = 1 .. Len(proc) + 1
      /\ proc'[Len(proc) + 1] = c /\ \A j \in 1 .. Len(proc) : proc'[j] = proc[j]
  BY <1>1, <1>2, Pids
<1>4. /\ k \in Pid /\ k \notin DOMAIN proc /\ DOMAIN proc' = DOMAIN proc \cup {k}
      /\ Len(proc') <= MaxSpawns
  BY <1>1, <1>3, Pids DEF Pid
<1>5. req' = [req EXCEPT ![r] = [req[r] EXCEPT !.pc = "insert", !.pid = k]]
  BY <1>1 DEF RegistryInv
<1> QED
  BY <1>1, <1>2, <1>3, <1>4, <1>5, Pids

LEMMA SpawnRegistry ==
  ASSUME RegistryInv, NEW r \in Request, StartSpawn(r)
  PROVE  RegistryInv'
<1>1. PICK k \in Pid : 
        /\ k \notin DOMAIN proc /\ DOMAIN proc' = DOMAIN proc \cup {k}
        /\ proc'[k].peer = req[r].peer
        /\ req' = [req EXCEPT ![r] = [req[r] EXCEPT !.pc = "insert", !.pid = k]]
        /\ born' = born \cup {k}
  BY SpawnFacts
<1>2. Lives(proc, proc')
  BY <1>1, SpawnFacts DEF Lives, Runs
<1> DEFINE q == [req[r] EXCEPT !.pc = "insert", !.pid = k]
<1>3. req[r] \in RequestType /\ Fits(req[r], proc, born) /\ req[r].pc = "spawn"
  BY DEF RegistryInv, StartSpawn, At
<1>a. k \in Nat
  BY Pids DEF Pid
<1>4. q \in RequestType
  BY <1>3, <1>a DEF RequestType
<1>5. Fits(q, proc', born')
  BY <1>1, <1>3 DEF Fits, RequestType, Writing
<1> HIDE DEF q
<1>6. req' \in [Request -> RequestType] /\ \A n \in Request : req'[n] = req[n] \/ Fits(req'[n], proc', born')
  BY <1>1, <1>4, <1>5 DEF RegistryInv, q
<1>7. born \subseteq born' /\ born' \subseteq DOMAIN proc'
  BY <1>1, Pids
<1>8. /\ handles' \in [Peer -> {0} \cup DOMAIN proc']
      /\ log' \subseteq {"started", "failed", "stopped"} \X ({0} \cup DOMAIN proc')
      /\ ports' \in [Peer -> Port \cup {NoPort}] /\ ledger' \in [exists : BOOLEAN, copies : Nat]
      /\ watch' \in [Pid -> WatchType]
  <2>1. /\ handles' \in [Peer -> {0} \cup DOMAIN proc]
        /\ log' \subseteq {"started", "failed", "stopped"} \X ({0} \cup DOMAIN proc)
        /\ ports' \in [Peer -> Port \cup {NoPort}] /\ ledger' \in [exists : BOOLEAN, copies : Nat]
        /\ watch' \in [Pid -> WatchType]
    BY SpawnFacts DEF RegistryInv, ServicesTypeOK, Spawned
  <2>2. DOMAIN proc \subseteq DOMAIN proc'
    BY <1>1
  <2> QED
    BY <2>1, <2>2
<1> QED
  BY <1>2, <1>6, <1>7, <1>8, SpawnFacts, RegistryStep

\* The handles and a watcher or a request change, and the children stay as they are.
LEMMA SameChildren ==
  ASSUME RegistryInv, UNCHANGED <<proc, born, ports>>,
         handles' \in [Peer -> {0} \cup DOMAIN proc], req' \in [Request -> RequestType],
         watch' \in [Pid -> WatchType], ledger' \in [exists : BOOLEAN, copies : Nat],
         log' \subseteq {"started", "failed", "stopped"} \X ({0} \cup DOMAIN proc),
         \A r \in Request : req'[r] = req[r] \/ Fits(req'[r], proc, born),
         \A k \in Pid : watch'[k] = watch[k] \/ Watches(watch'[k], k, proc, born),
         \A p \in Peer : handles'[p] = handles[p] \/ Tracks(handles'[p], p, proc, born)
  PROVE  RegistryInv'
<1>1. Lives(proc, proc)
  BY DEF Lives
<1> QED
  BY <1>1, Pids, RegistryStep DEF RegistryInv, ServicesTypeOK

LEMMA InsertRegistry ==
  ASSUME RegistryInv, NEW r \in Request, StartInsert(r)
  PROVE  RegistryInv'
<1>1. /\ req[r].pc = "insert"
      /\ handles' = [handles EXCEPT ![req[r].peer] = req[r].pid]
      /\ watch' = [watch EXCEPT ![req[r].pid].pc = "poll"]
      /\ req' = [req EXCEPT ![r] = NoRequest]
      /\ UNCHANGED <<ports, proc, ledger, log, born>>
  BY DEF StartInsert, At, Done
<1>2. /\ req[r].pid \in born /\ proc[req[r].pid].peer = req[r].peer
      /\ req[r].pid \in DOMAIN proc /\ req[r].pid \in Pid /\ req[r].peer \in Peer
  BY <1>1, Pids DEF RegistryInv, Fits, RequestType
<1>3. handles' \in [Peer -> {0} \cup DOMAIN proc]
      /\ \A p \in Peer : handles'[p] = handles[p] \/ Tracks(handles'[p], p, proc, born)
  BY <1>1, <1>2 DEF RegistryInv, ServicesTypeOK, Spawned, Tracks
<1>4. req' \in [Request -> RequestType] /\ \A n \in Request : req'[n] = req[n] \/ Fits(req'[n], proc, born)
  BY <1>1, NoRequestFits DEF RegistryInv
<1>5. watch' \in [Pid -> WatchType]
      /\ \A k \in Pid : watch'[k] = watch[k] \/ Watches(watch'[k], k, proc, born)
  BY <1>1, <1>2 DEF RegistryInv, WatchType, Watches, Writing
<1> QED
  BY <1>1, <1>3, <1>4, <1>5, SameChildren DEF RegistryInv, ServicesTypeOK, Spawned

LEMMA RemoveRegistry ==
  ASSUME RegistryInv, NEW r \in Request, StopRemove(r)
  PROVE  RegistryInv'
<1>1. PICK p \in Peer :
        /\ handles[p] # 0
        /\ req' = [req EXCEPT ![r] = [NoRequest EXCEPT !.pc = "kill", !.peer = p, !.pid = handles[p]]]
        /\ handles' = [handles EXCEPT ![p] = 0]
        /\ UNCHANGED <<ports, proc, watch, ledger, log, born>>
  BY DEF StopRemove
<1>2. /\ handles[p] \in born /\ proc[handles[p]].peer = p /\ handles[p] \in DOMAIN proc /\ handles[p] \in Nat
  BY <1>1, Pids DEF RegistryInv, Tracks
<1> DEFINE q == [NoRequest EXCEPT !.pc = "kill", !.peer = p, !.pid = handles[p]]
<1>3. q \in RequestType /\ Fits(q, proc, born)
  BY <1>1, <1>2, NoRequestFits DEF NoRequest, RequestType, Fits, Writing
<1> HIDE DEF q
<1>4. req' \in [Request -> RequestType] /\ \A n \in Request : req'[n] = req[n] \/ Fits(req'[n], proc, born)
  BY <1>1, <1>3 DEF RegistryInv, q
<1>5. handles' \in [Peer -> {0} \cup DOMAIN proc]
      /\ \A n \in Peer : handles'[n] = handles[n] \/ Tracks(handles'[n], n, proc, born)
  BY <1>1 DEF RegistryInv, ServicesTypeOK, Spawned, Tracks
<1> QED
  BY <1>1, <1>4, <1>5, SameChildren DEF RegistryInv, ServicesTypeOK, Spawned

\* A child's state changes, to one it does not run in or from starting to bound.
LEMMA StateChanges ==
  ASSUME RegistryInv, NEW k \in DOMAIN proc, NEW x \in {"bound", "exited", "reaped"},
         x = "bound" => Runs(proc, k), NEW later, later = [proc EXCEPT ![k].st = x]
  PROVE  /\ later \in Seq(Child) /\ Len(later) = Len(proc) /\ DOMAIN later = DOMAIN proc
         /\ Lives(proc, later)
         /\ x # "bound" => ~Runs(later, k)
         /\ \A j \in DOMAIN proc : /\ later[j].peer = proc[j].peer
                                   /\ j # k => later[j] = proc[j]
<1> DEFINE c == [proc[k] EXCEPT !.st = x]
<1>1. proc[k] \in Child
  BY Pids
<1>2. c \in Child /\ c.peer = proc[k].peer /\ c.st = x
  BY <1>1 DEF Child
<1> HIDE DEF c
<1>3. later = [proc EXCEPT ![k] = c]
  BY DEF c
<1>4. later \in Seq(Child) /\ Len(later) = Len(proc) /\ DOMAIN later = DOMAIN proc
  BY <1>2, <1>3, Pids, ExceptSeq
<1>5. later[k] = c /\ \A j \in DOMAIN proc : j # k => later[j] = proc[j]
  BY <1>3
<1>6. Lives(proc, later)
  BY <1>2, <1>4, <1>5 DEF Lives, Runs
<1> QED
  BY <1>2, <1>4, <1>5, <1>6 DEF Runs

LEMMA KillRegistry ==
  ASSUME RegistryInv, NEW r \in Request, StopKill(r)
  PROVE  /\ RegistryInv' /\ Lives(proc, proc') /\ ~Runs(proc', req[r].pid)
         /\ DOMAIN proc' = DOMAIN proc
<1> DEFINE k == req[r].pid
<1>1. /\ req[r].pc = "kill"
      /\ req' = [req EXCEPT ![r].pc = "log",
                   ![r].kind = IF proc[k].st = "reaped" THEN "failed" ELSE "stopped"]
      /\ proc' = [proc EXCEPT ![k].st = "reaped"]
      /\ UNCHANGED <<handles, ports, watch, ledger, log, born>>
  BY DEF StopKill, At
<1>2. k \in DOMAIN proc /\ req[r] \in RequestType /\ k # 0
  BY <1>1, Pids DEF RegistryInv, Fits
<1>3. /\ proc' \in Seq(Child) /\ Len(proc') = Len(proc) /\ DOMAIN proc' = DOMAIN proc
      /\ Lives(proc, proc') /\ ~Runs(proc', k)
  BY <1>1, <1>2, StateChanges
<1>4. PICK x \in {"failed", "stopped"} : req' = [req EXCEPT ![r].pc = "log", ![r].kind = x]
  BY <1>1
<1> DEFINE q == [req[r] EXCEPT !.pc = "log", !.kind = x]
<1>5. req' = [req EXCEPT ![r] = q]
  BY <1>4 DEF RegistryInv
<1>6. q \in RequestType /\ Fits(q, proc', born')
  BY <1>2, <1>3 DEF RequestType, Fits, Writing
<1> HIDE DEF q
<1>7. req' \in [Request -> RequestType] /\ \A n \in Request : req'[n] = req[n] \/ Fits(req'[n], proc', born')
  BY <1>5, <1>6 DEF RegistryInv
<1> QED
  BY <1>1, <1>3, <1>7, Pids, RegistryStep DEF RegistryInv, ServicesTypeOK, Spawned

-----------------------------------------------------------------------------
\* A watcher goes on to w, and the handle of its peer may be removed.
LEMMA WatcherStep ==
  ASSUME RegistryInv, NEW k \in Pid, NEW w \in WatchType, Watches(w, k, proc, born),
         watch' = [watch EXCEPT ![k] = w],
         handles' = handles \/ \E p : handles' = [handles EXCEPT ![p] = 0],
         UNCHANGED <<req, ports, proc, ledger, log, born>>
  PROVE  RegistryInv'
<1>1. watch' \in [Pid -> WatchType] /\ \A j \in Pid : watch'[j] = watch[j] \/ Watches(watch'[j], j, proc, born)
  BY DEF RegistryInv
<1>2. handles' \in [Peer -> {0} \cup DOMAIN proc]
      /\ \A p \in Peer : handles'[p] = handles[p] \/ Tracks(handles'[p], p, proc, born)
  BY DEF RegistryInv, ServicesTypeOK, Spawned, Tracks
<1> QED
  BY <1>1, <1>2, SameChildren DEF RegistryInv, ServicesTypeOK, Spawned

LEMMA ProbeRegistry ==
  ASSUME RegistryInv, NEW k \in Pid, WatchProbe(k) \/ WatchRemove(k)
  PROVE  RegistryInv'
<1>1. watch[k] \in WatchType /\ Watches(watch[k], k, proc, born) /\ watch[k].polls + 1 \in Nat
      /\ watch \in [Pid -> WatchType]
  BY DEF RegistryInv, WatchType
<1>2. /\ watch[k].pc \in {"probe", "remove"}
      /\ UNCHANGED <<req, ports, proc, ledger, log, born>>
      /\ handles' = handles \/ \E p : handles' = [handles EXCEPT ![p] = 0]
      /\ \/ \E x \in {"started", "failed"} : watch' = [watch EXCEPT ![k].pc = "log", ![k].kind = x]
         \/ watch' = [watch EXCEPT ![k].pc = "poll", ![k].polls = @ + 1]
         \/ watch' = [watch EXCEPT ![k].pc = "timeout"]
  BY DEF WatchProbe, WatchRemove, WatchAt, WatchGoto
<1>3. \E w \in WatchType : Watches(w, k, proc, born) /\ watch' = [watch EXCEPT ![k] = w]
  <2>1. ASSUME NEW x \in {"started", "failed"}, watch' = [watch EXCEPT ![k].pc = "log", ![k].kind = x]
        PROVE  \E w \in WatchType : Watches(w, k, proc, born) /\ watch' = [watch EXCEPT ![k] = w]
    <3> DEFINE w == [watch[k] EXCEPT !.pc = "log", !.kind = x]
    <3>1. w \in WatchType /\ Watches(w, k, proc, born)
      BY <1>1, <1>2 DEF WatchType, Watches, Writing
    <3>2. watch' = [watch EXCEPT ![k] = w]
      BY <1>1, <2>1
    <3> QED
      BY <3>1, <3>2
  <2>2. CASE watch' = [watch EXCEPT ![k].pc = "poll", ![k].polls = @ + 1]
    <3> DEFINE w == [watch[k] EXCEPT !.pc = "poll", !.polls = @ + 1]
    <3>1. w \in WatchType /\ Watches(w, k, proc, born)
      BY <1>1, <1>2 DEF WatchType, Watches, Writing
    <3>2. watch' = [watch EXCEPT ![k] = w]
      BY <1>1, <2>2
    <3> QED
      BY <3>1, <3>2
  <2>3. CASE watch' = [watch EXCEPT ![k].pc = "timeout"]
    <3> DEFINE w == [watch[k] EXCEPT !.pc = "timeout"]
    <3>1. w \in WatchType /\ Watches(w, k, proc, born)
      BY <1>1, <1>2 DEF WatchType, Watches, Writing
    <3>2. watch' = [watch EXCEPT ![k] = w]
      BY <1>1, <2>3
    <3> QED
      BY <3>1, <3>2
  <2> QED
    BY <1>2, <2>1, <2>2, <2>3
<1> QED
  BY <1>2, <1>3, WatcherStep

LEMMA PollRegistry ==
  ASSUME RegistryInv, NEW k \in Pid, WatchPoll(k)
  PROVE  RegistryInv' /\ Lives(proc, proc') /\ DOMAIN proc' = DOMAIN proc
         /\ handles' = handles /\ req' = req /\ log' = log /\ born' = born
<1>1. watch[k] \in WatchType /\ watch[k].pc = "poll" /\ k \in DOMAIN proc /\ watch \in [Pid -> WatchType]
      /\ k \in born
  BY Pids DEF RegistryInv, WatchPoll, WatchAt, Watches
<1>2. UNCHANGED <<handles, ports, req, ledger, log, born>>
  BY DEF WatchPoll
<1>3. CASE Live(k)
  <2> DEFINE w == [watch[k] EXCEPT !.pc = "probe"]
  <2>1. w \in WatchType /\ Watches(w, k, proc, born)
    BY <1>1 DEF WatchType, Watches, Writing
  <2>2. watch' = [watch EXCEPT ![k] = w] /\ proc' = proc
    BY <1>1, <1>3 DEF WatchPoll, WatchGoto
  <2> HIDE DEF w
  <2>3. RegistryInv'
    BY <1>2, <2>1, <2>2, WatcherStep
  <2> QED
    BY <1>2, <2>2, <2>3 DEF Lives
<1>4. CASE ~Live(k)
  <2>1. proc' = [proc EXCEPT ![k].st = "reaped"] /\ watch' = [watch EXCEPT ![k].pc = "remove"]
    BY <1>4 DEF WatchPoll, WatchGoto
  <2>2. /\ proc' \in Seq(Child) /\ Len(proc') = Len(proc) /\ DOMAIN proc' = DOMAIN proc
        /\ Lives(proc, proc') /\ ~Runs(proc', k)
    BY <1>1, <2>1, StateChanges
  <2>3. watch' \in [Pid -> WatchType]
        /\ \A j \in Pid : watch'[j] = watch[j] \/ Watches(watch'[j], j, proc', born')
    BY <1>1, <1>2, <2>1, <2>2 DEF WatchType, Watches, Writing
  <2>4. RegistryInv'
    BY <1>2, <2>2, <2>3, Pids, RegistryStep DEF RegistryInv, ServicesTypeOK, Spawned
  <2> QED
    BY <1>2, <2>2, <2>4
<1> QED
  BY <1>3, <1>4

\* Whatever the peer's name stands for is removed from the registry and killed.
LEMMA TimeoutRegistry ==
  ASSUME RegistryInv, NEW k \in Pid, WatchTimeout(k)
  PROVE  /\ RegistryInv' /\ Lives(proc, proc') /\ DOMAIN proc' = DOMAIN proc
         /\ k \in born /\ proc[k].peer \in Peer
         /\ handles' = [handles EXCEPT ![proc[k].peer] = 0]
         /\ handles[proc[k].peer] # 0 => ~Runs(proc', handles[proc[k].peer])
         /\ req' = req /\ log' = log /\ born' = born
<1> DEFINE t == handles[proc[k].peer]
<1>1. watch[k] \in WatchType /\ watch[k].pc = "timeout" /\ k \in DOMAIN proc /\ watch \in [Pid -> WatchType]
      /\ k \in born /\ proc[k].peer \in Peer
  BY Pids DEF RegistryInv, WatchTimeout, WatchAt, Watches, Child
<1>2. /\ handles' = [handles EXCEPT ![proc[k].peer] = 0]
      /\ proc' = IF t # 0 /\ Live(t) THEN [proc EXCEPT ![t].st = "exited"] ELSE proc
      /\ watch' = [watch EXCEPT ![k].pc = "log", ![k].kind = "failed"]
      /\ UNCHANGED <<ports, req, ledger, log, born>>
  BY DEF WatchTimeout
<1>3. t # 0 => t \in DOMAIN proc
  BY <1>1, Pids DEF RegistryInv, Tracks
<1> HIDE DEF t
<1>4. /\ proc' \in Seq(Child) /\ Len(proc') = Len(proc) /\ DOMAIN proc' = DOMAIN proc
      /\ Lives(proc, proc')
      /\ t # 0 => ~Runs(proc', t)
  <2>1. CASE t # 0 /\ Live(t)
    BY <1>2, <1>3, <2>1, StateChanges
  <2>2. CASE ~(t # 0 /\ Live(t))
    BY <1>2, <2>2, Pids DEF Lives, Runs, Live
  <2> QED
    BY <2>1, <2>2
<1>5. watch' \in [Pid -> WatchType]
      /\ \A j \in Pid : watch'[j] = watch[j] \/ Watches(watch'[j], j, proc', born')
  BY <1>1, <1>2 DEF WatchType, Watches, Writing
<1>6. handles' \in [Peer -> {0} \cup DOMAIN proc']
      /\ \A p \in Peer : handles'[p] = handles[p] \/ Tracks(handles'[p], p, proc', born')
  BY <1>2, <1>4 DEF RegistryInv, ServicesTypeOK, Spawned, Tracks
<1>7. RegistryInv'
  BY <1>2, <1>4, <1>5, <1>6, Pids, RegistryStep DEF RegistryInv, ServicesTypeOK, Spawned
<1> QED
  BY <1>1, <1>2, <1>4, <1>7 DEF t

-----------------------------------------------------------------------------
LEMMA RequestWriteRegistry ==
  ASSUME RegistryInv, NEW r \in Request, RequestWrite(r)
  PROVE  /\ RegistryInv' /\ UNCHANGED <<handles, ports, proc, watch, born, crashes, cut>>
         /\ req[r].pc \in Writing
         /\ req' \in [Request -> RequestType] /\ \A n \in Request : n # r => req'[n] = req[n]
         /\ log' = log \/ log' = log \cup {<<req[r].kind, req[r].pid>>}
<1>1. PICK next \in Writing \cup {"idle"} :
        /\ WriteStep(req[r].pc, next, req[r].kind, req[r].pid)
        /\ IF next = "idle" THEN Done(r) ELSE Goto(r, next)
  BY DEF RequestWrite
<1>2. UNCHANGED <<handles, ports, proc, watch, born, crashes, cut>>
  BY DEF RequestWrite
<1>3. req[r] \in RequestType /\ Fits(req[r], proc, born)
  BY DEF RegistryInv
<1>4. req[r].kind \in {"none", "started", "failed", "stopped"} /\ req[r].pid \in {0} \cup DOMAIN proc
      /\ (req[r].pc \in Writing <=> req[r].kind # "none")
  BY <1>3 DEF RequestType, Fits
<1>5. /\ req[r].pc \in Writing
      /\ ledger' \in [exists : BOOLEAN, copies : Nat]
      /\ log' \subseteq {"started", "failed", "stopped"} \X ({0} \cup DOMAIN proc)
      /\ log' = log \/ log' = log \cup {<<req[r].kind, req[r].pid>>}
  <2>1. /\ ledger \in [exists : BOOLEAN, copies : Nat]
        /\ log \subseteq {"started", "failed", "stopped"} \X ({0} \cup DOMAIN proc)
    BY DEF RegistryInv, ServicesTypeOK, Spawned
  <2>2. req[r].pc \in Writing
    BY <1>1 DEF WriteStep, Writing
  <2>3. ledger' \in [exists : BOOLEAN, copies : Nat]
    <3>1. \/ ledger' = ledger \/ ledger' = [ledger EXCEPT !.exists = TRUE]
          \/ ledger' = [ledger EXCEPT !.copies = ledger.copies + 1]
      BY <1>1 DEF WriteStep
    <3>2. ledger.copies + 1 \in Nat
      BY <2>1
    <3> QED
      BY <2>1, <3>1, <3>2
  <2>4. log' = log \/ log' = log \cup {<<req[r].kind, req[r].pid>>}
    BY <1>1 DEF WriteStep
  <2>5. <<req[r].kind, req[r].pid>> \in {"started", "failed", "stopped"} \X ({0} \cup DOMAIN proc)
    BY <1>4, <2>2
  <2> QED
    BY <2>1, <2>2, <2>3, <2>4, <2>5
<1>6. \E q \in RequestType : Fits(q, proc, born) /\ req' = [req EXCEPT ![r] = q]
  <2>1. CASE next = "idle"
    BY <1>1, <2>1, NoRequestFits DEF Done
  <2>2. CASE next \in Writing
    <3> DEFINE q == [req[r] EXCEPT !.pc = next]
    <3>1. q \in RequestType /\ Fits(q, proc, born)
      BY <1>3, <1>5, <2>2 DEF RequestType, Fits, Writing
    <3>2. req' = [req EXCEPT ![r] = q]
      BY <1>1, <2>2 DEF RegistryInv, Goto, Writing
    <3> HIDE DEF q
    <3> QED
      BY <3>1, <3>2
  <2> QED
    BY <2>1, <2>2
<1>7. PICK q \in RequestType : Fits(q, proc, born) /\ req' = [req EXCEPT ![r] = q]
  BY <1>6
<1>8. req' \in [Request -> RequestType] /\ \A n \in Request : n # r => req'[n] = req[n]
  BY <1>7 DEF RegistryInv
<1>9. \A n \in Request : req'[n] = req[n] \/ Fits(req'[n], proc, born)
  BY <1>7 DEF RegistryInv
<1> QED
  BY <1>2, <1>5, <1>8, <1>9, SameChildren DEF RegistryInv, ServicesTypeOK, Spawned

LEMMA WatchWriteRegistry ==
  ASSUME RegistryInv, NEW k \in Pid, WatchWrite(k)
  PROVE  /\ RegistryInv' /\ UNCHANGED <<handles, ports, req, proc, born, crashes, cut>>
         /\ watch[k].pc \in Writing
         /\ log' = log \/ \E x \in {"started", "failed"} : log' = log \cup {<<x, k>>}
<1>1. PICK next \in Writing \cup {"idle"} :
        /\ WriteStep(watch[k].pc, next, watch[k].kind, k)
        /\ watch' = IF next = "idle" THEN [watch EXCEPT ![k] = NoWatch]
                    ELSE [watch EXCEPT ![k].pc = next]
  BY DEF WatchWrite
<1>2. UNCHANGED <<handles, ports, req, proc, born, crashes, cut>>
  BY DEF WatchWrite
<1>3. watch[k] \in WatchType /\ Watches(watch[k], k, proc, born)
  BY DEF RegistryInv
<1>p. watch[k].pc \in Writing
  BY <1>1 DEF WriteStep, Writing
<1>4. watch[k].kind \in {"started", "failed"} /\ k \in DOMAIN proc
      /\ watch[k].kind \in {"none", "started", "failed", "stopped"}
  BY <1>3, <1>p, Pids DEF WatchType, Watches, Writing
<1>5. /\ ledger' \in [exists : BOOLEAN, copies : Nat]
      /\ log' \subseteq {"started", "failed", "stopped"} \X ({0} \cup DOMAIN proc)
      /\ log' = log \/ log' = log \cup {<<watch[k].kind, k>>}
  <2>1. /\ ledger \in [exists : BOOLEAN, copies : Nat]
        /\ log \subseteq {"started", "failed", "stopped"} \X ({0} \cup DOMAIN proc)
    BY DEF RegistryInv, ServicesTypeOK, Spawned
  <2>2. ledger' \in [exists : BOOLEAN, copies : Nat]
    <3>1. \/ ledger' = ledger \/ ledger' = [ledger EXCEPT !.exists = TRUE]
          \/ ledger' = [ledger EXCEPT !.copies = ledger.copies + 1]
      BY <1>1 DEF WriteStep
    <3>2. ledger.copies + 1 \in Nat
      BY <2>1
    <3> QED
      BY <2>1, <3>1, <3>2
  <2>3. log' = log \/ log' = log \cup {<<watch[k].kind, k>>}
    BY <1>1 DEF WriteStep
  <2>4. <<watch[k].kind, k>> \in {"started", "failed", "stopped"} \X ({0} \cup DOMAIN proc)
    BY <1>4
  <2> QED
    BY <2>1, <2>2, <2>3, <2>4
<1>6. \E w \in WatchType : Watches(w, k, proc, born) /\ watch' = [watch EXCEPT ![k] = w]
  <2>1. CASE next = "idle"
    <3>1. NoWatch \in WatchType /\ Watches(NoWatch, k, proc, born)
      BY DEF NoWatch, WatchType, Watches, Writing
    <3> QED
      BY <1>1, <2>1, <3>1
  <2>2. CASE next \in Writing
    <3> DEFINE w == [watch[k] EXCEPT !.pc = next]
    <3>1. w \in WatchType /\ Watches(w, k, proc, born)
      BY <1>3, <1>p, <2>2 DEF WatchType, Watches, Writing
    <3>2. watch' = [watch EXCEPT ![k] = w]
      BY <1>1, <2>2 DEF RegistryInv, Writing
    <3> HIDE DEF w
    <3> QED
      BY <3>1, <3>2
  <2> QED
    BY <2>1, <2>2
<1>7. PICK w \in WatchType : Watches(w, k, proc, born) /\ watch' = [watch EXCEPT ![k] = w]
  BY <1>6
<1>8. watch' \in [Pid -> WatchType]
      /\ \A j \in Pid : watch'[j] = watch[j] \/ Watches(watch'[j], j, proc, born)
  BY <1>7 DEF RegistryInv
<1>9. RegistryInv'
  BY <1>2, <1>5, <1>8, SameChildren DEF RegistryInv, ServicesTypeOK, Spawned
<1> QED
  BY <1>2, <1>p, <1>4, <1>5, <1>9

-----------------------------------------------------------------------------
LEMMA ChildRegistry ==
  ASSUME RegistryInv, NEW k \in Pid, Bind(k) \/ Exit(k)
  PROVE  /\ RegistryInv' /\ Lives(proc, proc') /\ DOMAIN proc' = DOMAIN proc
         /\ UNCHANGED <<handles, ports, req, watch, ledger, log, born, crashes, cut>>
<1>1. /\ k \in DOMAIN proc /\ UNCHANGED <<handles, ports, req, watch, ledger, log, born, crashes, cut>>
      /\ \E x \in {"bound", "exited"} : proc' = [proc EXCEPT ![k].st = x]
      /\ Runs(proc, k)
  BY DEF Bind, Exit, Spawned, Runs, Live
<1>2. /\ proc' \in Seq(Child) /\ Len(proc') = Len(proc) /\ DOMAIN proc' = DOMAIN proc
      /\ Lives(proc, proc')
  BY <1>1, StateChanges
<1> QED
  BY <1>1, <1>2, Pids, RegistryStep DEF RegistryInv, ServicesTypeOK, Spawned

\* A restart forgets the session; its children live on.
LEMMA CrashRegistry ==
  ASSUME RegistryInv, Crash
  PROVE  RegistryInv' /\ log' = {} /\ born' = {}
<1> DEFINE later == [k \in Spawned |-> IF Live(k) THEN proc[k] ELSE [proc[k] EXCEPT !.st = "reaped"]]
<1>1. /\ handles' = [p \in Peer |-> 0] /\ req' = [r \in Request |-> NoRequest]
      /\ watch' = [k \in Pid |-> NoWatch] /\ born' = {} /\ log' = {}
      /\ proc' = later /\ ports' = ports /\ ledger' = ledger
  BY DEF Crash
<1>2. \A k \in 1 .. Len(proc) : later[k] \in Child
  <2> SUFFICES ASSUME NEW k \in 1 .. Len(proc) PROVE later[k] \in Child
    OBVIOUS
  <2>1. k \in Spawned /\ proc[k] \in Child
    BY Pids DEF Spawned
  <2>2. [proc[k] EXCEPT !.st = "reaped"] \in Child
    BY <2>1 DEF Child
  <2> QED
    BY <2>1, <2>2
<1>3. later = [k \in 1 .. Len(proc) |-> later[k]]
  BY Pids DEF Spawned
<1> HIDE DEF later
<1>4. later \in Seq(Child) /\ Len(later) = Len(proc)
  <2>1. [k \in 1 .. Len(proc) |-> later[k]] \in Seq(Child)
    BY <1>2, Pids, IsASeq
  <2> QED
    BY <1>3, <2>1, Pids, LenProperties
<1>5. \A children, session : Fits(NoRequest, children, session)
  BY NoRequestFits
<1>6. NoWatch \in WatchType /\ \A k : Watches(NoWatch, k, proc', born')
  BY DEF NoWatch, WatchType, Watches, Writing
<1>7. ServicesTypeOK'
  BY <1>1, <1>4, Pids DEF RegistryInv, ServicesTypeOK, Spawned, Child
<1>8. /\ \A r \in Request : Fits(req'[r], proc', born')
      /\ \A k \in Pid : Watches(watch'[k], k, proc', born')
      /\ \A p \in Peer : Tracks(handles'[p], p, proc', born')
  BY <1>1, <1>5, <1>6 DEF Tracks
<1> QED
  BY <1>1, <1>6, <1>7, <1>8, NoRequestFits DEF RegistryInv

LEMMA RegistryNext == RegistryInv /\ [ServicesNext]_serviceVars => RegistryInv'
<1> SUFFICES ASSUME RegistryInv, [ServicesNext]_serviceVars PROVE RegistryInv'
  OBVIOUS
<1>1. CASE UNCHANGED serviceVars
  BY <1>1 DEF serviceVars, RegistryInv, ServicesTypeOK, Spawned
<1>2. ASSUME NEW r \in Request, Start(r) \/ Stop(r) \/ RequestWrite(r) PROVE RegistryInv'
  BY <1>2, StartQuietly, SpawnRegistry, InsertRegistry, RemoveRegistry, KillRegistry, RequestWriteRegistry
     DEF Start, Stop
<1>3. ASSUME NEW k \in Pid, Watch(k) \/ Bind(k) \/ Exit(k) PROVE RegistryInv'
  BY <1>3, PollRegistry, ProbeRegistry, TimeoutRegistry, WatchWriteRegistry, ChildRegistry DEF Watch
<1> QED
  BY <1>1, <1>2, <1>3, CrashRegistry DEF ServicesNext

THEOREM RegistryInvariant == ServicesSpec => []RegistryInv
<1>1. ServicesInit => RegistryInv
  BY ServicesInitRegistry
<1>2. RegistryInv /\ [ServicesNext]_serviceVars => RegistryInv'
  BY RegistryNext
<1> QED
  BY <1>1, <1>2, PTL DEF ServicesSpec

\* The registry, the children and the log keep their types, whichever requests,
\* watchers, exits and restarts interleave (services.rs, ServiceRegistry).
THEOREM ServicesTypeCorrect == ServicesSpec => []ServicesTypeOK
<1>1. RegistryInv => ServicesTypeOK
  BY DEF RegistryInv
<1> QED
  BY <1>1, RegistryInvariant, PTL

-----------------------------------------------------------------------------
\* What the log calls stopped does not run.
StopInv == \A k : <<"stopped", k>> \in log => ~Runs(proc, k)

\* Within a session children live on, and "stopped" is written of a dead child only.
LEMMA SessionStep ==
  ASSUME RegistryInv, ServicesNext, ~Crash
  PROVE  /\ Lives(proc, proc') /\ 0 \notin DOMAIN proc'
         /\ \A k : <<"stopped", k>> \in log' =>
              /\ <<"stopped", k>> \in log \/ ~Runs(proc, k)
              /\ k \in {0} \cup DOMAIN proc
<1>0. RegistryInv'
  BY RegistryNext
<1>1. 0 \notin DOMAIN proc'
  BY <1>0 DEF RegistryInv, ServicesTypeOK
<1>2. Lives(proc, proc) /\ log \subseteq {"started", "failed", "stopped"} \X ({0} \cup DOMAIN proc)
  BY DEF Lives, RegistryInv, ServicesTypeOK, Spawned
<1>3. ASSUME NEW r \in Request, RequestWrite(r)
      PROVE  /\ proc' = proc
             /\ log' = log \/ log' = log \cup {<<req[r].kind, req[r].pid>>}
             /\ Fits(req[r], proc, born)
  BY <1>3, RequestWriteRegistry DEF RegistryInv
<1>4. ASSUME NEW r \in Request, Start(r) \/ Stop(r)
      PROVE  Lives(proc, proc') /\ log' = log
  <2>1. CASE StartSpawn(r)
    <3>1. PICK k \in Pid : k \notin DOMAIN proc /\ DOMAIN proc' = DOMAIN proc \cup {k}
      BY <2>1, SpawnFacts
    <3> QED
      BY <2>1, <3>1, SpawnFacts DEF Lives, Runs
  <2>2. CASE StopKill(r)
    BY <2>2, KillRegistry DEF StopKill
  <2>3. CASE ~StartSpawn(r) /\ ~StopKill(r)
    BY <1>2, <1>4, <2>3
       DEF Start, Stop, StartCheck, StartPort, StartSave, StartProbe, StartFail, StartInsert, StopRemove
  <2> QED
    BY <2>1, <2>2, <2>3
<1>5. ASSUME NEW k \in Pid, Watch(k) \/ Bind(k) \/ Exit(k)
      PROVE  /\ Lives(proc, proc')
             /\ log' = log \/ \E x \in {"started", "failed"} : log' = log \cup {<<x, k>>}
  <2>1. CASE WatchProbe(k) \/ WatchRemove(k)
    BY <1>2, <2>1 DEF WatchProbe, WatchRemove
  <2>2. CASE WatchWrite(k)
    BY <1>2, <2>2, WatchWriteRegistry
  <2>3. CASE WatchPoll(k) \/ WatchTimeout(k) \/ Bind(k) \/ Exit(k)
    BY <2>3, PollRegistry, TimeoutRegistry, ChildRegistry
  <2> QED
    BY <1>5, <2>1, <2>2, <2>3 DEF Watch
<1>6. Lives(proc, proc')
  BY <1>2, <1>3, <1>4, <1>5 DEF ServicesNext
<1>7. \/ \A k : <<"stopped", k>> \in log' => <<"stopped", k>> \in log
      \/ \E r \in Request : log' = log \cup {<<req[r].kind, req[r].pid>>} /\ Fits(req[r], proc, born)
  BY <1>3, <1>4, <1>5 DEF ServicesNext
<1>8. \A k : <<"stopped", k>> \in log' =>
        /\ <<"stopped", k>> \in log \/ ~Runs(proc, k)
        /\ k \in {0} \cup DOMAIN proc
  BY <1>2, <1>7 DEF Fits
<1> QED
  BY <1>1, <1>6, <1>8

\* A child that the service log calls stopped has ended and does not run again, whoever
\* else held its handle (routes.rs, brain_peer_stop).
THEOREM StopSafety == ServicesSpec => []StoppedIsDead
<1>1. ServicesInit => StopInv
  BY DEF ServicesInit, StopInv
<1>2. RegistryInv /\ StopInv /\ [ServicesNext]_serviceVars => StopInv'
  <2> SUFFICES ASSUME RegistryInv, StopInv, [ServicesNext]_serviceVars, NEW k, <<"stopped", k>> \in log'
               PROVE  ~Runs(proc', k)
    BY DEF StopInv
  <2>1. CASE UNCHANGED serviceVars
    BY <2>1 DEF serviceVars, StopInv
  <2>2. CASE Crash
    BY <2>2, CrashRegistry
  <2>3. CASE ServicesNext /\ ~Crash
    <3>1. ~Runs(proc, k) /\ k \in {0} \cup DOMAIN proc
      BY <2>3, SessionStep DEF StopInv
    <3> QED
      BY <2>3, <3>1, SessionStep DEF Lives, Runs
  <2> QED
    BY <2>1, <2>2, <2>3
<1>3. RegistryInv /\ StopInv => StoppedIsDead
  <2> SUFFICES ASSUME RegistryInv, StopInv, NEW k \in Pid, <<"stopped", k>> \in log
               PROVE  ~Live(k)
    BY DEF StoppedIsDead
  <2>1. k \in {0} \cup DOMAIN proc /\ k # 0
    BY DEF RegistryInv, ServicesTypeOK, Spawned, Pid
  <2> QED
    BY <2>1 DEF StopInv, Runs, Live
<1> QED
  BY <1>1, <1>2, <1>3, RegistryInvariant, PTL DEF ServicesSpec

-----------------------------------------------------------------------------
\* No other child of the session has the peer of k.
Sole(k, children, session) == \A j \in session : children[j].peer = children[k].peer => j = k

Held(k, p, table, requests) ==
  table[p] = k \/ \E r \in Request : requests[r].pid = k /\ requests[r].pc \in {"insert", "kill"}

TrackInv ==
  \A k \in born : Runs(proc, k) /\ Sole(k, proc, born) => Held(k, proc[k].peer, handles, req)

\* Within a session it suffices that a sole child that runs stays held.
LEMMA TrackStep ==
  ASSUME RegistryInv, TrackInv, Lives(proc, proc'), born' = born,
         \A k \in born : Runs(proc', k) /\ Runs(proc, k) /\ Sole(k, proc, born)
                           /\ Held(k, proc[k].peer, handles, req)
                           => Held(k, proc[k].peer, handles', req')
  PROVE  TrackInv'
<1> SUFFICES ASSUME NEW k \in born, Runs(proc', k), Sole(k, proc', born)
             PROVE  Held(k, proc'[k].peer, handles', req')
  BY DEF TrackInv
<1>1. \A j \in born : j \in DOMAIN proc /\ proc'[j].peer = proc[j].peer
  BY Pids DEF Lives
<1>2. Runs(proc, k) /\ Sole(k, proc, born)
  BY <1>1 DEF Lives, Sole
<1> QED
  BY <1>1, <1>2 DEF TrackInv

\* A request that has no child in hand goes on, and the handles stay.
LEMMA HoldsOn ==
  ASSUME NEW k, NEW p, NEW table, NEW before, NEW after, Held(k, p, table, before),
         \A n \in Request : before[n].pc \in {"insert", "kill"} => after[n] = before[n]
  PROVE  Held(k, p, table, after)
BY DEF Held

LEMMA TrackStart ==
  ASSUME RegistryInv, TrackInv, NEW r \in Request, Start(r)
  PROVE  TrackInv'
<1>0. Lives(proc, proc)
  BY DEF Lives
<1>1. CASE StartCheck(r) \/ StartPort(r) \/ StartSave(r) \/ StartProbe(r) \/ StartFail(r)
  <2>1. /\ UNCHANGED <<handles, proc, born>>
        /\ req[r].pc \notin {"insert", "kill"}
        /\ \A n \in Request : n # r => req'[n] = req[n]
    BY <1>1 DEF StartCheck, StartPort, StartSave, StartProbe, StartFail, At, Goto, Done, RegistryInv
  <2>2. \A n \in Request : req[n].pc \in {"insert", "kill"} => req'[n] = req[n]
    BY <2>1
  <2> QED
    BY <1>0, <2>1, <2>2, HoldsOn, TrackStep
<1>2. CASE StartSpawn(r)
  <2>1. PICK k \in Pid :
          /\ k \notin DOMAIN proc /\ DOMAIN proc' = DOMAIN proc \cup {k}
          /\ proc'[k].peer = req[r].peer
          /\ req' = [req EXCEPT ![r] = [req[r] EXCEPT !.pc = "insert", !.pid = k]]
          /\ born' = born \cup {k}
    BY <1>2, SpawnFacts
  <2>2. handles' = handles /\ \A j \in DOMAIN proc : proc'[j] = proc[j]
    BY <1>2, SpawnFacts
  <2>3. req'[r].pc = "insert" /\ req'[r].pid = k /\ req[r].pc = "spawn"
        /\ \A n \in Request : n # r => req'[n] = req[n]
    BY <1>2, <2>1 DEF RegistryInv, RequestType, StartSpawn, At
  <2> SUFFICES ASSUME NEW j \in born', Runs(proc', j), Sole(j, proc', born')
               PROVE  Held(j, proc'[j].peer, handles', req')
    BY DEF TrackInv
  <2>4. CASE j = k
    BY <2>3, <2>4 DEF Held
  <2>5. CASE j # k
    <3>1. j \in born /\ j \in DOMAIN proc /\ proc'[j] = proc[j] /\ Runs(proc, j)
      BY <2>1, <2>2, <2>5, Pids DEF Runs
    <3>2. Sole(j, proc, born)
      BY <2>1, <2>2, <3>1, Pids DEF Sole
    <3>3. Held(j, proc[j].peer, handles, req)
      BY <3>1, <3>2 DEF TrackInv
    <3>4. \A n \in Request : req[n].pc \in {"insert", "kill"} => req'[n] = req[n]
      BY <2>3
    <3> QED
      BY <2>2, <3>1, <3>3, <3>4, HoldsOn
  <2> QED
    BY <2>4, <2>5
<1>3. CASE StartInsert(r)
  <2>1. /\ req[r].pc = "insert"
        /\ handles' = [handles EXCEPT ![req[r].peer] = req[r].pid]
        /\ \A n \in Request : n # r => req'[n] = req[n]
        /\ UNCHANGED <<proc, born>>
    BY <1>3 DEF StartInsert, At, Done, RegistryInv
  <2>2. req[r].pid \in born /\ proc[req[r].pid].peer = req[r].peer /\ req[r].peer \in Peer
    BY <2>1 DEF RegistryInv, Fits, RequestType
  <2>3. /\ handles'[req[r].peer] = req[r].pid
        /\ \A p \in Peer : p # req[r].peer => handles'[p] = handles[p]
    BY <2>1, <2>2 DEF RegistryInv, ServicesTypeOK
  <2>4. ASSUME NEW k \in born, Sole(k, proc, born), Held(k, proc[k].peer, handles, req)
        PROVE  Held(k, proc[k].peer, handles', req')
    <3>1. proc[k].peer \in Peer
      BY Pids DEF Child
    <3>2. CASE proc[k].peer = req[r].peer
      BY <2>2, <2>3, <2>4, <3>2 DEF Sole, Held
    <3>3. CASE proc[k].peer # req[r].peer
      <4>1. k # req[r].pid /\ handles'[proc[k].peer] = handles[proc[k].peer]
        BY <2>2, <2>3, <3>1, <3>3
      <4> QED
        BY <2>1, <2>4, <4>1 DEF Held
    <3> QED
      BY <3>2, <3>3
  <2> QED
    BY <1>0, <2>1, <2>4, TrackStep
<1> QED
  BY <1>1, <1>2, <1>3 DEF Start

LEMMA TrackRequest ==
  ASSUME RegistryInv, TrackInv, NEW r \in Request, Stop(r) \/ RequestWrite(r)
  PROVE  TrackInv'
<1>0. Lives(proc, proc)
  BY DEF Lives
<1>1. CASE StopRemove(r)
  <2>1. PICK p \in Peer :
          /\ handles[p] # 0
          /\ req' = [req EXCEPT ![r] = [NoRequest EXCEPT !.pc = "kill", !.peer = p, !.pid = handles[p]]]
          /\ handles' = [handles EXCEPT ![p] = 0]
          /\ req[r].pc = "idle"
          /\ UNCHANGED <<proc, born>>
    BY <1>1 DEF StopRemove, At
  <2>2. /\ req'[r].pc = "kill" /\ req'[r].pid = handles[p]
        /\ \A n \in Request : n # r => req'[n] = req[n]
        /\ \A n \in Peer : n # p => handles'[n] = handles[n]
    BY <2>1 DEF RegistryInv, NoRequest, ServicesTypeOK
  <2>3. ASSUME NEW k \in born, Held(k, proc[k].peer, handles, req)
        PROVE  Held(k, proc[k].peer, handles', req')
    <3>1. proc[k].peer \in Peer
      BY Pids DEF Child
    <3> QED
      BY <2>1, <2>2, <2>3, <3>1 DEF Held
  <2> QED
    BY <1>0, <2>1, <2>3, TrackStep
<1>2. CASE StopKill(r)
  <2>1. /\ handles' = handles /\ born' = born
        /\ \A n \in Request : n # r => req'[n] = req[n]
    BY <1>2 DEF StopKill, RegistryInv
  <2>2. Lives(proc, proc') /\ ~Runs(proc', req[r].pid)
    BY <1>2, KillRegistry
  <2>3. ASSUME NEW k \in born, Runs(proc', k), Held(k, proc[k].peer, handles, req)
        PROVE  Held(k, proc[k].peer, handles', req')
    BY <2>1, <2>2, <2>3 DEF Held
  <2> QED
    BY <2>1, <2>2, <2>3, TrackStep
<1>3. CASE RequestWrite(r)
  <2>1. /\ UNCHANGED <<handles, proc, born>>
        /\ req[r].pc \in Writing
        /\ \A n \in Request : n # r => req'[n] = req[n]
    BY <1>3, RequestWriteRegistry
  <2>2. \A n \in Request : req[n].pc \in {"insert", "kill"} => req'[n] = req[n]
    BY <2>1 DEF Writing
  <2> QED
    BY <1>0, <2>1, <2>2, HoldsOn, TrackStep
<1> QED
  BY <1>1, <1>2, <1>3 DEF Stop

LEMMA TrackWatch ==
  ASSUME RegistryInv, TrackInv, NEW k \in Pid, Watch(k) \/ Bind(k) \/ Exit(k)
  PROVE  TrackInv'
<1>0. Lives(proc, proc)
  BY DEF Lives
<1>1. CASE WatchPoll(k) \/ WatchProbe(k) \/ WatchWrite(k) \/ Bind(k) \/ Exit(k)
  <2>1. Lives(proc, proc') /\ UNCHANGED <<handles, req, born>>
    BY <1>0, <1>1, PollRegistry, ChildRegistry DEF WatchPoll, WatchProbe, WatchWrite
  <2> QED
    BY <2>1, TrackStep
<1>2. CASE WatchRemove(k)
  <2>1. /\ UNCHANGED <<proc, req, born>> /\ watch[k].pc = "remove"
        /\ handles' = [handles EXCEPT ![proc[k].peer] = 0]
    BY <1>2 DEF WatchRemove, WatchAt
  <2>2. k \in born /\ ~Runs(proc, k)
    BY <2>1 DEF RegistryInv, Watches
  <2>3. \A p \in Peer : p # proc[k].peer => handles'[p] = handles[p]
    BY <2>1 DEF RegistryInv, ServicesTypeOK
  <2>4. ASSUME NEW j \in born, Runs(proc, j), Sole(j, proc, born), Held(j, proc[j].peer, handles, req)
        PROVE  Held(j, proc[j].peer, handles', req')
    <3>1. proc[j].peer # proc[k].peer /\ proc[j].peer \in Peer
      BY <2>2, <2>4, Pids DEF Sole, Child
    <3> QED
      BY <2>1, <2>3, <2>4, <3>1 DEF Held
  <2> QED
    BY <1>0, <2>1, <2>4, TrackStep
<1>3. CASE WatchTimeout(k)
  <2>1. /\ Lives(proc, proc') /\ k \in born
        /\ handles' = [handles EXCEPT ![proc[k].peer] = 0]
        /\ handles[proc[k].peer] # 0 => ~Runs(proc', handles[proc[k].peer])
        /\ req' = req /\ born' = born
    BY <1>3, TimeoutRegistry
  <2>2. \A p \in Peer : p # proc[k].peer => handles'[p] = handles[p]
    BY <2>1 DEF RegistryInv, ServicesTypeOK
  <2>3. ASSUME NEW j \in born, Runs(proc', j), Held(j, proc[j].peer, handles, req)
        PROVE  Held(j, proc[j].peer, handles', req')
    <3>1. proc[j].peer \in Peer /\ j # 0
      BY Pids DEF Child
    <3>2. proc[j].peer = proc[k].peer => handles[proc[j].peer] # j
      BY <2>1, <2>3, <3>1
    <3> QED
      BY <2>1, <2>2, <2>3, <3>1, <3>2 DEF Held
  <2> QED
    BY <2>1, <2>3, TrackStep
<1> QED
  BY <1>1, <1>2, <1>3 DEF Watch

\* A child that is the only one this session spawned for its peer is tracked while it
\* runs, or in the hands of the request that starts or stops it (routes.rs,
\* run_readiness_watcher).
THEOREM TrackSafety == ServicesSpec => []SoleSpawnTracked
<1>1. ServicesInit => TrackInv
  BY DEF ServicesInit, TrackInv
<1>2. RegistryInv /\ TrackInv /\ [ServicesNext]_serviceVars => TrackInv'
  <2> SUFFICES ASSUME RegistryInv, TrackInv, [ServicesNext]_serviceVars PROVE TrackInv'
    OBVIOUS
  <2>1. CASE UNCHANGED serviceVars
    BY <2>1 DEF serviceVars, TrackInv, Sole, Held
  <2>2. CASE Crash
    BY <2>2, CrashRegistry DEF TrackInv
  <2>3. CASE ServicesNext /\ ~Crash
    BY <2>3, TrackStart, TrackRequest, TrackWatch DEF ServicesNext
  <2> QED
    BY <2>1, <2>2, <2>3
<1>3. RegistryInv /\ TrackInv => SoleSpawnTracked
  <2> SUFFICES ASSUME RegistryInv, TrackInv, NEW k \in born, Live(k),
                      \A j \in born : proc[j].peer = proc[k].peer => j = k
               PROVE  handles[proc[k].peer] = k \/ InHand(k)
    BY DEF SoleSpawnTracked
  <2>1. Held(k, proc[k].peer, handles, req)
    BY Pids DEF TrackInv, Runs, Live, Sole
  <2> QED
    BY <2>1 DEF Held, InHand
<1> QED
  BY <1>1, <1>2, <1>3, RegistryInvariant, PTL DEF ServicesSpec

-----------------------------------------------------------------------------
Migrating == (\E r \in Request : req[r].pc = "migrate") \/ (\E k \in Pid : watch[k].pc = "migrate")

HistoryInv == ledger.exists => Migrating \/ ledger.copies > 0 \/ cut

\* Steps that write nothing leave the writes under way where they are.
LEMMA QuietHistory ==
  ASSUME HistoryInv, UNCHANGED <<ledger, cut>>,
         \A r \in Request : req[r].pc = "migrate" => req'[r].pc = "migrate",
         \A k \in Pid : watch[k].pc = "migrate" => watch'[k].pc = "migrate"
  PROVE  HistoryInv'
BY DEF HistoryInv, Migrating

LEMMA WriteHistory ==
  ASSUME RegistryInv, HistoryInv, UNCHANGED cut,
         NEW pc, NEW next, NEW kind, NEW k, WriteStep(pc, next, kind, k),
         pc # "migrate" =>
           /\ \A r \in Request : req[r].pc = "migrate" => req'[r].pc = "migrate"
           /\ \A j \in Pid : watch[j].pc = "migrate" => watch'[j].pc = "migrate",
         next = "migrate" => Migrating'
  PROVE  HistoryInv'
<1>0. ledger.copies \in Nat /\ ledger \in [exists : BOOLEAN, copies : Nat]
  BY DEF RegistryInv, ServicesTypeOK
<1>1. CASE pc = "migrate"
  <2>1. ledger' = [ledger EXCEPT !.copies = ledger.copies + 1]
    BY <1>1 DEF WriteStep
  <2>2. ledger'.copies > 0
    BY <1>0, <2>1
  <2> QED
    BY <2>2 DEF HistoryInv
<1>2. CASE pc # "migrate"
  <2>1. ledger' = ledger \/ next = "migrate"
    BY <1>2 DEF WriteStep
  <2> QED
    BY <1>2, <2>1, QuietHistory DEF HistoryInv
<1> QED
  BY <1>1, <1>2

\* A child that is about to be inserted has no watcher yet, and one request inserts it.
FreshInv ==
  /\ \A r \in Request : req[r].pc = "insert" => watch[req[r].pid].pc = "off"
  /\ \A r, n \in Request : req[r].pc = "insert" /\ req[n].pc = "insert" /\ req[r].pid = req[n].pid => r = n

\* Requests that come to no insertion, and watchers that leave children without one alone.
LEMMA FreshStep ==
  ASSUME FreshInv,
         \A r \in Request : req'[r].pc = "insert" => req'[r] = req[r],
         \A r \in Request : req'[r].pc = "insert" =>
           (watch[req[r].pid].pc = "off" => watch'[req[r].pid].pc = "off")
  PROVE  FreshInv'
<1>1. ASSUME NEW r \in Request, req'[r].pc = "insert"
      PROVE  watch'[req'[r].pid].pc = "off"
  BY <1>1 DEF FreshInv
<1>2. ASSUME NEW r \in Request, NEW n \in Request,
             req'[r].pc = "insert", req'[n].pc = "insert", req'[r].pid = req'[n].pid
      PROVE  r = n
  BY <1>2 DEF FreshInv
<1> QED
  BY <1>1, <1>2 DEF FreshInv

LEMMA FreshRequest ==
  ASSUME RegistryInv, FreshInv, NEW r \in Request, Start(r) \/ Stop(r) \/ RequestWrite(r)
  PROVE  FreshInv'
<1>0. req \in [Request -> RequestType] /\ watch \in [Pid -> WatchType]
  BY DEF RegistryInv
<1>1. CASE StartSpawn(r)
  <2>1. PICK k \in Pid :
          /\ k \notin DOMAIN proc
          /\ req' = [req EXCEPT ![r] = [req[r] EXCEPT !.pc = "insert", !.pid = k]]
    BY <1>1, SpawnFacts
  <2>2. watch' = watch /\ k \notin born
    BY <1>1, <2>1, SpawnFacts, Pids
  <2>3. /\ req'[r].pc = "insert" /\ req'[r].pid = k
        /\ \A n \in Request : n # r => req'[n] = req[n]
    BY <1>0, <2>1 DEF RequestType
  <2>4. watch[k].pc = "off" /\ \A n \in Request : req[n].pc = "insert" => req[n].pid # k
    BY <2>2 DEF RegistryInv, Watches, Fits
  <2>5. ASSUME NEW n \in Request, req'[n].pc = "insert"
        PROVE  watch'[req'[n].pid].pc = "off"
    BY <2>2, <2>3, <2>4, <2>5 DEF FreshInv
  <2>6. ASSUME NEW n \in Request, NEW m \in Request,
               req'[n].pc = "insert", req'[m].pc = "insert", req'[n].pid = req'[m].pid
        PROVE  n = m
    BY <2>3, <2>4, <2>6 DEF FreshInv
  <2> QED
    BY <2>5, <2>6 DEF FreshInv
<1>2. CASE StartInsert(r)
  <2>1. /\ req[r].pc = "insert" /\ req' = [req EXCEPT ![r] = NoRequest]
        /\ watch' = [watch EXCEPT ![req[r].pid].pc = "poll"]
    BY <1>0, <1>2 DEF StartInsert, At, Done
  <2>2. /\ \A n \in Request : n # r => req'[n] = req[n]
        /\ req'[r].pc = "idle"
        /\ \A n \in Request : n # r /\ req[n].pc = "insert" => req[n].pid # req[r].pid
    BY <1>0, <2>1 DEF FreshInv, NoRequest
  <2>3. \A k : k # req[r].pid => watch'[k] = watch[k]
    BY <2>1
  <2> QED
    BY <2>2, <2>3, FreshStep
<1>3. CASE (Start(r) \/ Stop(r)) /\ ~StartInsert(r) /\ ~StartSpawn(r)
  <2>0. watch' = watch
    BY <1>3 DEF Start, Stop, StartCheck, StartPort, StartSave, StartProbe, StartFail, StopRemove, StopKill
  <2>1. req'[r].pc # "insert"
    <3>0. CASE StartFail(r)
      BY <1>0, <3>0 DEF StartFail, Done, NoRequest
    <3>1. CASE StartCheck(r)
      <4>1. PICK p : req' = [req EXCEPT ![r] = [NoRequest EXCEPT !.pc = "port", !.peer = p]]
        BY <3>1 DEF StartCheck
      <4> QED
        BY <1>0, <4>1, NoRequestFits DEF RequestType
    <3>6. CASE StopRemove(r)
      <4>1. PICK p, h : req' = [req EXCEPT ![r] = [NoRequest EXCEPT !.pc = "kill", !.peer = p, !.pid = h]]
        BY <3>6 DEF StopRemove
      <4> QED
        BY <1>0, <4>1, NoRequestFits DEF RequestType
    <3>2. CASE StartPort(r)
      BY <1>0, <3>2 DEF StartPort, RequestType
    <3>3. CASE StartSave(r)
      BY <1>0, <3>3 DEF StartSave, Goto, RequestType
    <3>4. CASE StartProbe(r)
      BY <1>0, <3>4 DEF StartProbe, RequestType
    <3>5. CASE StopKill(r)
      BY <1>0, <3>5 DEF StopKill, RequestType
    <3> QED
      BY <1>3, <3>0, <3>1, <3>2, <3>3, <3>4, <3>5, <3>6 DEF Start, Stop
  <2>2. \A n \in Request : n # r => req'[n] = req[n]
    BY <1>0, <1>3 DEF Start, Stop, StartCheck, StartPort, StartSave, StartProbe, StartFail,
                      StopRemove, StopKill, Goto, Done
  <2> QED
    BY <2>0, <2>1, <2>2, FreshStep
<1>4. CASE RequestWrite(r)
  <2>1. watch' = watch /\ \A n \in Request : n # r => req'[n] = req[n]
    BY <1>4, RequestWriteRegistry
  <2>2. req'[r].pc # "insert"
    BY <1>0, <1>4 DEF RequestWrite, Done, Goto, NoRequest, Writing, RequestType
  <2> QED
    BY <2>1, <2>2, FreshStep
<1> QED
  BY <1>1, <1>2, <1>3, <1>4

\* What the watcher of k does besides writing.
LEMMA WatcherAlone ==
  ASSUME RegistryInv, NEW k \in Pid,
         WatchPoll(k) \/ WatchRemove(k) \/ WatchProbe(k) \/ WatchTimeout(k)
  PROVE  /\ UNCHANGED <<req, ledger, cut>>
         /\ watch[k].pc \in {"poll", "remove", "probe", "timeout"}
         /\ \A j \in Pid : j # k => watch'[j] = watch[j]
<1>0. watch \in [Pid -> WatchType]
  BY DEF RegistryInv
<1>1. CASE WatchPoll(k)
  BY <1>0, <1>1 DEF WatchPoll, WatchAt, WatchGoto
<1>2. CASE WatchRemove(k)
  BY <1>0, <1>2 DEF WatchRemove, WatchAt, WatchGoto
<1>3. CASE WatchProbe(k)
  BY <1>0, <1>3 DEF WatchProbe, WatchAt, WatchGoto
<1>4. CASE WatchTimeout(k)
  BY <1>0, <1>4 DEF WatchTimeout, WatchAt, WatchGoto
<1> QED
  BY <1>1, <1>2, <1>3, <1>4

LEMMA FreshNext == RegistryInv /\ FreshInv /\ [ServicesNext]_serviceVars => FreshInv'
<1> SUFFICES ASSUME RegistryInv, FreshInv, [ServicesNext]_serviceVars PROVE FreshInv'
  OBVIOUS
<1>0. watch \in [Pid -> WatchType]
  BY DEF RegistryInv
<1>1. CASE UNCHANGED serviceVars
  BY <1>1 DEF serviceVars, FreshInv
<1>2. CASE Crash
  BY <1>2 DEF Crash, FreshInv, NoRequest
<1>3. ASSUME NEW k \in Pid, Watch(k) \/ Bind(k) \/ Exit(k)
      PROVE  FreshInv'
  <2>1. /\ req' = req
        /\ \A j \in Pid : watch[j].pc = "off" => watch'[j].pc = "off"
    <3>1. CASE WatchPoll(k) \/ WatchRemove(k) \/ WatchProbe(k) \/ WatchTimeout(k)
      BY <3>1, WatcherAlone
    <3>2. CASE WatchWrite(k)
      <4>1. req' = req /\ watch[k].pc \in Writing
        BY <3>2, WatchWriteRegistry
      <4>2. \A j \in Pid : j # k => watch'[j] = watch[j]
        BY <1>0, <3>2 DEF WatchWrite
      <4> QED
        BY <4>1, <4>2 DEF Writing
    <3>3. CASE Bind(k) \/ Exit(k)
      BY <3>3 DEF Bind, Exit
    <3> QED
      BY <1>3, <3>1, <3>2, <3>3 DEF Watch
  <2>2. \A r \in Request : req[r].pc = "insert" => req[r].pid \in Pid
    BY Pids DEF RegistryInv, Fits
  <2> QED
    BY <2>1, <2>2, FreshStep
<1> QED
  BY <1>1, <1>2, <1>3, FreshRequest DEF ServicesNext

LEMMA HistoryRequest ==
  ASSUME RegistryInv, FreshInv, HistoryInv, NEW r \in Request, Start(r) \/ Stop(r) \/ RequestWrite(r)
  PROVE  HistoryInv'
<1>0. req \in [Request -> RequestType] /\ watch \in [Pid -> WatchType]
  BY DEF RegistryInv
<1>1. CASE RequestWrite(r)
  <2>1. PICK next \in Writing \cup {"idle"} :
          /\ WriteStep(req[r].pc, next, req[r].kind, req[r].pid)
          /\ IF next = "idle" THEN Done(r) ELSE Goto(r, next)
    BY <1>1 DEF RequestWrite
  <2>2. watch' = watch /\ cut' = cut /\ \A n \in Request : n # r => req'[n] = req[n]
    BY <1>1, RequestWriteRegistry
  <2>3. next = "migrate" => Migrating'
    BY <1>0, <2>1 DEF Goto, Migrating, Writing, RequestType
  <2>4. PICK pc, kind, k : pc = req[r].pc /\ kind = req[r].kind /\ k = req[r].pid
    OBVIOUS
  <2>5. WriteStep(pc, next, kind, k)
    BY <2>1, <2>4 DEF WriteStep
  <2>6. pc # "migrate" =>
           /\ \A n \in Request : req[n].pc = "migrate" => req'[n].pc = "migrate"
           /\ \A j \in Pid : watch[j].pc = "migrate" => watch'[j].pc = "migrate"
    BY <2>2, <2>4
  <2> QED
    BY <2>2, <2>3, <2>5, <2>6, WriteHistory
<1>2. CASE StartInsert(r)
  <2>1. /\ req[r].pc = "insert" /\ UNCHANGED <<ledger, cut>>
        /\ watch' = [watch EXCEPT ![req[r].pid].pc = "poll"]
        /\ \A n \in Request : n # r => req'[n] = req[n]
    BY <1>0, <1>2 DEF StartInsert, At, Done
  <2>2. watch[req[r].pid].pc = "off" /\ \A k : k # req[r].pid => watch'[k] = watch[k]
    BY <2>1 DEF FreshInv
  <2> QED
    BY <2>1, <2>2, QuietHistory
<1>3. CASE (Start(r) \/ Stop(r)) /\ ~StartInsert(r)
  <2>1. /\ req[r].pc # "migrate" /\ UNCHANGED <<ledger, cut, watch>>
    BY <1>3 DEF Start, Stop, StartCheck, StartPort, StartSave, StartProbe, StartFail, StartSpawn,
                StopRemove, StopKill, At
  <2>2. \A n \in Request : n # r => req'[n] = req[n]
    BY <1>0, <1>3 DEF Start, Stop, StartCheck, StartPort, StartSave, StartProbe, StartFail, StartSpawn,
                      StopRemove, StopKill, Goto, Done
  <2> QED
    BY <2>1, <2>2, QuietHistory
<1> QED
  BY <1>1, <1>2, <1>3

LEMMA HistoryWatch ==
  ASSUME RegistryInv, HistoryInv, NEW k \in Pid, Watch(k) \/ Bind(k) \/ Exit(k)
  PROVE  HistoryInv'
<1>0. watch \in [Pid -> WatchType]
  BY DEF RegistryInv
<1>1. CASE WatchWrite(k)
  <2>1. PICK next \in Writing \cup {"idle"} :
          /\ WriteStep(watch[k].pc, next, watch[k].kind, k)
          /\ watch' = IF next = "idle" THEN [watch EXCEPT ![k] = NoWatch]
                      ELSE [watch EXCEPT ![k].pc = next]
    BY <1>1 DEF WatchWrite
  <2>2. req' = req /\ cut' = cut /\ \A j \in Pid : j # k => watch'[j] = watch[j]
    BY <1>0, <1>1, <2>1, WatchWriteRegistry
  <2>3. next = "migrate" => Migrating'
    BY <1>0, <2>1 DEF Migrating, Writing, WatchType
  <2>4. PICK pc, kind : pc = watch[k].pc /\ kind = watch[k].kind
    OBVIOUS
  <2>5. WriteStep(pc, next, kind, k)
    BY <2>1, <2>4 DEF WriteStep
  <2>6. pc # "migrate" =>
           /\ \A n \in Request : req[n].pc = "migrate" => req'[n].pc = "migrate"
           /\ \A j \in Pid : watch[j].pc = "migrate" => watch'[j].pc = "migrate"
    BY <2>2, <2>4
  <2> QED
    BY <2>2, <2>3, <2>5, <2>6, WriteHistory
<1>2. CASE WatchPoll(k) \/ WatchRemove(k) \/ WatchProbe(k) \/ WatchTimeout(k) \/ Bind(k) \/ Exit(k)
  <2>1. /\ UNCHANGED <<req, ledger, cut>>
        /\ watch' = watch \/ watch[k].pc # "migrate"
        /\ \A j \in Pid : j # k => watch'[j] = watch[j]
    BY <1>2, WatcherAlone DEF Bind, Exit
  <2> QED
    BY <2>1, QuietHistory
<1> QED
  BY <1>1, <1>2 DEF Watch

\* Once the service log exists and no first write is under way, it holds the legacy log,
\* unless the dashboard ended within the first write (services.rs, append_service_event).
THEOREM HistorySafety == ServicesSpec => []HistoryKept
<1>1. ServicesInit => FreshInv /\ HistoryInv
  BY DEF ServicesInit, FreshInv, HistoryInv, NoRequest
<1>2. RegistryInv /\ FreshInv /\ HistoryInv /\ [ServicesNext]_serviceVars => FreshInv' /\ HistoryInv'
  <2> SUFFICES ASSUME RegistryInv, FreshInv, HistoryInv, [ServicesNext]_serviceVars PROVE HistoryInv'
    BY FreshNext
  <2>1. CASE UNCHANGED serviceVars
    BY <2>1 DEF serviceVars, HistoryInv, Migrating
  <2>2. CASE Crash
    <3>1. ledger' = ledger /\ ledger.copies \in Nat /\ cut' = (cut \/ (ledger.exists /\ ledger.copies = 0))
      BY <2>2 DEF Crash, RegistryInv, ServicesTypeOK
    <3>2. ledger.copies > 0 \/ ledger.copies = 0
      BY <3>1
    <3> QED
      BY <3>1, <3>2 DEF HistoryInv
  <2> QED
    BY <2>1, <2>2, HistoryRequest, HistoryWatch DEF ServicesNext
<1>3. HistoryInv => HistoryKept
  BY DEF HistoryInv, Migrating, HistoryKept, At
<1> QED
  BY <1>1, <1>2, <1>3, RegistryInvariant, PTL DEF ServicesSpec

================================================================================
