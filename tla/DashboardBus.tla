---------------------------- MODULE DashboardBus -----------------------------
(***************************************************************************)
(* The dashboard's bus for one topic (neurogrim-dashboard, bus.rs) with    *)
(* the task that reloads queue-config.yaml and the task that copies a      *)
(* topic into the metrics store (lib.rs), publishers and a client of the   *)
(* topic's event stream (routes.rs).  publish takes the handle of a        *)
(* backend, stores the message and then fans it out; a reload swaps the    *)
(* configuration and then clears the cache of handles.                     *)
(*                                                                         *)
(* Messages are numbered.  A backend's content is the sequence stored in   *)
(* its file, whichever handle wrote it.                                    *)
(***************************************************************************)
EXTENDS DashboardEvents, FiniteSets

CONSTANTS
  Publisher,   \* requests that publish to the topic
  Backend,     \* the names with a registered factory
  Default,     \* the backend of a topic that the file does not name
  FirstOffset, \* per backend, the offset of its first message
  Strange,     \* a backend name without a factory
  Unparsable,  \* a file that does not parse, or half of one
  NoHandle,
  MaxMessages, \* bound: the number of the last message
  MaxEdits     \* bound: edits of the file

ASSUME BusAssumption ==
  /\ Default \in Backend
  /\ {Strange, Unparsable, NoHandle} \cap Backend = {}
  /\ FirstOffset \in [Backend -> {0, 1}]
  /\ MaxMessages \in Nat
  /\ MaxEdits \in Nat

VARIABLES
  file,     \* what queue-config.yaml says of the topic
  config,   \* BusState::config, for the topic
  backends, \* BusState::backends, for the topic: a handle or NoHandle
  stored,   \* per backend, the messages in its file
  stream,   \* everything sent on the topic's broadcast channel
  reload,   \* the reload task: where it is, events taken, the parsed file
  pub,      \* per publisher: where it is, its handle, its message
  client,   \* an SSE client that subscribes and then reads the backlog
  recorder, \* the metrics task: likewise, but it reads and then subscribes
  recorded, \* the metrics store: points recorded, in order
  made,     \* the number of the last message
  edits,
  clears,   \* history: reloads completed
  begun     \* history: per message, where the recorder was when its publish began

confVars == <<file, config, reload, edits, clears>>

topicVars == <<stored, stream, pub, made, begun>>

readerVars == <<client, recorder, recorded>>

busVars == <<confVars, backends, topicVars, readerVars>>

vars == <<eventVars, busVars>>

File == Backend \cup {Strange, Unparsable}

\* Bound: the stream is followed by a client or by the metrics task, which runs when the
\* metrics store could be opened; readers touch nothing of each other.
OneReader == recorder.pc = "off"

\* from_project_root: a file that does not parse is as good as none.
Parsed(f) == IF f = Unparsable THEN Default ELSE f

NoPublish == [pc |-> "idle", handle |-> NoHandle, msg |-> 0, at |-> 0]

Elements(s) == {s[i] : i \in DOMAIN s}

Init ==
  /\ EventsInit
  /\ file \in File
  /\ config = Parsed(file)
  /\ backends = NoHandle
  /\ stored = [b \in Backend |-> <<>>]
  /\ stream = <<>>
  /\ reload = [pc |-> "spawn", pos |-> 0, from |-> 0, new |-> Default]
  /\ pub = [p \in Publisher |-> NoPublish]
  /\ client = [pc |-> "away", handle |-> NoHandle, pos |-> 0, seen |-> {}, lost |-> 0]
  /\ \E pc \in {"off", "backfill"} : recorder = [pc |-> pc, handle |-> NoHandle, pos |-> 0, before |-> 0]
  /\ recorded = <<>>
  /\ made = 0
  /\ edits = 0
  /\ clears = 0
  /\ begun = <<>>

-----------------------------------------------------------------------------
\* The configuration file and the task that reloads it.

\* Someone rewrites the file; a write in place can be read half done.
Edit ==
  /\ edits < MaxEdits
  /\ \E f \in File \ {file} : file' = f
  /\ edits' = edits + 1
  /\ FileChanged("queue-config")
  /\ UNCHANGED <<topicVars, readerVars, config, backends, reload, clears>>

Watcher ==
  /\ \/ Forward
     \/ FileChanged("cmdb")
  /\ UNCHANGED busVars

\* serve subscribes the reload task after the bus has read the file.
Subscribe ==
  /\ reload.pc = "spawn"
  /\ reload' = [reload EXCEPT !.pc = "recv", !.pos = Len(events), !.from = Len(events)]
  /\ UNCHANGED <<eventVars, topicVars, readerVars, file, config, backends, edits, clears>>

ReloadRecv ==
  /\ reload.pc = "recv"
  /\ Unread(events, reload.pos)
  /\ reload' = [reload EXCEPT !.pos = @ + 1,
                  !.pc = IF events[reload.pos + 1] = "QueueConfigChanged" THEN "read" ELSE "recv"]
  /\ UNCHANGED <<eventVars, topicVars, readerVars, file, config, backends, edits, clears>>

\* while let Ok(event): the task ends with the first error.
ReloadLagged ==
  /\ reload.pc = "recv"
  /\ Lagged(events, reload.pos)
  /\ reload' = [reload EXCEPT !.pc = "ended"]
  /\ UNCHANGED <<eventVars, topicVars, readerVars, file, config, backends, edits, clears>>

\* Seeded fault: a topic that the file no longer names keeps its backend.
ReloadReadKeeps ==
  /\ reload.pc = "read"
  /\ reload' = IF file \in {Unparsable, Default} THEN [reload EXCEPT !.pc = "recv"]
               ELSE [reload EXCEPT !.pc = "swap", !.new = file]
  /\ UNCHANGED <<eventVars, topicVars, readerVars, file, config, backends, edits, clears>>

\* reload_from_path: a file that does not parse leaves everything as it is.
ReloadRead ==
  /\ reload.pc = "read"
  /\ reload' = IF file = Unparsable THEN [reload EXCEPT !.pc = "recv"]
               ELSE [reload EXCEPT !.pc = "swap", !.new = file]
  /\ UNCHANGED <<eventVars, topicVars, readerVars, file, config, backends, edits, clears>>

ReloadSwap ==
  /\ reload.pc = "swap"
  /\ config' = reload.new
  /\ reload' = [reload EXCEPT !.pc = "clear"]
  /\ UNCHANGED <<eventVars, topicVars, readerVars, file, backends, edits, clears>>

\* Seeded fault: the cache keeps its handle.
ReloadClearNothing ==
  /\ reload.pc = "clear"
  /\ reload' = [reload EXCEPT !.pc = "recv"]
  /\ clears' = clears + 1
  /\ UNCHANGED <<eventVars, topicVars, readerVars, file, config, backends, edits>>

ReloadClear ==
  /\ reload.pc = "clear"
  /\ backends' = NoHandle
  /\ reload' = [reload EXCEPT !.pc = "recv"]
  /\ clears' = clears + 1
  /\ UNCHANGED <<eventVars, topicVars, readerVars, file, config, edits>>

-----------------------------------------------------------------------------
\* Handles and publishes.

\* backend_for: the handle in the cache, or a new one for the configured name, which
\* the write lock makes one step; it fails for a name without a factory.
BackendFor(h) ==
  /\ h = IF backends # NoHandle THEN backends ELSE config
  /\ h # Strange
  /\ backends' = h

PublishBegin(p) ==
  /\ pub[p].pc = "idle"
  /\ made < MaxMessages
  /\ made' = made + 1
  /\ \E h \in Backend :
       /\ BackendFor(h)
       /\ pub' = [pub EXCEPT ![p] = [pc |-> "append", handle |-> h, msg |-> made + 1, at |-> clears]]
  /\ begun' = Append(begun, recorder.pc)
  /\ UNCHANGED <<eventVars, confVars, readerVars, stored, stream>>

PublishAppend(p) ==
  /\ pub[p].pc = "append"
  /\ stored' = [stored EXCEPT ![pub[p].handle] = Append(@, pub[p].msg)]
  /\ pub' = [pub EXCEPT ![p].pc = "send"]
  /\ UNCHANGED <<eventVars, confVars, readerVars, backends, stream, made, begun>>

PublishFail(p) ==
  /\ pub[p].pc = "append"
  /\ pub' = [pub EXCEPT ![p] = NoPublish]
  /\ UNCHANGED <<eventVars, confVars, readerVars, backends, stored, stream, made, begun>>

PublishSend(p) ==
  /\ pub[p].pc = "send"
  /\ stream' = Append(stream, pub[p].msg)
  /\ pub' = [pub EXCEPT ![p] = NoPublish]
  /\ UNCHANGED <<eventVars, confVars, readerVars, backends, stored, made, begun>>

\* Seeded fault: the message is fanned out before it is stored.
PublishSendFirst(p) ==
  \/ PublishBegin(p)
  \/ /\ pub[p].pc = "append"
     /\ stream' = Append(stream, pub[p].msg)
     /\ pub' = [pub EXCEPT ![p].pc = "send"]
     /\ UNCHANGED <<eventVars, confVars, readerVars, backends, stored, made, begun>>
  \/ /\ pub[p].pc = "send"
     /\ stored' = [stored EXCEPT ![pub[p].handle] = Append(@, pub[p].msg)]
     /\ pub' = [pub EXCEPT ![p] = NoPublish]
     /\ UNCHANGED <<eventVars, confVars, readerVars, backends, stream, made, begun>>

Publish(p) == PublishBegin(p) \/ PublishAppend(p) \/ PublishFail(p) \/ PublishSend(p)
-----------------------------------------------------------------------------
\* A client of the topic's event stream.  It subscribes first and reads the backlog
\* then; the stream drops what it lagged behind and goes on with the oldest message kept.

ClientSubscribe ==
  /\ client.pc = "away"
  /\ OneReader
  /\ client' = [client EXCEPT !.pc = "open", !.pos = Len(stream)]
  /\ UNCHANGED <<eventVars, confVars, topicVars, backends, recorder, recorded>>

ClientOpen ==
  /\ client.pc = "open"
  /\ \E h \in Backend :
       /\ BackendFor(h)
       /\ client' = [client EXCEPT !.pc = "read", !.handle = h]
  /\ UNCHANGED <<eventVars, confVars, topicVars, recorder, recorded>>

ClientRead ==
  /\ client.pc = "read"
  /\ client' = [client EXCEPT !.pc = "follow", !.seen = @ \cup Elements(stored[client.handle])]
  /\ UNCHANGED <<eventVars, confVars, topicVars, backends, recorder, recorded>>

ClientRecv ==
  /\ client.pc # "away"
  /\ Unread(stream, client.pos)
  /\ client' = [client EXCEPT !.pos = @ + 1, !.seen = @ \cup {stream[client.pos + 1]}]
  /\ UNCHANGED <<eventVars, confVars, topicVars, backends, recorder, recorded>>

ClientLagged ==
  /\ client.pc # "away"
  /\ Lagged(stream, client.pos)
  /\ client' = [client EXCEPT !.pos = Len(stream) - Capacity, !.lost = Len(stream) - Capacity]
  /\ UNCHANGED <<eventVars, confVars, topicVars, backends, recorder, recorded>>

Client == ClientSubscribe \/ ClientOpen \/ ClientRead \/ ClientRecv \/ ClientLagged

-----------------------------------------------------------------------------
\* The metrics task.  It records what the topic holds from offset 1 on, as many as
\* there are messages, and then whatever it receives.

Backlog(b) == SubSeq(stored[b], 2 - FirstOffset[b], Len(stored[b]))

RecorderOpen ==
  /\ recorder.pc = "backfill"
  /\ \E h \in Backend :
       /\ BackendFor(h)
       /\ recorder' = [recorder EXCEPT !.pc = "read", !.handle = h, !.before = Len(stream)]
  /\ UNCHANGED <<eventVars, confVars, topicVars, client, recorded>>

\* backend_for, or a read, failed: the backfill is skipped.
RecorderSkip ==
  /\ \/ recorder.pc = "backfill" /\ backends = NoHandle /\ config = Strange
     \/ recorder.pc = "read"
  /\ recorder' = [recorder EXCEPT !.pc = "subscribe", !.handle = NoHandle]
  /\ UNCHANGED <<eventVars, confVars, topicVars, backends, client, recorded>>

\* Seeded fault: the limit is one short.
RecorderReadShort ==
  /\ recorder.pc = "read"
  /\ LET all == Backlog(recorder.handle)
     IN recorded' = recorded \o SubSeq(all, 1, Len(all) - 1)
  /\ recorder' = [recorder EXCEPT !.pc = "subscribe"]
  /\ UNCHANGED <<eventVars, confVars, topicVars, backends, client>>

RecorderRead ==
  /\ recorder.pc = "read"
  /\ recorded' = recorded \o Backlog(recorder.handle)
  /\ recorder' = [recorder EXCEPT !.pc = "subscribe"]
  /\ UNCHANGED <<eventVars, confVars, topicVars, backends, client>>

RecorderSubscribe ==
  /\ recorder.pc = "subscribe"
  /\ recorder' = [recorder EXCEPT !.pc = "run", !.pos = Len(stream)]
  /\ UNCHANGED <<eventVars, confVars, topicVars, backends, client, recorded>>

RecorderRecv ==
  /\ recorder.pc = "run"
  /\ Unread(stream, recorder.pos)
  /\ recorded' = Append(recorded, stream[recorder.pos + 1])
  /\ recorder' = [recorder EXCEPT !.pos = @ + 1]
  /\ UNCHANGED <<eventVars, confVars, topicVars, backends, client>>

RecorderLagged ==
  /\ recorder.pc = "run"
  /\ Lagged(stream, recorder.pos)
  /\ recorder' = [recorder EXCEPT !.pc = "ended"]
  /\ UNCHANGED <<eventVars, confVars, topicVars, backends, client, recorded>>

Recorder == RecorderOpen \/ RecorderSkip \/ RecorderRead \/ RecorderSubscribe
              \/ RecorderRecv \/ RecorderLagged

Reload == Subscribe \/ ReloadRecv \/ ReloadLagged \/ ReloadRead \/ ReloadSwap \/ ReloadClear

Next ==
  \/ Edit \/ Watcher \/ Reload \/ Client \/ Recorder
  \/ \E p \in Publisher : Publish(p)

\* The watcher and the reload task run; requests may be abandoned.
Spec == Init /\ [][Next]_vars
          /\ WF_vars(Forward /\ UNCHANGED busVars) /\ WF_vars(Reload)

-----------------------------------------------------------------------------
TypeOK ==
  /\ file \in File
  /\ config \in Backend \cup {Strange}
  /\ backends \in Backend \cup {NoHandle}
  /\ stored \in [Backend -> Seq(1 .. MaxMessages)]
  /\ stream \in Seq(1 .. MaxMessages)
  /\ reload.pc \in {"spawn", "recv", "read", "swap", "clear", "ended"}
  /\ pub \in [Publisher -> [pc : {"idle", "append", "send"}, handle : Backend \cup {NoHandle},
                            msg : 0 .. MaxMessages, at : Nat]]
  /\ client.pc \in {"away", "open", "read", "follow"}
  /\ recorder.pc \in {"off", "backfill", "read", "subscribe", "run", "ended"}
  /\ recorded \in Seq(1 .. MaxMessages)
  /\ made \in 0 .. MaxMessages

\* A publish that began after the last reload ended writes to the backend that the
\* configuration names: whatever order publishes and the two halves of a reload take,
\* no handle of the old configuration stays in the cache (bus.rs, reload_from_path).
Routed ==
  \A p \in Publisher :
    pub[p].pc \in {"append", "send"} /\ pub[p].at = clears /\ reload.pc # "clear"
      => pub[p].handle = config

\* A client that subscribes and then reads the backlog has every message whose
\* publish returned, in hand or on its way, save one that the stream dropped as it
\* lagged or that a reload made a publish store in another backend than it read.
ClientMissesNothing ==
  client.pc = "follow" =>
    \A i \in DOMAIN stream :
      \/ stream[i] \in client.seen
      \/ i > client.pos
      \/ i <= client.lost
      \/ stream[i] \notin Elements(stored[client.handle])

Times(m) == Cardinality({i \in DOMAIN recorded : recorded[i] = m})

\* Messages published wholly before the backfill began, to the backend it read, and
\* those published wholly after the subscription are recorded once, although nothing
\* joins the two halves of the metrics task; the first line of a JSONL topic, which
\* the backfill skips, excepted (lib.rs, serve).
RecordedOnce ==
  /\ recorder.pc \in {"subscribe", "run", "ended"} /\ recorder.handle # NoHandle =>
       \A m \in Elements(SubSeq(stream, 1, recorder.before)) \cap Elements(Backlog(recorder.handle)) :
         Times(m) = 1
  /\ recorder.pc \in {"run", "ended"} =>
       \A i \in 1 .. recorder.pos : begun[stream[i]] = "run" => Times(stream[i]) = 1

CaughtUp ==
  \/ reload.pc = "ended"
  \/ file = Unparsable
  \/ config = file
  \/ \A i \in reload.from + 1 .. Len(events) : events[i] # "QueueConfigChanged"

\* The last edit announced to the reload task takes effect, unless the task ended
\* because it lagged or the file does not parse (lib.rs, serve; bus.rs, reload_from_path).
ReloadCatchesUp == <>[]CaughtUp
==============================================================================
