----------------------------- MODULE BrokerHost ------------------------------
(***************************************************************************)
(* The broker host (neurogrim-brokers, host.rs) with a work broker and a   *)
(* sensor broker, and the materialisation of their overlays (materializer/)*)
(* into segment files, the sensor's CMDB file and current-projection.md,   *)
(* which is what an agent reads.                                           *)
(*                                                                         *)
(* A successful dispatch spawns a materialisation and returns; nobody      *)
(* waits for it or orders it after the others.  std::fs::write truncates   *)
(* the file and then writes it from the start, so files can be seen empty, *)
(* and two writers can leave the end of one text behind the other.         *)
(*                                                                         *)
(* The governance segment stands for every text that never changes: the    *)
(* awareness segments are written in the same way and left out.            *)
(***************************************************************************)
EXTENDS WorkBroker, SensorBroker

CONSTANTS
  Slot,         \* materialisations under way at once
  Order,        \* the brokers, in the order of the host's map: each once
  SegmentOrder, \* the order the composer reads the segments in
  MaxDispatch,  \* bound: dispatches that begin
  MaxEnv        \* bound: calls of tick, edits, clock ticks, failed writes, crashes

Broker == {"work", "sensor"}

\* A broker's overlay segment goes by its id.
Segment == Broker \cup {"governance"}

ASSUME HostAssumption ==
  /\ Order \in Seq(Broker) /\ {Order[i] : i \in DOMAIN Order} = Broker
  /\ \A i, j \in DOMAIN Order : Order[i] = Order[j] => i = j
  /\ SegmentOrder \in Seq(Segment)
  /\ {SegmentOrder[i] : i \in DOMAIN SegmentOrder} = Segment
  /\ SegmentOrder[1] = "governance"
  /\ MaxDispatch \in Nat
  /\ MaxEnv \in Nat

VARIABLES
  host,       \* "down", "booting" or "up"
  mat,        \* per slot, a materialisation
  files,      \* the segment files
  cmdb,       \* the sensor's CMDB file
  projection, \* current-projection.md
  recent,     \* history: what each overlay was since the files were last at rest
  solo,       \* history: the last materialisation overlapped no other
  spoiled,    \* history: one failed since the files were last at rest
  bounds

hostVars == <<host, mat, files, cmdb, projection, recent, solo, spoiled, bounds>>

vars == <<workVars, sensorVars, hostVars>>

\* A file's content: nothing, one whole text, or the end of one text behind another.
Empty == <<"empty">>
Mixed == <<"mixed">>
Whole(v) == <<"whole", v>>

IsWhole(f) == f[1] = "whole"

\* std::fs::write's second half: into a file that another writer has filled since
\* it was truncated here, the text covers the other or leaves its end.
Filled(f, v) == IF f \in {Empty, Whole(v)} THEN {Whole(v)} ELSE {Whole(v), Mixed}

\* read_overlay: the work broker's overlay, the sensor's envelope.
OverlayOf(b) == IF b = "work" THEN work ELSE sense.env

NoMat == [pc |-> "idle", i |-> 1, held |-> 0, parts |-> <<>>]

MatAt(m, pc) == mat[m].pc = pc

MatTo(m, pc) == mat' = [mat EXCEPT ![m].pc = pc]

Busy == {m \in Slot : ~MatAt(m, "idle")}

BrokerAt(m) == Order[mat[m].i]

Quiet == Busy = {} /\ host = "up"

Count(k, bound) == bounds[k] < bound /\ bounds' = [bounds EXCEPT ![k] = @ + 1]

NoDispatch == \A c \in Client : LeafAt(c, "idle") /\ RunAt(c, "idle")

Init ==
  /\ WorkInit
  /\ SensorInit
  /\ host = "down"
  /\ mat = [m \in Slot |-> NoMat]
  /\ files = [s \in Segment |-> Empty]
  /\ cmdb = 0
  /\ projection = Empty
  /\ recent = [b \in Broker |-> {OverlayOf(b)}]
  /\ solo = TRUE
  /\ spoiled = FALSE
  /\ bounds = [dispatch |-> 0, env |-> 0]

\* materialize_all begins, in a slot of its own.
Begin(m) ==
  /\ MatAt(m, "idle")
  /\ mat' = [mat EXCEPT ![m] = [NoMat EXCEPT !.pc = "read"]]
  /\ recent' = IF Busy = {} THEN [work |-> {work'}, sensor |-> {sense'.env}] ELSE recent
  /\ solo' = (Busy = {})
  /\ spoiled' = IF Busy = {} THEN FALSE ELSE spoiled

\* BrokerHost::boot constructs the brokers and awaits the first materialisation.
Boot(m) ==
  /\ host = "down"
  /\ WorkBoot
  /\ SensorBoot
  /\ Begin(m)
  /\ host' = "booting"
  /\ UNCHANGED <<files, cmdb, projection, bounds>>

\* dispatch: a client's dispatch runs in one of the two brokers.
Dispatch(c) ==
  /\ host = "up"
  /\ LeafAt(c, "idle") /\ RunAt(c, "idle")
  /\ Count("dispatch", MaxDispatch)
  /\ \/ UNCHANGED sensorVars /\ \E u \in Unit : StartClaim(c, u)
     \/ UNCHANGED workVars /\ StartRun(c)
  /\ UNCHANGED <<host, mat, files, cmdb, projection, recent, solo, spoiled>>

Published == recent' = [work   |-> recent["work"] \cup {work'},
                        sensor |-> recent["sensor"] \cup {sense'.env}]

WorkLeaf(c) ==
  /\ host = "up"
  /\ WorkStep(c)
  /\ UNCHANGED sensorVars
  /\ Published
  /\ UNCHANGED <<host, mat, files, cmdb, projection, solo, spoiled, bounds>>

SensorLeaf(c) ==
  /\ host = "up"
  /\ SensorStep(c)
  /\ UNCHANGED workVars
  /\ Published
  /\ UNCHANGED <<host, mat, files, cmdb, projection, solo, spoiled, bounds>>

\* on_dispatch_complete: the callback of a success spawns a materialisation.
Complete(c, m) ==
  /\ host = "up"
  /\ \/ EndClaim(c) /\ UNCHANGED sensorVars
     \/ EndRun(c) /\ UNCHANGED workVars
  /\ Begin(m)
  /\ UNCHANGED <<host, files, cmdb, projection, bounds>>

\* tick.
HostTick(m) ==
  /\ host = "up"
  /\ Count("env", MaxEnv)
  /\ UNCHANGED <<workVars, sensorVars, host, files, cmdb, projection>>
  /\ Begin(m)

-----------------------------------------------------------------------------
(* The steps of materialize_all, broker by broker.                            *)

\* HotStoreMaterializer reads the overlay ...
ReadForSegment(m) ==
  /\ MatAt(m, "read")
  /\ mat' = [mat EXCEPT ![m].pc = "overlay", ![m].held = OverlayOf(BrokerAt(m))]
  /\ UNCHANGED <<files, cmdb, projection>>

\* ... and writes it.
SegmentOf(m) ==
  IF mat[m].pc \in {"overlay", "overlay-open"} THEN BrokerAt(m) ELSE "governance"

TextOf(m) == IF MatAt(m, "overlay-open") THEN mat[m].held ELSE 0

OpenSegment(m) ==
  /\ mat[m].pc \in {"overlay", "governance"}
  /\ files' = [files EXCEPT ![SegmentOf(m)] = Empty]
  /\ MatTo(m, IF MatAt(m, "overlay") THEN "overlay-open" ELSE "governance-open")
  /\ UNCHANGED <<cmdb, projection>>

\* Seeded fault: the loop over the brokers ends before the last.
NextBrokerShort(r) ==
  IF r.i + 1 < Len(Order) THEN [r EXCEPT !.pc = "read", !.i = @ + 1, !.held = 0]
                          ELSE [r EXCEPT !.pc = "governance", !.i = 1, !.held = 0]

\* The next broker's turn, or the governance segment's.
NextBroker(r) ==
  IF r.i < Len(Order) THEN [r EXCEPT !.pc = "read", !.i = @ + 1, !.held = 0]
                      ELSE [r EXCEPT !.pc = "governance", !.i = 1, !.held = 0]

FillSegment(m) ==
  /\ mat[m].pc \in {"overlay-open", "governance-open"}
  /\ \E f \in Filled(files[SegmentOf(m)], TextOf(m)) :
       files' = [files EXCEPT ![SegmentOf(m)] = f]
  /\ mat' = [mat EXCEPT ![m] =
       CASE MatAt(m, "governance-open") -> [@ EXCEPT !.pc = "compose"]
         [] MatAt(m, "overlay-open") /\ BrokerAt(m) = "sensor" -> [@ EXCEPT !.pc = "cmdb", !.held = 0]
         [] OTHER -> NextBroker(@)]
  /\ UNCHANGED <<cmdb, projection>>

\* CmdbMaterializer, for a broker that exports one: read_overlay again, a temporary
\* file of its own, and a rename.
ReadForCmdb(m) ==
  /\ MatAt(m, "cmdb")
  /\ mat' = [mat EXCEPT ![m].pc = "rename", ![m].held = OverlayOf("sensor")]
  /\ UNCHANGED <<files, cmdb, projection>>

\* Seeded fault: a CMDB file that is there is taken for the current one.
RenameCmdbOnce(m) ==
  /\ MatAt(m, "rename")
  /\ cmdb' = IF cmdb = 0 THEN mat[m].held ELSE cmdb
  /\ mat' = [mat EXCEPT ![m] = NextBroker(@)]
  /\ UNCHANGED <<files, projection>>

RenameCmdb(m) ==
  /\ MatAt(m, "rename")
  /\ cmdb' = mat[m].held
  /\ mat' = [mat EXCEPT ![m] = NextBroker(@)]
  /\ UNCHANGED <<files, projection>>

\* MaterializerComposer::compose reads the segments, governance first ...
ReadSegment(m) ==
  LET s == SegmentOrder[Len(mat[m].parts) + 1] IN
  /\ MatAt(m, "compose")
  /\ Len(mat[m].parts) < Len(SegmentOrder)
  /\ mat' = [mat EXCEPT ![m].parts = Append(@, files[s])]
  /\ UNCHANGED <<files, cmdb, projection>>

\* ... and writes the projection.
OpenProjection(m) ==
  /\ MatAt(m, "compose")
  /\ Len(mat[m].parts) = Len(SegmentOrder)
  /\ projection' = Empty
  /\ MatTo(m, "output")
  /\ UNCHANGED <<files, cmdb>>

MatStep(m) ==
  /\ \/ ReadForSegment(m) \/ OpenSegment(m) \/ FillSegment(m)
     \/ ReadForCmdb(m) \/ RenameCmdb(m)
     \/ ReadSegment(m) \/ OpenProjection(m)
  /\ UNCHANGED <<workVars, sensorVars, host, recent, solo, spoiled, bounds>>

\* materialize_all returns; the first one ends the boot.
EndMat(m) ==
  /\ MatAt(m, "output")
  /\ projection' \in Filled(projection, mat[m].parts)
  /\ mat' = [mat EXCEPT ![m] = NoMat]
  /\ host' = "up"
  /\ UNCHANGED <<workVars, sensorVars, files, cmdb, recent, solo, spoiled, bounds>>

\* A write fails: the rest is skipped, with a line on stderr.  Boot fails with it.
FailMat(m) ==
  /\ mat[m].pc \notin {"idle", "read", "cmdb"}
  /\ Count("env", MaxEnv)
  /\ mat' = [mat EXCEPT ![m] = NoMat]
  /\ spoiled' = TRUE
  /\ host' = IF host = "booting" THEN "down" ELSE host
  /\ UNCHANGED <<workVars, sensorVars, files, cmdb, projection, recent, solo>>

\* The process dies: the files stay as they are, all else starts anew.
Crash ==
  /\ host # "down"
  /\ Count("env", MaxEnv)
  /\ host' = "down"
  /\ mat' = [m \in Slot |-> NoMat]
  /\ UNCHANGED <<workVars, sensorVars, files, cmdb, projection, recent, solo, spoiled>>

Edit ==
  /\ Count("env", MaxEnv)
  /\ \E item \in Unit \cup {NoUnit} : EditBacklog(item)
  /\ UNCHANGED <<sensorVars, host, mat, files, cmdb, projection, recent, solo, spoiled>>

Tock ==
  /\ ClockTicks
  /\ Count("env", MaxEnv)
  /\ UNCHANGED <<workVars, host, mat, files, cmdb, projection, recent, solo, spoiled>>

Next ==
  \/ \E c \in Client : Dispatch(c) \/ WorkLeaf(c) \/ SensorLeaf(c)
  \/ \E c \in Client, m \in Slot : Complete(c, m)
  \/ \E m \in Slot : Boot(m) \/ HostTick(m) \/ MatStep(m) \/ EndMat(m) \/ FailMat(m)
  \/ Crash \/ Edit \/ Tock

Spec == Init /\ [][Next]_vars

-----------------------------------------------------------------------------

Content(S) == {Empty, Mixed} \cup {Whole(v) : v \in S}

WorkOverlay == [active_work : SUBSET Unit, recent_claims : SUBSET Unit]

HostTypeOK ==
  /\ host \in {"down", "booting", "up"}
  /\ \A m \in Slot :
       /\ mat[m].pc \in {"idle", "read", "overlay", "overlay-open", "cmdb", "rename", "governance",
                         "governance-open", "compose", "output"}
       /\ mat[m].i \in DOMAIN Order
       /\ Len(mat[m].parts) <= Len(SegmentOrder)
  /\ \A s \in Segment : files[s][1] \in {"empty", "mixed", "whole"}
  /\ cmdb \in 0..nextRun - 1
  /\ projection[1] \in {"empty", "mixed", "whole"}
  /\ solo \in BOOLEAN /\ spoiled \in BOOLEAN

TypeOK == WorkTypeOK /\ SensorTypeOK /\ HostTypeOK

\* What the projection holds of a segment.
Part(s) == projection[2][CHOOSE i \in DOMAIN SegmentOrder : SegmentOrder[i] = s]

(* With nothing under way, and unless the last materialisation overlapped another *)
(* or failed, an agent reads every broker's current overlay, whole, and the CMDB  *)
(* file is the sensor's last envelope: no success goes unshown for good           *)
(* (host.rs:304-315).                                                             *)
QuietIsCurrent ==
  Quiet /\ NoDispatch /\ solo /\ ~spoiled =>
    /\ IsWhole(projection)
    /\ \A i \in DOMAIN SegmentOrder : IsWhole(projection[2][i])
    /\ \A b \in Broker : Part(b) = Whole(OverlayOf(b))
    /\ cmdb = sense.env

(* However materialisations overlap, what an agent reads as a whole when they are *)
(* over is no older than the first of them, and the CMDB file neither: "stale"    *)
(* has a bound (host.rs:304-306, materializer/mod.rs:105).                        *)
StaleBounded ==
  Quiet /\ ~spoiled =>
    /\ cmdb \in recent["sensor"]
    /\ IsWhole(projection) =>
         \A b \in Broker :
           IsWhole(Part(b)) => Part(b)[2] \in recent[b]
==============================================================================
