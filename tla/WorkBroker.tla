----------------------------- MODULE WorkBroker ------------------------------
(***************************************************************************)
(* The work broker (neurogrim-brokers, work_broker.rs): work units behind  *)
(* a mutex, the overlay curated from them, and the pipeline                *)
(* dispatch-work-unit, a claim followed by a refresh.                      *)
(*                                                                         *)
(* Without a project root the units live in memory.  With one ("live") the *)
(* refresh replaces them by what the backlog sensor reads, and it reads    *)
(* before it takes the lock.  Broker::tick does what the refresh does; no  *)
(* code of the repository calls it.                                        *)
(***************************************************************************)
EXTENDS Naturals, FiniteSets, BrokerClients

CONSTANTS
  Unit,     \* ids of work units
  NoUnit    \* what the sensor says when nothing is ready to implement

ASSUME WorkAssumption == NoUnit \notin Unit

VARIABLES
  live,     \* whether the broker has a project root
  backlog,  \* the item the backlog files on disk make the next ready one
  units,    \* the working state: unit id to status
  work,     \* the published overlay
  leaf,     \* per client, where its dispatch-work-unit is
  claims,   \* history: successful claims of each unit
  offers,   \* history: how often each unit was put up as ready
  nexts     \* history: next items since a sensor reading was last held by nobody

workVars == <<live, backlog, units, work, leaf, claims, offers, nexts>>

Status == {"Ready", "Claimed"}

NoLeaf == [pc |-> "idle", unit |-> NoUnit, read |-> NoUnit]

LeafAt(c, pc) == leaf[c].pc = pc

LeafTo(c, pc) == leaf' = [leaf EXCEPT ![c].pc = pc]

\* curate_overlay.
Curate(u) ==
  [active_work   |-> {x \in DOMAIN u : u[x] = "Ready"},
   recent_claims |-> {x \in DOMAIN u : u[x] = "Claimed"}]

\* project_state_from_sensor: the one next item, or nothing.
Project(item) == [x \in {item} \ {NoUnit} |-> "Ready"]

\* The units a broker starts with: what its constructor was given, or the sensor's.
InitialUnits == IF live THEN Project(backlog) ELSE [x \in Unit |-> "Ready"]

Offered(u) == [x \in Unit |-> IF x \in DOMAIN u THEN 1 ELSE 0]

WorkBoot ==
  /\ units' = InitialUnits
  /\ work' = Curate(InitialUnits)
  /\ leaf' = [c \in Client |-> NoLeaf]
  /\ claims' = [x \in Unit |-> 0]
  /\ offers' = Offered(InitialUnits)
  /\ nexts' = {backlog}
  /\ UNCHANGED <<live, backlog>>

WorkInit ==
  /\ live \in BOOLEAN
  /\ backlog \in IF live THEN Unit \cup {NoUnit} ELSE {NoUnit}
  /\ units = InitialUnits
  /\ work = Curate(InitialUnits)
  /\ leaf = [c \in Client |-> NoLeaf]
  /\ claims = [x \in Unit |-> 0]
  /\ offers = Offered(InitialUnits)
  /\ nexts = {backlog}

\* The runner admits dispatch-work-unit: its one precondition, that the overlay
\* has the key active_work, always holds.
StartClaim(c, u) ==
  /\ LeafAt(c, "idle")
  /\ leaf' = [leaf EXCEPT ![c] = [NoLeaf EXCEPT !.pc = "claim", !.unit = u]]
  /\ UNCHANGED <<live, backlog, units, work, claims, offers, nexts>>

\* Seeded fault: a claimed unit can be claimed.
IsListed(u) == u \in DOMAIN units

IsReady(u) == u \in DOMAIN units /\ units[u] = "Ready"

\* claim_work_unit, under the lock.
Claim(c) ==
  /\ LeafAt(c, "claim")
  /\ IsReady(leaf[c].unit)
  /\ units' = [units EXCEPT ![leaf[c].unit] = "Claimed"]
  /\ claims' = [claims EXCEPT ![leaf[c].unit] = @ + 1]
  /\ LeafTo(c, "refresh")
  /\ UNCHANGED <<live, backlog, work, offers, nexts>>

\* ... which refuses a unit it does not find or that is not ready: the dispatch
\* ends there.
RefuseClaim(c) ==
  /\ LeafAt(c, "claim")
  /\ ~IsReady(leaf[c].unit)
  /\ leaf' = [leaf EXCEPT ![c] = NoLeaf]
  /\ UNCHANGED <<live, backlog, units, work, claims, offers, nexts>>

\* Seeded fault: the last projection serves as a cache of the sensor.
NextReadyCached ==
  IF DOMAIN units = {} THEN backlog ELSE CHOOSE x \in DOMAIN units : TRUE

\* What the sensor reads.
NextReady == backlog

Readers == {c \in Client : LeafAt(c, "project")}

\* refresh_overlay reads the sensor ...
ReadBacklog(c) ==
  /\ live
  /\ LeafAt(c, "refresh")
  /\ leaf' = [leaf EXCEPT ![c].pc = "project", ![c].read = NextReady]
  /\ nexts' = IF Readers = {} THEN {backlog} ELSE nexts
  /\ UNCHANGED <<live, backlog, units, work, claims, offers>>

\* Seeded fault: the overlay is published and the state left as it was.
ReplaceOverlayOnly(c) ==
  /\ LeafAt(c, "project")
  /\ work' = Curate(Project(leaf[c].read))
  /\ offers' = [x \in Unit |-> offers[x] + (IF x = leaf[c].read THEN 1 ELSE 0)]
  /\ LeafTo(c, "end")
  /\ UNCHANGED <<live, backlog, units, claims, nexts>>

\* ... and then, under the lock, replaces the state and publishes the overlay.
ReplaceUnits(c) ==
  /\ LeafAt(c, "project")
  /\ units' = Project(leaf[c].read)
  /\ work' = Curate(units')
  /\ offers' = [x \in Unit |-> offers[x] + (IF x \in DOMAIN units' THEN 1 ELSE 0)]
  /\ LeafTo(c, "end")
  /\ UNCHANGED <<live, backlog, claims, nexts>>

\* In memory it publishes what the claims have made of the state.
RefreshOverlay(c) ==
  /\ ~live
  /\ LeafAt(c, "refresh")
  /\ work' = Curate(units)
  /\ LeafTo(c, "end")
  /\ UNCHANGED <<live, backlog, units, claims, offers, nexts>>

\* The dispatch has succeeded and returns to its caller.
EndClaim(c) ==
  /\ LeafAt(c, "end")
  /\ leaf' = [leaf EXCEPT ![c] = NoLeaf]
  /\ UNCHANGED <<live, backlog, units, work, claims, offers, nexts>>

WorkStep(c) ==
  \/ Claim(c) \/ RefuseClaim(c)
  \/ ReadBacklog(c) \/ ReplaceUnits(c) \/ RefreshOverlay(c)

\* Somebody edits the backlog files.
EditBacklog(item) ==
  /\ live
  /\ item # backlog
  /\ backlog' = item
  /\ nexts' = nexts \cup {item}
  /\ UNCHANGED <<live, units, work, leaf, claims, offers>>

-----------------------------------------------------------------------------

WorkTypeOK ==
  /\ live \in BOOLEAN
  /\ backlog \in Unit \cup {NoUnit}
  /\ DOMAIN units \subseteq Unit
  /\ \A x \in DOMAIN units : units[x] \in Status
  /\ work \in [active_work : SUBSET Unit, recent_claims : SUBSET Unit]
  /\ leaf \in [Client -> [pc : {"idle", "claim", "refresh", "project", "end"},
                          unit : Unit \cup {NoUnit}, read : Unit \cup {NoUnit}]]
  /\ claims \in [Unit -> Nat]
  /\ offers \in [Unit -> Nat]
  /\ nexts \subseteq Unit \cup {NoUnit}

(* A unit is claimed at most once for each time it was put up as ready, however  *)
(* the dispatches interleave: once ever in memory, and with a project root once  *)
(* a projection from the sensor (work_broker.rs:313-344 against 345-359).        *)
ClaimedOncePerOffer == \A u \in Unit : claims[u] <= offers[u]

(* The overlay differs from the working state only while a dispatch is between   *)
(* its claim and the end of its refresh: none leaves a claim unpublished, and no *)
(* refresh publishes an older state over a newer one (work_broker.rs:339-357).   *)
OverlayFollows ==
  work # Curate(units) =>
    \E c \in Client : LeafAt(c, "refresh") \/ LeafAt(c, "project")

(* With a project root and no sensor reading held, the overlay shows nothing     *)
(* that was not the next item at some time since the first of the readings that  *)
(* overlapped the last one: a refresh may be overtaken, but only by refreshes it *)
(* overlapped (work_broker.rs:347-352).                                          *)
ShownSinceReading ==
  live /\ Readers = {} =>
    IF work.active_work = {} THEN NoUnit \in nexts ELSE work.active_work \subseteq nexts
==============================================================================
