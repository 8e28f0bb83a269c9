--------------------------- MODULE BrokerHostProofs ---------------------------
(***************************************************************************)
(* Theorems about BrokerHost, for every set of clients, materialisation    *)
(* slots and work units: what the work broker promises about claims and    *)
(* its overlay, and what an agent reads in the materialised files.         *)
(***************************************************************************)
EXTENDS BrokerHost, FiniteSetTheorems, TLAPS

-----------------------------------------------------------------------------
(* The work broker within the host. *)

WorkMove ==
  \/ WorkBoot
  \/ \E c \in Client, u \in Unit : StartClaim(c, u)
  \/ \E c \in Client : WorkStep(c) \/ EndClaim(c)
  \/ \E item \in Unit \cup {NoUnit} : EditBacklog(item)

\* Nothing but the work broker's own operations touches its state.
LEMMA WorkMoves ==
  ASSUME [Next]_vars
  PROVE  WorkMove \/ UNCHANGED workVars
<1>1. ASSUME NEW c \in Client, Dispatch(c)
      PROVE  WorkMove \/ UNCHANGED workVars
  BY <1>1 DEF Dispatch, WorkMove
<1>2. ASSUME NEW c \in Client, WorkLeaf(c) \/ SensorLeaf(c)
      PROVE  WorkMove \/ UNCHANGED workVars
  BY <1>2 DEF WorkLeaf, SensorLeaf, WorkMove
<1>3. ASSUME NEW c \in Client, NEW m \in Slot, Complete(c, m)
      PROVE  WorkMove \/ UNCHANGED workVars
  BY <1>3 DEF Complete, WorkMove
<1>4. ASSUME NEW m \in Slot, Boot(m)
      PROVE  WorkMove
  BY <1>4 DEF Boot, WorkMove
<1>5. ASSUME NEW m \in Slot, HostTick(m) \/ MatStep(m) \/ EndMat(m) \/ FailMat(m)
      PROVE  UNCHANGED workVars
  BY <1>5 DEF HostTick, MatStep, EndMat, FailMat
<1>6. CASE Edit
  BY <1>6 DEF Edit, WorkMove
<1>7. CASE Crash \/ Tock \/ UNCHANGED vars
  BY <1>7 DEF Crash, Tock, vars
<1> QED
  BY <1>1, <1>2, <1>3, <1>4, <1>5, <1>6, <1>7 DEF Next

LeafType == [pc : {"idle", "claim", "refresh", "project", "end"},
             unit : Unit \cup {NoUnit}, read : Unit \cup {NoUnit}]

\* curate_overlay of any working state is an overlay.
LEMMA CurateType ==
  ASSUME NEW u, DOMAIN u \subseteq Unit
  PROVE  Curate(u) \in [active_work : SUBSET Unit, recent_claims : SUBSET Unit]
  BY DEF Curate

\* The sensor's projection offers the next item, if there is one, as ready.
LEMMA ProjectFacts ==
  ASSUME NEW item \in Unit \cup {NoUnit}
  PROVE  /\ DOMAIN Project(item) = {item} \ {NoUnit}
         /\ DOMAIN Project(item) \subseteq Unit
         /\ \A x \in DOMAIN Project(item) : Project(item)[x] = "Ready"
         /\ Curate(Project(item)).active_work = {item} \ {NoUnit}
  BY DEF Project, Curate

LEMMA InitialFacts ==
  ASSUME WorkTypeOK \/ (backlog \in Unit \cup {NoUnit})
  PROVE  /\ DOMAIN InitialUnits \subseteq Unit
         /\ \A x \in DOMAIN InitialUnits : InitialUnits[x] = "Ready"
         /\ live => InitialUnits = Project(backlog)
  BY DEF InitialUnits, Project, WorkTypeOK

LEMMA WorkTypeInit ==
  ASSUME WorkInit
  PROVE  WorkTypeOK
<1>1. backlog \in Unit \cup {NoUnit} /\ live \in BOOLEAN
  BY DEF WorkInit
<1>2. DOMAIN units \subseteq Unit /\ \A x \in DOMAIN units : units[x] = "Ready"
  BY <1>1, InitialFacts DEF WorkInit
<1>3. work \in [active_work : SUBSET Unit, recent_claims : SUBSET Unit]
  BY <1>2, CurateType DEF WorkInit
<1>4. leaf \in [Client -> LeafType]
  BY DEF WorkInit, NoLeaf, LeafType
<1>5. claims \in [Unit -> Nat] /\ offers \in [Unit -> Nat]
  BY DEF WorkInit, Offered
<1>6. nexts \subseteq Unit \cup {NoUnit}
  BY <1>1 DEF WorkInit
<1> QED
  BY <1>1, <1>2, <1>3, <1>4, <1>5, <1>6 DEF WorkTypeOK, LeafType, Status

LEMMA WorkTypeStep ==
  ASSUME WorkTypeOK, WorkMove
  PROVE  WorkTypeOK'
<1> USE DEF LeafType
<1>0. leaf \in [Client -> LeafType]
  BY DEF WorkTypeOK
<1>1. CASE WorkBoot
  <2>1. DOMAIN InitialUnits \subseteq Unit /\ \A x \in DOMAIN InitialUnits : InitialUnits[x] = "Ready"
    BY InitialFacts
  <2>2. units' = InitialUnits /\ work' = Curate(InitialUnits) /\ claims' = [x \in Unit |-> 0]
        /\ offers' = Offered(InitialUnits) /\ nexts' = {backlog} /\ leaf' = [c \in Client |-> NoLeaf]
        /\ live' = live /\ backlog' = backlog
    BY <1>1 DEF WorkBoot
  <2>3. work' \in [active_work : SUBSET Unit, recent_claims : SUBSET Unit]
    BY <2>1, <2>2, CurateType
  <2>4. leaf' \in [Client -> LeafType]
    BY <2>2 DEF NoLeaf
  <2>5. claims' \in [Unit -> Nat] /\ offers' \in [Unit -> Nat]
    BY <2>2 DEF Offered
  <2> QED
    BY <2>1, <2>2, <2>3, <2>4, <2>5 DEF WorkTypeOK, Status
<1>2. ASSUME NEW c \in Client, NEW u \in Unit, StartClaim(c, u)
      PROVE  WorkTypeOK'
  BY <1>0, <1>2 DEF StartClaim, WorkTypeOK, NoLeaf
<1>3. ASSUME NEW c \in Client, Claim(c)
      PROVE  WorkTypeOK'
  <2>1. leaf' \in [Client -> LeafType]
    BY <1>0, <1>3 DEF Claim, LeafTo
  <2>2. leaf[c].unit \in DOMAIN units /\ leaf[c].unit \in Unit
    BY <1>3 DEF Claim, IsReady, WorkTypeOK
  <2>3. claims' \in [Unit -> Nat]
    BY <1>3, <2>2 DEF Claim, WorkTypeOK
  <2>4. DOMAIN units' \subseteq Unit /\ \A x \in DOMAIN units' : units'[x] \in Status
    BY <1>3, <2>2 DEF Claim, WorkTypeOK, Status
  <2> QED
    BY <1>3, <2>1, <2>3, <2>4 DEF Claim, WorkTypeOK
<1>4. ASSUME NEW c \in Client, RefuseClaim(c) \/ EndClaim(c)
      PROVE  WorkTypeOK'
  BY <1>0, <1>4 DEF RefuseClaim, EndClaim, WorkTypeOK, NoLeaf
<1>5. ASSUME NEW c \in Client, ReadBacklog(c)
      PROVE  WorkTypeOK'
  <2>1. /\ backlog \in Unit \cup {NoUnit} /\ leaf[c] \in LeafType
        /\ leaf' = [leaf EXCEPT ![c].pc = "project", ![c].read = backlog]
    BY <1>0, <1>5 DEF ReadBacklog, NextReady, WorkTypeOK
  <2> DEFINE l == [leaf[c] EXCEPT !.pc = "project", !.read = backlog]
  <2>2. l \in LeafType /\ leaf' = [leaf EXCEPT ![c] = l]
    BY <1>0, <2>1
  <2> HIDE DEF l
  <2>3. leaf' \in [Client -> LeafType]
    BY <1>0, <2>2
  <2> QED
    BY <1>5, <2>3 DEF ReadBacklog, WorkTypeOK
<1>6. ASSUME NEW c \in Client, ReplaceUnits(c)
      PROVE  WorkTypeOK'
  <2>1. leaf' \in [Client -> LeafType]
    BY <1>0, <1>6 DEF ReplaceUnits, LeafTo
  <2>2. leaf[c].read \in Unit \cup {NoUnit}
    BY <1>0
  <2>3. DOMAIN units' \subseteq Unit /\ \A x \in DOMAIN units' : units'[x] = "Ready"
    BY <1>6, <2>2, ProjectFacts DEF ReplaceUnits
  <2>4. work' \in [active_work : SUBSET Unit, recent_claims : SUBSET Unit]
    BY <1>6, <2>3, CurateType DEF ReplaceUnits
  <2>5. offers' \in [Unit -> Nat]
    BY <1>6 DEF ReplaceUnits, WorkTypeOK
  <2> QED
    BY <1>6, <2>1, <2>3, <2>4, <2>5 DEF ReplaceUnits, WorkTypeOK, Status
<1>7. ASSUME NEW c \in Client, RefreshOverlay(c)
      PROVE  WorkTypeOK'
  <2>1. leaf' \in [Client -> LeafType]
    BY <1>0, <1>7 DEF RefreshOverlay, LeafTo
  <2>2. work' \in [active_work : SUBSET Unit, recent_claims : SUBSET Unit]
    BY <1>7, CurateType DEF RefreshOverlay, WorkTypeOK
  <2> QED
    BY <1>7, <2>1, <2>2 DEF RefreshOverlay, WorkTypeOK
<1>8. ASSUME NEW item \in Unit \cup {NoUnit}, EditBacklog(item)
      PROVE  WorkTypeOK'
  BY <1>8 DEF EditBacklog, WorkTypeOK
<1> QED
  BY <1>1, <1>2, <1>3, <1>4, <1>5, <1>6, <1>7, <1>8 DEF WorkMove, WorkStep

\* Every variable of the work broker keeps its type, whatever the host does around it.
THEOREM WorkTypeCorrect == Spec => []WorkTypeOK
<1>1. Init => WorkTypeOK
  BY WorkTypeInit DEF Init
<1>2. WorkTypeOK /\ [Next]_vars => WorkTypeOK'
  <2> SUFFICES ASSUME WorkTypeOK, [Next]_vars
               PROVE  WorkTypeOK'
    OBVIOUS
  <2>1. CASE WorkMove
    BY <2>1, WorkTypeStep
  <2>2. CASE UNCHANGED workVars
    BY <2>2 DEF workVars, WorkTypeOK
  <2> QED
    BY <2>1, <2>2, WorkMoves
<1> QED
  BY <1>1, <1>2, PTL DEF Spec

-----------------------------------------------------------------------------
(* Claims.  A unit that is ready was offered once more than it was claimed, *)
(* so that a claim, which needs a ready unit, has room for one more.        *)

ClaimInv ==
  /\ ClaimedOncePerOffer
  /\ \A u \in DOMAIN units : units[u] = "Ready" => claims[u] < offers[u]

\* A claim is covered by an offer, and a projection or a boot offers what it makes ready.
LEMMA ClaimStep ==
  ASSUME WorkTypeOK, ClaimInv, WorkMove \/ UNCHANGED workVars
  PROVE  ClaimInv'
<1> USE DEF ClaimInv, ClaimedOncePerOffer
<1>0. claims \in [Unit -> Nat] /\ offers \in [Unit -> Nat] /\ DOMAIN units \subseteq Unit
      /\ leaf \in [Client -> LeafType]
  BY DEF WorkTypeOK, LeafType
<1>1. CASE WorkBoot
  <2>1. DOMAIN InitialUnits \subseteq Unit
    BY InitialFacts
  <2>2. units' = InitialUnits /\ claims' = [x \in Unit |-> 0]
        /\ offers' = [x \in Unit |-> IF x \in DOMAIN InitialUnits THEN 1 ELSE 0]
    BY <1>1 DEF WorkBoot, Offered
  <2> QED
    BY <2>1, <2>2
<1>2. ASSUME NEW c \in Client, Claim(c)
      PROVE  ClaimInv'
  <2> DEFINE u == leaf[c].unit
  <2>1. u \in DOMAIN units /\ units[u] = "Ready" /\ u \in Unit
    BY <1>0, <1>2 DEF Claim, IsReady
  <2>2. units' = [units EXCEPT ![u] = "Claimed"] /\ claims' = [claims EXCEPT ![u] = @ + 1]
        /\ offers' = offers
    BY <1>2 DEF Claim
  <2> HIDE DEF u
  <2>3. \A x \in Unit : claims'[x] = IF x = u THEN claims[x] + 1 ELSE claims[x]
    BY <1>0, <2>1, <2>2
  <2>4. DOMAIN units' = DOMAIN units
        /\ \A x \in DOMAIN units : units'[x] = IF x = u THEN "Claimed" ELSE units[x]
    BY <2>1, <2>2
  <2>5. claims[u] < offers[u]
    BY <2>1
  <2> QED
    BY <1>0, <2>2, <2>3, <2>4, <2>5
<1>3. ASSUME NEW c \in Client, ReplaceUnits(c)
      PROVE  ClaimInv'
  <2>1. DOMAIN units' \subseteq Unit
    BY <1>0, <1>3, ProjectFacts DEF ReplaceUnits, LeafType
  <2>2. claims' = claims
        /\ offers' = [x \in Unit |-> offers[x] + (IF x \in DOMAIN units' THEN 1 ELSE 0)]
    BY <1>3 DEF ReplaceUnits
  <2> QED
    BY <1>0, <2>1, <2>2
<1>4. CASE UNCHANGED <<units, claims, offers>>
  BY <1>4
<1> QED
  BY <1>1, <1>2, <1>3, <1>4 DEF WorkMove, WorkStep, StartClaim, RefuseClaim, EndClaim, ReadBacklog,
     RefreshOverlay, EditBacklog, workVars

\* A unit is claimed at most once for each time it was put up as ready, for any number
\* of clients and units (claim_work_unit against refresh_overlay, work_broker.rs).
THEOREM ClaimSafety == Spec => []ClaimedOncePerOffer
<1>1. Init => ClaimInv
  <2> SUFFICES ASSUME Init
               PROVE  ClaimInv
    OBVIOUS
  <2>1. DOMAIN units \subseteq Unit
    BY WorkTypeInit DEF Init, WorkTypeOK
  <2> QED
    BY <2>1 DEF Init, WorkInit, ClaimInv, ClaimedOncePerOffer, Offered
<1>2. WorkTypeOK /\ ClaimInv /\ [Next]_vars => ClaimInv'
  BY ClaimStep, WorkMoves
<1>3. ClaimInv => ClaimedOncePerOffer
  BY DEF ClaimInv
<1> QED
  BY <1>1, <1>2, <1>3, WorkTypeCorrect, PTL DEF Spec

-----------------------------------------------------------------------------
(* The overlay against the working state. *)

Refreshing == \E c \in Client : LeafAt(c, "refresh") \/ LeafAt(c, "project")

\* A claim leaves its client on the way to a refresh, and who leaves that way publishes
\* the state of that moment.
LEMMA FollowStep ==
  ASSUME WorkTypeOK, OverlayFollows, WorkMove \/ UNCHANGED workVars
  PROVE  OverlayFollows'
<1> USE DEF OverlayFollows, LeafAt, LeafType
<1>0. leaf \in [Client -> LeafType]
  BY DEF WorkTypeOK
<1>1. CASE WorkBoot
  BY <1>1 DEF WorkBoot
<1>2. ASSUME NEW c \in Client, NEW u \in Unit, StartClaim(c, u)
      PROVE  OverlayFollows'
  <2>1. \A d \in Client : d # c => leaf'[d] = leaf[d]
    BY <1>0, <1>2 DEF StartClaim
  <2> QED
    BY <1>2, <2>1 DEF StartClaim
<1>3. ASSUME NEW c \in Client, Claim(c)
      PROVE  OverlayFollows'
  <2>1. leaf'[c].pc = "refresh"
    BY <1>0, <1>3 DEF Claim, LeafTo
  <2> QED
    BY <2>1
<1>4. ASSUME NEW c \in Client, RefuseClaim(c) \/ EndClaim(c)
      PROVE  OverlayFollows'
  <2>1. \A d \in Client : d # c => leaf'[d] = leaf[d]
    BY <1>0, <1>4 DEF RefuseClaim, EndClaim
  <2> QED
    BY <1>4, <2>1 DEF RefuseClaim, EndClaim
<1>5. ASSUME NEW c \in Client, ReadBacklog(c)
      PROVE  OverlayFollows'
  <2>1. leaf'[c].pc = "project"
    BY <1>0, <1>5 DEF ReadBacklog
  <2> QED
    BY <2>1
<1>6. ASSUME NEW c \in Client, ReplaceUnits(c) \/ RefreshOverlay(c)
      PROVE  OverlayFollows'
  <2>1. work' = Curate(units)'
    BY <1>6 DEF ReplaceUnits, RefreshOverlay, Curate
  <2> QED
    BY <2>1
<1>7. CASE UNCHANGED <<work, units, leaf>>
  BY <1>7 DEF Curate
<1> QED
  BY <1>1, <1>2, <1>3, <1>4, <1>5, <1>6, <1>7 DEF WorkMove, WorkStep, EditBacklog, workVars

\* Whatever dispatches overlap, the overlay is what the working state makes of it unless a
\* dispatch is on its way from its claim to the end of its refresh (work_broker.rs).
THEOREM OverlaySafety == Spec => []OverlayFollows
<1>1. Init => OverlayFollows
  BY DEF Init, WorkInit, OverlayFollows
<1>2. WorkTypeOK /\ OverlayFollows /\ [Next]_vars => OverlayFollows'
  BY FollowStep, WorkMoves
<1> QED
  BY <1>1, <1>2, WorkTypeCorrect, PTL DEF Spec

-----------------------------------------------------------------------------
(* The overlay against the backlog.  Since the first of the readings that   *)
(* overlap now, every reading held is one of the next items of that time.   *)

ReadingInv ==
  live =>
    /\ backlog \in nexts
    /\ \A c \in Readers : leaf[c].read \in nexts
    /\ ShownSinceReading

LEMMA ReadingStep ==
  ASSUME WorkTypeOK, ReadingInv, WorkMove \/ UNCHANGED workVars
  PROVE  ReadingInv'
<1> USE DEF LeafType
<1>0. leaf \in [Client -> LeafType] /\ backlog \in Unit \cup {NoUnit}
  BY DEF WorkTypeOK
<1>a. /\ \A c : c \in Readers <=> c \in Client /\ leaf[c].pc = "project"
      /\ \A c : c \in Readers' <=> c \in Client /\ leaf'[c].pc = "project"
  BY DEF Readers, LeafAt
<1>b. SUFFICES ASSUME live'
               PROVE  /\ backlog' \in nexts'
                      /\ \A c \in Readers' : leaf'[c].read \in nexts'
                      /\ Readers' = {} => IF work'.active_work = {} THEN NoUnit \in nexts'
                                          ELSE work'.active_work \subseteq nexts'
  BY DEF ReadingInv, ShownSinceReading
<1>c. live => /\ backlog \in nexts
              /\ \A c \in Readers : leaf[c].read \in nexts
              /\ Readers = {} => IF work.active_work = {} THEN NoUnit \in nexts
                                 ELSE work.active_work \subseteq nexts
  BY DEF ReadingInv, ShownSinceReading
<1>1. CASE WorkBoot
  <2>1. leaf' = [c \in Client |-> NoLeaf] /\ nexts' = {backlog} /\ backlog' = backlog /\ live' = live
        /\ work' = Curate(InitialUnits)
    BY <1>1 DEF WorkBoot
  <2>2. work'.active_work = {backlog} \ {NoUnit}
    BY <1>0, <1>b, <2>1, ProjectFacts DEF InitialUnits
  <2>3. Readers' = {}
    BY <1>a, <2>1 DEF NoLeaf
  <2> QED
    BY <2>1, <2>2, <2>3
<1>2. ASSUME NEW c \in Client, leaf[c].pc # "project",
             leaf'[c].pc # "project", \A d \in Client : d # c => leaf'[d] = leaf[d],
             UNCHANGED <<live, backlog, work, nexts>>
      PROVE  ReadingInv'
  <2>1. Readers' = Readers /\ \A d \in Readers : leaf'[d] = leaf[d]
    BY <1>a, <1>2
  <2> QED
    BY <1>b, <1>c, <1>2, <2>1 DEF ReadingInv, ShownSinceReading
<1>3. ASSUME NEW c \in Client, NEW u \in Unit, StartClaim(c, u)
      PROVE  ReadingInv'
  <2>1. leaf[c].pc = "idle" /\ leaf'[c].pc = "claim" /\ \A d \in Client : d # c => leaf'[d] = leaf[d]
    BY <1>0, <1>3 DEF StartClaim, NoLeaf, LeafAt
  <2> QED
    BY <1>2, <1>3, <2>1 DEF StartClaim
<1>4. ASSUME NEW c \in Client, Claim(c) \/ RefuseClaim(c) \/ EndClaim(c)
      PROVE  ReadingInv'
  <2>1. leaf[c].pc \in {"claim", "end"} /\ leaf'[c].pc \in {"refresh", "idle"}
        /\ \A d \in Client : d # c => leaf'[d] = leaf[d]
    BY <1>0, <1>4 DEF Claim, RefuseClaim, EndClaim, LeafTo, NoLeaf, LeafAt
  <2> QED
    BY <1>2, <1>4, <2>1 DEF Claim, RefuseClaim, EndClaim
<1>5. ASSUME NEW c \in Client, ReadBacklog(c)
      PROVE  ReadingInv'
  <2>1. /\ \A d \in Client : d # c => leaf'[d] = leaf[d]
        /\ leaf'[c].pc = "project" /\ leaf'[c].read = backlog
        /\ nexts' = IF Readers = {} THEN {backlog} ELSE nexts
        /\ backlog' = backlog /\ live' = live
    BY <1>0, <1>5 DEF ReadBacklog, NextReady
  <2>2. Readers' = Readers \cup {c} /\ Readers' # {}
    BY <1>a, <2>1
  <2>3. backlog' \in nexts'
    BY <1>b, <1>c, <2>1
  <2>4. \A d \in Readers' : leaf'[d].read \in nexts'
    <3> SUFFICES ASSUME NEW d \in Readers', d # c
                 PROVE  leaf'[d].read \in nexts'
      BY <2>1, <2>3
    <3>1. d \in Readers /\ leaf'[d] = leaf[d]
      BY <1>a, <2>1, <2>2
    <3> QED
      BY <1>b, <1>c, <2>1, <3>1
  <2> QED
    BY <1>b, <2>2, <2>3, <2>4 DEF ReadingInv, ShownSinceReading
<1>6. ASSUME NEW c \in Client, ReplaceUnits(c)
      PROVE  ReadingInv'
  <2>1. /\ \A d \in Client : d # c => leaf'[d] = leaf[d]
        /\ leaf'[c].pc = "end" /\ c \in Readers
        /\ nexts' = nexts /\ backlog' = backlog /\ live' = live
    BY <1>0, <1>a, <1>6 DEF ReplaceUnits, LeafTo, LeafAt
  <2>2. leaf[c].read \in Unit \cup {NoUnit}
    BY <1>0
  <2>3. work'.active_work = {leaf[c].read} \ {NoUnit}
    BY <1>6, <2>2, ProjectFacts DEF ReplaceUnits
  <2>4. \A d \in Readers' : d \in Readers /\ leaf'[d] = leaf[d]
    BY <1>a, <2>1
  <2> QED
    BY <1>b, <1>c, <2>1, <2>3, <2>4 DEF ReadingInv, ShownSinceReading
<1>7. ASSUME NEW c \in Client, RefreshOverlay(c)
      PROVE  FALSE
  BY <1>b, <1>7 DEF RefreshOverlay
<1>8. ASSUME NEW item \in Unit \cup {NoUnit}, EditBacklog(item)
      PROVE  ReadingInv'
  <2>1. Readers' = Readers
    BY <1>a, <1>8 DEF EditBacklog
  <2> QED
    BY <1>b, <1>c, <1>8, <2>1 DEF EditBacklog, ReadingInv, ShownSinceReading
<1>9. CASE UNCHANGED workVars
  <2>1. Readers' = Readers
    BY <1>a, <1>9 DEF workVars
  <2> QED
    BY <1>b, <1>c, <1>9, <2>1 DEF workVars
<1> QED
  BY <1>b, <1>1, <1>3, <1>4, <1>5, <1>6, <1>7, <1>8, <1>9 DEF WorkMove, WorkStep, ReadingInv, ShownSinceReading

\* With a project root the overlay shows nothing that was not next in the backlog since the
\* first of the readings that overlapped the last one (refresh_overlay, work_broker.rs).
THEOREM ReadingSafety == Spec => []ShownSinceReading
<1>1. Init => ReadingInv
  <2> SUFFICES ASSUME Init, live
               PROVE  ReadingInv
    BY DEF ReadingInv
  <2>1. backlog \in Unit \cup {NoUnit} /\ nexts = {backlog} /\ leaf = [c \in Client |-> NoLeaf]
    BY DEF Init, WorkInit
  <2>2. work.active_work = {backlog} \ {NoUnit}
    BY <2>1, ProjectFacts DEF Init, WorkInit, InitialUnits
  <2> QED
    BY <2>1, <2>2 DEF ReadingInv, ShownSinceReading, Readers, LeafAt, NoLeaf
<1>2. WorkTypeOK /\ ReadingInv /\ [Next]_vars => ReadingInv'
  BY ReadingStep, WorkMoves
<1>3. ReadingInv => ShownSinceReading
  BY DEF ReadingInv, ShownSinceReading
<1> QED
  BY <1>1, <1>2, <1>3, WorkTypeCorrect, PTL DEF Spec

-----------------------------------------------------------------------------
(* Types of the sensor's overlay and of the materialisations. *)

SenseTypeOK ==
  /\ sense \in [env : Nat, count : Nat]
  /\ run \in [Client -> [pc : {"idle", "analyze", "instant", "enforce", "load", "swap", "end"},
                         env : Nat, now : Nat, count : Nat]]
  /\ nextRun \in Nat
  /\ clock \in Nat

MatPc == {"idle", "read", "overlay", "overlay-open", "cmdb", "rename", "governance",
          "governance-open", "compose", "output"}

Held == WorkOverlay \cup Nat

Text == {Empty, Mixed} \cup {Whole(v) : v \in Held}

MatType == [pc : MatPc, i : DOMAIN Order, held : Held, parts : Seq(Text)]

FileTypeOK ==
  /\ host \in {"down", "booting", "up"}
  /\ mat \in [Slot -> MatType]
  /\ files \in [Segment -> Text]
  /\ recent \in [Broker -> SUBSET Held]
  /\ solo \in BOOLEAN /\ spoiled \in BOOLEAN

\* A boot is the only thing under way while it lasts, and an idle slot holds nothing.
SlotInv ==
  /\ host = "down" => Busy = {}
  /\ host = "booting" => \A m, n \in Busy : m = n
  /\ solo => \A m, n \in Busy : m = n
  /\ \A m \in Slot : MatAt(m, "idle") => mat[m] = NoMat
  /\ \A m \in Slot : mat[m].pc \in {"cmdb", "rename"} => BrokerAt(m) = "sensor"
  /\ \A m \in Slot : mat[m].pc \notin {"compose", "output"} => mat[m].parts = <<>>
  /\ \A m \in Slot : MatAt(m, "output") => Len(mat[m].parts) = Len(SegmentOrder)
  /\ \A m \in Slot : Len(mat[m].parts) <= Len(SegmentOrder)

\* The sensor broker's moves within the host.
SenseMove ==
  \/ SensorBoot
  \/ \E c \in Client : StartRun(c) \/ SensorStep(c) \/ EndRun(c)
  \/ ClockTicks

LEMMA SenseMoves ==
  ASSUME [Next]_vars
  PROVE  SenseMove \/ UNCHANGED sensorVars
<1>1. ASSUME NEW c \in Client, Dispatch(c)
      PROVE  SenseMove \/ UNCHANGED sensorVars
  BY <1>1 DEF Dispatch, SenseMove
<1>2. ASSUME NEW c \in Client, WorkLeaf(c) \/ SensorLeaf(c)
      PROVE  SenseMove \/ UNCHANGED sensorVars
  BY <1>2 DEF WorkLeaf, SensorLeaf, SenseMove
<1>3. ASSUME NEW c \in Client, NEW m \in Slot, Complete(c, m)
      PROVE  SenseMove \/ UNCHANGED sensorVars
  BY <1>3 DEF Complete, SenseMove
<1>4. ASSUME NEW m \in Slot, Boot(m)
      PROVE  SenseMove
  BY <1>4 DEF Boot, SenseMove
<1>5. ASSUME NEW m \in Slot, HostTick(m) \/ MatStep(m) \/ EndMat(m) \/ FailMat(m)
      PROVE  UNCHANGED sensorVars
  BY <1>5 DEF HostTick, MatStep, EndMat, FailMat
<1>6. CASE Tock
  BY <1>6 DEF Tock, SenseMove
<1>7. CASE Crash \/ Edit \/ UNCHANGED vars
  BY <1>7 DEF Crash, Edit, vars
<1> QED
  BY <1>1, <1>2, <1>3, <1>4, <1>5, <1>6, <1>7 DEF Next

LEMMA SenseTypeInit ==
  ASSUME SensorInit
  PROVE  SenseTypeOK
  BY DEF SensorInit, SenseTypeOK, NoRun

LEMMA SenseTypeStep ==
  ASSUME SenseTypeOK, SenseMove \/ UNCHANGED sensorVars
  PROVE  SenseTypeOK'
<1> USE DEF SenseTypeOK
<1>1. CASE SensorBoot
  BY <1>1 DEF SensorBoot, NoRun
<1>2. ASSUME NEW c \in Client, StartRun(c) \/ FailAnalyze(c) \/ EndRun(c)
      PROVE  SenseTypeOK'
  BY <1>2 DEF StartRun, FailAnalyze, EndRun, RunTo, NoRun
<1>3. ASSUME NEW c \in Client, Analyze(c)
      PROVE  SenseTypeOK'
  <2>1. run' \in [Client -> [pc : {"idle", "analyze", "instant", "enforce", "load", "swap", "end"},
                             env : Nat, now : Nat, count : Nat]]
    <3> DEFINE pc == IF enforced THEN "instant" ELSE "load"
    <3>1. pc \in {"instant", "load"}
      OBVIOUS
    <3>2. run' = [run EXCEPT ![c].env = nextRun, ![c].pc = pc]
      BY <1>3 DEF Analyze
    <3> HIDE DEF pc
    <3> QED
      BY <3>1, <3>2
  <2> QED
    BY <1>3, <2>1 DEF Analyze
<1>4. ASSUME NEW c \in Client, TakeInstant(c)
      PROVE  SenseTypeOK'
  BY <1>4 DEF TakeInstant
<1>5. ASSUME NEW c \in Client, Enforce(c) \/ RefuseWrite(c)
      PROVE  SenseTypeOK'
  BY <1>5 DEF Enforce, RefuseWrite, NoRun
<1>6. ASSUME NEW c \in Client, LoadOverlay(c)
      PROVE  SenseTypeOK'
  BY <1>6 DEF LoadOverlay
<1>7. ASSUME NEW c \in Client, SwapOverlay(c)
      PROVE  SenseTypeOK'
  BY <1>7 DEF SwapOverlay, RunTo
<1>8. CASE ClockTicks \/ UNCHANGED sensorVars
  BY <1>8 DEF ClockTicks, sensorVars
<1> QED
  BY <1>1, <1>2, <1>3, <1>4, <1>5, <1>6, <1>7, <1>8 DEF SenseMove, SensorStep

LEMMA HeldOverlay ==
  ASSUME WorkTypeOK, SenseTypeOK
  PROVE  \A b \in Broker : OverlayOf(b) \in Held
  BY DEF WorkTypeOK, SenseTypeOK, OverlayOf, Held, WorkOverlay

-----------------------------------------------------------------------------
(* The moves of the host as its files and slots see them. *)

\* A dispatch that has published and whose callback has yet to run.
Pending == \E c \in Client : LeafAt(c, "end") \/ RunAt(c, "end")

Starts(m) ==
  /\ Begin(m)
  /\ UNCHANGED <<files, cmdb, projection>>
  /\ \/ host = "down" /\ host' = "booting"
     \/ host = "up" /\ host' = "up" /\ UNCHANGED <<work, sense>>

\* A dispatch that changes an overlay publishes it and is pending then.
Publishes ==
  /\ UNCHANGED <<host, mat, files, cmdb, projection, solo, spoiled>>
  /\ Published \/ (recent' = recent /\ UNCHANGED <<work, sense>>)
  /\ ~Pending' => ~Pending /\ UNCHANGED <<work, sense>>

\* Of the work broker's steps only a published overlay makes a dispatch pending, and none
\* ends its being so.
LEMMA WorkPends ==
  ASSUME WorkTypeOK, NEW c \in Client, WorkStep(c)
  PROVE  /\ \A d \in Client : LeafAt(d, "end") => LeafAt(d, "end")'
         /\ work' # work => LeafAt(c, "end")'
<1> USE DEF LeafAt, LeafType
<1>0. leaf \in [Client -> LeafType]
  BY DEF WorkTypeOK
<1>1. CASE Claim(c)
  BY <1>0, <1>1 DEF Claim, LeafTo
<1>2. CASE RefuseClaim(c)
  BY <1>0, <1>2 DEF RefuseClaim
<1>3. CASE ReadBacklog(c)
  BY <1>0, <1>3 DEF ReadBacklog
<1>4. CASE ReplaceUnits(c)
  BY <1>0, <1>4 DEF ReplaceUnits, LeafTo
<1>5. CASE RefreshOverlay(c)
  BY <1>0, <1>5 DEF RefreshOverlay, LeafTo
<1> QED
  BY <1>1, <1>2, <1>3, <1>4, <1>5 DEF WorkStep

LEMMA SensePends ==
  ASSUME SenseTypeOK, NEW c \in Client, SensorStep(c)
  PROVE  /\ \A d \in Client : RunAt(d, "end") => RunAt(d, "end")'
         /\ sense' # sense => RunAt(c, "end")'
<1> USE DEF RunAt, SenseTypeOK
<1>1. CASE Analyze(c)
  BY <1>1 DEF Analyze
<1>2. CASE FailAnalyze(c) \/ TakeInstant(c)
  BY <1>2 DEF FailAnalyze, TakeInstant
<1>3. CASE Enforce(c) \/ RefuseWrite(c)
  BY <1>3 DEF Enforce, RefuseWrite
<1>4. CASE LoadOverlay(c)
  BY <1>4 DEF LoadOverlay
<1>5. CASE SwapOverlay(c)
  BY <1>5 DEF SwapOverlay, RunTo
<1> QED
  BY <1>1, <1>2, <1>3, <1>4, <1>5 DEF SensorStep

LEMMA FileMoves ==
  ASSUME WorkTypeOK, SenseTypeOK, [Next]_vars
  PROVE  \/ \E m \in Slot : Starts(m) \/ MatStep(m) \/ EndMat(m) \/ FailMat(m)
         \/ Publishes \/ Crash
<1>0. leaf \in [Client -> LeafType]
      /\ run \in [Client -> [pc : {"idle", "analyze", "instant", "enforce", "load", "swap", "end"},
                             env : Nat, now : Nat, count : Nat]]
  BY DEF WorkTypeOK, SenseTypeOK, LeafType
<1>1. ASSUME NEW c \in Client, Dispatch(c)
      PROVE  Publishes
  <2>1. CASE UNCHANGED sensorVars /\ \E u \in Unit : StartClaim(c, u)
    <3>1. PICK u \in Unit : StartClaim(c, u)
      BY <2>1
    <3>2. \A d \in Client : LeafAt(d, "end") => LeafAt(d, "end")'
      BY <1>0, <3>1 DEF StartClaim, LeafAt, LeafType
    <3> QED
      BY <1>1, <2>1, <3>1, <3>2 DEF Dispatch, StartClaim, Publishes, Pending, sensorVars, RunAt
  <2>2. CASE UNCHANGED workVars /\ StartRun(c)
    <3>1. \A d \in Client : RunAt(d, "end") => RunAt(d, "end")'
      BY <1>0, <2>2 DEF StartRun, RunTo, RunAt
    <3> QED
      BY <1>1, <2>2, <3>1 DEF Dispatch, StartRun, Publishes, Pending, workVars, LeafAt
  <2> QED
    BY <1>1, <2>1, <2>2 DEF Dispatch
<1>2. ASSUME NEW c \in Client, WorkLeaf(c)
      PROVE  Publishes
  <2>1. /\ \A d \in Client : LeafAt(d, "end") => LeafAt(d, "end")'
        /\ work' # work => LeafAt(c, "end")'
    BY <1>2, WorkPends DEF WorkLeaf
  <2>2. UNCHANGED <<host, mat, files, cmdb, projection, solo, spoiled>> /\ Published
        /\ sense' = sense /\ run' = run
    BY <1>2 DEF WorkLeaf, sensorVars
  <2>3. ~Pending' => ~Pending /\ UNCHANGED <<work, sense>>
    BY <2>1, <2>2 DEF Pending, RunAt
  <2> QED
    BY <2>2, <2>3 DEF Publishes
<1>3. ASSUME NEW c \in Client, SensorLeaf(c)
      PROVE  Publishes
  <2>1. /\ \A d \in Client : RunAt(d, "end") => RunAt(d, "end")'
        /\ sense' # sense => RunAt(c, "end")'
    BY <1>3, SensePends DEF SensorLeaf
  <2>2. UNCHANGED <<host, mat, files, cmdb, projection, solo, spoiled>> /\ Published
        /\ work' = work /\ leaf' = leaf
    BY <1>3 DEF SensorLeaf, workVars
  <2>3. ~Pending' => ~Pending /\ UNCHANGED <<work, sense>>
    BY <2>1, <2>2 DEF Pending, LeafAt
  <2> QED
    BY <2>2, <2>3 DEF Publishes
<1>4. ASSUME NEW c \in Client, NEW m \in Slot, Complete(c, m)
      PROVE  Starts(m)
  BY <1>4 DEF Complete, Starts, EndClaim, EndRun, workVars, sensorVars
<1>5. ASSUME NEW m \in Slot, Boot(m) \/ HostTick(m)
      PROVE  Starts(m)
  BY <1>5 DEF Boot, HostTick, Starts, workVars, sensorVars
<1>6. CASE Edit
  BY <1>6 DEF Edit, EditBacklog, Publishes, Pending, LeafAt, RunAt, sensorVars
<1>7. CASE Tock
  BY <1>7 DEF Tock, ClockTicks, Publishes, Pending, LeafAt, RunAt, workVars
<1>8. CASE UNCHANGED vars
  BY <1>8 DEF Publishes, Pending, LeafAt, RunAt, vars, workVars, sensorVars, hostVars
<1> QED
  BY <1>1, <1>2, <1>3, <1>4, <1>5, <1>6, <1>7, <1>8 DEF Next

-----------------------------------------------------------------------------
(* What each step makes of its slot, and that it leaves the others alone. *)

Others(m) == \A n \in Slot : n # m => mat'[n] = mat[n]

Becomes(m, pc, i, held, parts) ==
  /\ mat' \in [Slot -> MatType]
  /\ Others(m)
  /\ mat'[m].pc = pc /\ mat'[m].i = i /\ mat'[m].held = held /\ mat'[m].parts = parts

LEMMA SlotSet ==
  ASSUME FileTypeOK, NEW m \in Slot, NEW r \in MatType, mat' = [mat EXCEPT ![m] = r]
  PROVE  Becomes(m, r.pc, r.i, r.held, r.parts)
  BY DEF FileTypeOK, Becomes, Others

LEMMA OrderFacts ==
  /\ Len(Order) \in Nat /\ DOMAIN Order = 1 .. Len(Order) /\ 1 \in DOMAIN Order
  /\ \A i \in DOMAIN Order : Order[i] \in Broker
  /\ \A b \in Broker : \E i \in DOMAIN Order : Order[i] = b
  /\ \A i, j \in DOMAIN Order : Order[i] = Order[j] => i = j
  /\ Len(SegmentOrder) \in Nat /\ DOMAIN SegmentOrder = 1 .. Len(SegmentOrder)
  /\ \A i \in DOMAIN SegmentOrder : SegmentOrder[i] \in Segment
  /\ \A s \in Segment : \E i \in DOMAIN SegmentOrder : SegmentOrder[i] = s
<1>1. Len(Order) \in Nat /\ DOMAIN Order = 1 .. Len(Order)
      /\ Len(SegmentOrder) \in Nat /\ DOMAIN SegmentOrder = 1 .. Len(SegmentOrder)
  BY HostAssumption
<1>2. \A b \in Broker : \E i \in DOMAIN Order : Order[i] = b
  BY HostAssumption
<1>3. "work" \in Broker
  BY DEF Broker
<1>4. 1 \in DOMAIN Order
  BY <1>1, <1>2, <1>3
<1> QED
  BY <1>1, <1>2, <1>4, HostAssumption

LEMMA NoMatType ==
  /\ NoMat \in MatType /\ [NoMat EXCEPT !.pc = "read"] \in MatType
  /\ NoMat.pc = "idle" /\ NoMat.i = 1 /\ NoMat.held = 0 /\ NoMat.parts = <<>>
<1>1. 0 \in Held
  BY DEF Held
<1>2. <<>> \in Seq(Text)
  OBVIOUS
<1> QED
  BY <1>1, <1>2, OrderFacts DEF NoMat, MatType, MatPc

LEMMA StartsSlot ==
  ASSUME FileTypeOK, NEW m \in Slot, Starts(m)
  PROVE  Becomes(m, "read", 1, 0, <<>>)
<1>1. mat' = [mat EXCEPT ![m] = [NoMat EXCEPT !.pc = "read"]]
  BY DEF Starts, Begin
<1> QED
  BY <1>1, SlotSet, NoMatType DEF NoMat

LEMMA IdleSlot ==
  ASSUME FileTypeOK, NEW m \in Slot, mat' = [mat EXCEPT ![m] = NoMat]
  PROVE  Becomes(m, "idle", 1, 0, <<>>) /\ mat'[m] = NoMat
  BY SlotSet, NoMatType DEF FileTypeOK

\* The record of m with another program counter, and with another text held.
LEMMA SlotPc ==
  ASSUME FileTypeOK, NEW m \in Slot, NEW pc \in MatPc, mat' = [mat EXCEPT ![m].pc = pc]
  PROVE  Becomes(m, pc, mat[m].i, mat[m].held, mat[m].parts)
  BY DEF FileTypeOK, Becomes, Others, MatType

LEMMA SlotHeld ==
  ASSUME FileTypeOK, NEW m \in Slot, NEW pc \in MatPc, NEW held \in Held,
         mat' = [mat EXCEPT ![m].pc = pc, ![m].held = held]
  PROVE  Becomes(m, pc, mat[m].i, held, mat[m].parts)
  BY DEF FileTypeOK, Becomes, Others, MatType

\* The next broker's turn, or after the last one's the governance segment.
LEMMA SlotNext ==
  ASSUME FileTypeOK, NEW m \in Slot, mat' = [mat EXCEPT ![m] = NextBroker(@)]
  PROVE  \/ /\ mat[m].i < Len(Order)
            /\ Becomes(m, "read", mat[m].i + 1, 0, mat[m].parts)
         \/ /\ mat[m].i = Len(Order)
            /\ Becomes(m, "governance", 1, 0, mat[m].parts)
<1>1. mat[m] \in MatType /\ 0 \in Held /\ mat[m].i \in 1 .. Len(Order)
  BY OrderFacts DEF FileTypeOK, MatType, Held
<1>2. mat' = [mat EXCEPT ![m] = NextBroker(mat[m])]
  BY DEF FileTypeOK
<1>3. CASE mat[m].i < Len(Order)
  <2> DEFINE r == [mat[m] EXCEPT !.pc = "read", !.i = @ + 1, !.held = 0]
  <2>1. mat[m].i + 1 \in DOMAIN Order
    BY <1>1, <1>3, OrderFacts
  <2>2. r \in MatType /\ r.pc = "read" /\ r.i = mat[m].i + 1 /\ r.held = 0 /\ r.parts = mat[m].parts
    BY <1>1, <2>1 DEF MatType, MatPc
  <2>3. mat' = [mat EXCEPT ![m] = r]
    BY <1>2, <1>3 DEF NextBroker
  <2> HIDE DEF r
  <2> QED
    BY <1>3, <2>2, <2>3, SlotSet
<1>4. CASE ~(mat[m].i < Len(Order))
  <2> DEFINE r == [mat[m] EXCEPT !.pc = "governance", !.i = 1, !.held = 0]
  <2>1. mat[m].i = Len(Order)
    BY <1>1, <1>4, OrderFacts
  <2>2. r \in MatType /\ r.pc = "governance" /\ r.i = 1 /\ r.held = 0 /\ r.parts = mat[m].parts
    BY <1>1, OrderFacts DEF MatType, MatPc
  <2>3. mat' = [mat EXCEPT ![m] = r]
    BY <1>2, <1>4 DEF NextBroker
  <2> HIDE DEF r
  <2> QED
    BY <2>1, <2>2, <2>3, SlotSet
<1> QED
  BY <1>3, <1>4

-----------------------------------------------------------------------------
(* The steps of a materialisation, slot and files together. *)

LEMMA TextFacts ==
  /\ Empty \in Text /\ Mixed \in Text /\ ~IsWhole(Empty) /\ ~IsWhole(Mixed)
  /\ \A v : IsWhole(Whole(v)) /\ Whole(v)[2] = v
  /\ \A v \in Held : Whole(v) \in Text
  BY DEF Empty, Mixed, Whole, IsWhole, Text

LEMMA FilledFacts ==
  ASSUME NEW f, NEW v, NEW g \in Filled(f, v)
  PROVE  /\ g = Whole(v) \/ g = Mixed
         /\ f = Empty => g = Whole(v)
  BY DEF Filled

LEMMA ReadSlot ==
  ASSUME FileTypeOK, WorkTypeOK, SenseTypeOK, NEW m \in Slot, ReadForSegment(m)
  PROVE  /\ BrokerAt(m) \in Broker
         /\ Becomes(m, "overlay", mat[m].i, OverlayOf(BrokerAt(m)), mat[m].parts)
<1>1. BrokerAt(m) \in Broker
  BY OrderFacts DEF BrokerAt, FileTypeOK, MatType
<1>2. OverlayOf(BrokerAt(m)) \in Held
  BY <1>1, HeldOverlay
<1> QED
  BY <1>1, <1>2, SlotHeld DEF ReadForSegment, MatPc

LEMMA OpenSlot ==
  ASSUME FileTypeOK, NEW m \in Slot, OpenSegment(m)
  PROVE  /\ SegmentOf(m) \in Segment
         /\ files' = [files EXCEPT ![SegmentOf(m)] = Empty]
         /\ \/ /\ MatAt(m, "overlay") /\ SegmentOf(m) = BrokerAt(m)
               /\ Becomes(m, "overlay-open", mat[m].i, mat[m].held, mat[m].parts)
            \/ /\ MatAt(m, "governance") /\ SegmentOf(m) = "governance"
               /\ Becomes(m, "governance-open", mat[m].i, mat[m].held, mat[m].parts)
<1>1. BrokerAt(m) \in Broker
  BY OrderFacts DEF BrokerAt, FileTypeOK, MatType
<1>2. files' = [files EXCEPT ![SegmentOf(m)] = Empty]
      /\ mat' = [mat EXCEPT ![m].pc = IF MatAt(m, "overlay") THEN "overlay-open" ELSE "governance-open"]
  BY DEF OpenSegment, MatTo
<1>3. CASE MatAt(m, "overlay")
  <2>1. mat' = [mat EXCEPT ![m].pc = "overlay-open"]
    BY <1>2, <1>3
  <2>2. Becomes(m, "overlay-open", mat[m].i, mat[m].held, mat[m].parts)
    BY <2>1, SlotPc DEF MatPc
  <2> QED
    BY <1>1, <1>2, <1>3, <2>2 DEF MatAt, SegmentOf, Segment
<1>4. CASE MatAt(m, "governance")
  <2>1. mat' = [mat EXCEPT ![m].pc = "governance-open"]
    BY <1>2, <1>4 DEF MatAt
  <2>2. Becomes(m, "governance-open", mat[m].i, mat[m].held, mat[m].parts)
    BY <2>1, SlotPc DEF MatPc
  <2> QED
    BY <1>2, <1>4, <2>2 DEF MatAt, SegmentOf, Segment
<1> QED
  BY <1>3, <1>4 DEF OpenSegment, MatAt

LEMMA FillFile ==
  ASSUME FileTypeOK, NEW m \in Slot, FillSegment(m)
  PROVE  /\ SegmentOf(m) \in Segment
         /\ \E f \in Text :
              /\ files' = [files EXCEPT ![SegmentOf(m)] = f]
              /\ f = Whole(TextOf(m)) \/ f = Mixed
              /\ files[SegmentOf(m)] = Empty => f = Whole(TextOf(m))
<1>1. BrokerAt(m) \in Broker
  BY OrderFacts DEF BrokerAt, FileTypeOK, MatType
<1>2. SegmentOf(m) \in Segment
  BY <1>1 DEF SegmentOf, Segment
<1>3. TextOf(m) \in Held
  BY DEF TextOf, FileTypeOK, MatType, Held
<1>4. PICK f \in Filled(files[SegmentOf(m)], TextOf(m)) : files' = [files EXCEPT ![SegmentOf(m)] = f]
  BY DEF FillSegment
<1>5. /\ f = Whole(TextOf(m)) \/ f = Mixed
      /\ files[SegmentOf(m)] = Empty => f = Whole(TextOf(m))
  BY <1>4, FilledFacts
<1>6. f \in Text
  BY <1>3, <1>5, TextFacts
<1> QED
  BY <1>2, <1>4, <1>5, <1>6

LEMMA FillSlot ==
  ASSUME FileTypeOK, NEW m \in Slot, FillSegment(m)
  PROVE  \/ /\ MatAt(m, "governance-open") /\ SegmentOf(m) = "governance" /\ TextOf(m) = 0
            /\ Becomes(m, "compose", mat[m].i, mat[m].held, mat[m].parts)
         \/ /\ MatAt(m, "overlay-open") /\ SegmentOf(m) = BrokerAt(m) /\ TextOf(m) = mat[m].held
            /\ BrokerAt(m) = "sensor"
            /\ Becomes(m, "cmdb", mat[m].i, 0, mat[m].parts)
         \/ /\ MatAt(m, "overlay-open") /\ SegmentOf(m) = BrokerAt(m) /\ TextOf(m) = mat[m].held
            /\ BrokerAt(m) = "work"
            /\ \/ /\ mat[m].i < Len(Order)
                  /\ Becomes(m, "read", mat[m].i + 1, 0, mat[m].parts)
               \/ /\ mat[m].i = Len(Order)
                  /\ Becomes(m, "governance", 1, 0, mat[m].parts)
<1>1. BrokerAt(m) \in {"work", "sensor"}
  BY OrderFacts DEF BrokerAt, FileTypeOK, MatType, Broker
<1>2. DOMAIN mat = Slot
  BY DEF FileTypeOK
<1>3. CASE MatAt(m, "governance-open")
  <2>1. mat' = [mat EXCEPT ![m].pc = "compose"]
    BY <1>2, <1>3 DEF FillSegment, MatAt
  <2>2. Becomes(m, "compose", mat[m].i, mat[m].held, mat[m].parts)
    BY <2>1, SlotPc DEF MatPc
  <2> QED
    BY <1>3, <2>2 DEF MatAt, SegmentOf, TextOf
<1>4. CASE MatAt(m, "overlay-open") /\ BrokerAt(m) = "sensor"
  <2>1. mat' = [mat EXCEPT ![m].pc = "cmdb", ![m].held = 0]
    BY <1>2, <1>4 DEF FillSegment, MatAt
  <2>2. Becomes(m, "cmdb", mat[m].i, 0, mat[m].parts)
    BY <2>1, SlotHeld DEF MatPc, Held
  <2> QED
    BY <1>4, <2>2 DEF MatAt, SegmentOf, TextOf
<1>5. CASE MatAt(m, "overlay-open") /\ BrokerAt(m) = "work"
  <2>1. mat' = [mat EXCEPT ![m] = NextBroker(@)]
    BY <1>2, <1>5 DEF FillSegment, MatAt
  <2> QED
    BY <1>5, <2>1, SlotNext DEF MatAt, SegmentOf, TextOf
<1> QED
  BY <1>1, <1>3, <1>4, <1>5 DEF FillSegment, MatAt

LEMMA CmdbSlot ==
  ASSUME FileTypeOK, SenseTypeOK, NEW m \in Slot, ReadForCmdb(m)
  PROVE  Becomes(m, "rename", mat[m].i, sense.env, mat[m].parts)
<1>1. sense.env \in Held /\ OverlayOf("sensor") = sense.env
  BY DEF SenseTypeOK, Held, OverlayOf
<1> QED
  BY <1>1, SlotHeld DEF ReadForCmdb, MatPc

LEMMA PartSlot ==
  ASSUME FileTypeOK, NEW m \in Slot, ReadSegment(m)
  PROVE  /\ Len(mat[m].parts) + 1 \in DOMAIN SegmentOrder
         /\ Becomes(m, "compose", mat[m].i, mat[m].held,
                    Append(mat[m].parts, files[SegmentOrder[Len(mat[m].parts) + 1]]))
<1> DEFINE k == Len(mat[m].parts) + 1
           p == Append(mat[m].parts, files[SegmentOrder[k]])
<1>1. mat[m] \in MatType /\ mat[m].parts \in Seq(Text) /\ mat[m].pc = "compose"
  BY DEF FileTypeOK, MatType, ReadSegment, MatAt
<1>2. k \in DOMAIN SegmentOrder
  BY <1>1, OrderFacts DEF ReadSegment
<1>3. files[SegmentOrder[k]] \in Text
  BY <1>2, OrderFacts DEF FileTypeOK
<1>4. p \in Seq(Text)
  BY <1>1, <1>3
<1>5. mat' = [mat EXCEPT ![m].parts = p]
  BY DEF ReadSegment, FileTypeOK
<1> HIDE DEF k, p
<1>6. Becomes(m, "compose", mat[m].i, mat[m].held, p)
  BY <1>1, <1>4, <1>5 DEF FileTypeOK, Becomes, Others, MatType
<1> QED
  BY <1>2, <1>6 DEF k, p

LEMMA OutputSlot ==
  ASSUME FileTypeOK, NEW m \in Slot, OpenProjection(m)
  PROVE  Becomes(m, "output", mat[m].i, mat[m].held, mat[m].parts)
  BY SlotPc DEF OpenProjection, MatTo, MatPc

\* The history of overlays at the moves that may change it.
LEMMA RecentStarts ==
  ASSUME NEW m \in Slot, Starts(m)
  PROVE  \/ /\ Busy = {} /\ solo' = TRUE /\ spoiled' = FALSE
            /\ DOMAIN recent' = Broker
            /\ \A b \in Broker : recent'[b] = {OverlayOf(b)'}
         \/ /\ Busy # {} /\ solo' = FALSE /\ spoiled' = spoiled /\ recent' = recent
<1>1. CASE Busy = {}
  <2>1. recent' = [work |-> {work'}, sensor |-> {sense'.env}] /\ solo' = TRUE /\ spoiled' = FALSE
    BY <1>1 DEF Starts, Begin
  <2> QED
    BY <1>1, <2>1 DEF Broker, OverlayOf
<1>2. CASE Busy # {}
  BY <1>2 DEF Starts, Begin
<1> QED
  BY <1>1, <1>2

LEMMA RecentPublishes ==
  ASSUME FileTypeOK, Publishes
  PROVE  \/ /\ DOMAIN recent' = Broker
            /\ \A b \in Broker : recent'[b] = recent[b] \cup {OverlayOf(b)'}
         \/ recent' = recent /\ \A b \in Broker : OverlayOf(b)' = OverlayOf(b)
  BY DEF Publishes, Published, Broker, OverlayOf

-----------------------------------------------------------------------------
(* Types of the files and what holds of the slots. *)

LEMMA FileTypeInit ==
  ASSUME Init
  PROVE  FileTypeOK /\ SlotInv
<1>1. mat \in [Slot -> MatType] /\ \A m \in Slot : mat[m] = NoMat
  BY NoMatType DEF Init
<1>2. files \in [Segment -> Text]
  BY TextFacts DEF Init
<1>3. recent \in [Broker -> SUBSET Held]
  BY WorkTypeInit, SenseTypeInit, HeldOverlay DEF Init
<1>4. FileTypeOK
  BY <1>1, <1>2, <1>3 DEF Init, FileTypeOK
<1>5. SlotInv
  <2>1. Busy = {}
    BY <1>1, NoMatType DEF Busy, MatAt
  <2>2. Len(<<>>) = 0 /\ Len(SegmentOrder) >= 0
    BY OrderFacts
  <2> QED
    BY <1>1, <2>1, <2>2, NoMatType DEF Init, SlotInv, MatAt
<1> QED
  BY <1>4, <1>5

LEMMA FileTypeStep ==
  ASSUME FileTypeOK, WorkTypeOK, SenseTypeOK, WorkTypeOK', SenseTypeOK', [Next]_vars
  PROVE  FileTypeOK'
<1>0. \A b \in Broker : OverlayOf(b) \in Held /\ OverlayOf(b)' \in Held
  BY HeldOverlay DEF WorkTypeOK, SenseTypeOK, OverlayOf, Held, WorkOverlay
<1>1. ASSUME NEW m \in Slot, Starts(m)
      PROVE  FileTypeOK'
  <2>1. mat' \in [Slot -> MatType]
    BY <1>1, StartsSlot DEF Becomes
  <2>2. solo' \in BOOLEAN /\ spoiled' \in BOOLEAN
    BY <1>1, RecentStarts DEF FileTypeOK
  <2>3. recent' \in [Broker -> SUBSET Held]
    <3>1. CASE recent' = recent
      BY <3>1 DEF FileTypeOK
    <3>2. CASE recent' # recent
      <4>1. \A b \in Broker : recent'[b] = {OverlayOf(b)'}
        BY <1>1, <3>2, RecentStarts
      <4>2. recent' = [work |-> {work'}, sensor |-> {sense'.env}]
        BY <1>1, <3>2 DEF Starts, Begin
      <4>3. recent' = [b \in Broker |-> recent'[b]]
        BY <4>2 DEF Broker
      <4> QED
        BY <1>0, <4>1, <4>3
    <3> QED
      BY <3>1, <3>2
  <2>4. host' \in {"down", "booting", "up"} /\ files' = files
    BY <1>1 DEF Starts
  <2> QED
    BY <2>1, <2>2, <2>3, <2>4 DEF FileTypeOK
<1>2. CASE Publishes
  <2>1. recent' \in [Broker -> SUBSET Held]
    <3>1. CASE recent' = recent
      BY <3>1 DEF FileTypeOK
    <3>2. CASE Published
      <4>1. recent' = [b \in Broker |-> recent'[b]]
        BY <3>2 DEF Published, Broker
      <4>2. \A b \in Broker : recent'[b] = recent[b] \cup {OverlayOf(b)'}
        BY <3>2 DEF Published, Broker, OverlayOf
      <4>3. \A b \in Broker : recent'[b] \in SUBSET Held
        BY <1>0, <4>2 DEF FileTypeOK
      <4> QED
        BY <4>1, <4>3
    <3> QED
      BY <1>2, <3>1, <3>2 DEF Publishes
  <2> QED
    BY <1>2, <2>1 DEF Publishes, FileTypeOK
<1>3. ASSUME NEW m \in Slot, MatStep(m)
      PROVE  FileTypeOK'
  <2>1. UNCHANGED <<host, recent, solo, spoiled>>
    BY <1>3 DEF MatStep
  <2>2. CASE ReadForSegment(m)
    BY <2>1, <2>2, ReadSlot DEF ReadForSegment, FileTypeOK, Becomes
  <2>3. CASE OpenSegment(m)
    BY <2>1, <2>3, OpenSlot, TextFacts DEF FileTypeOK, Becomes
  <2>4. CASE FillSegment(m)
    <3>1. files' \in [Segment -> Text]
      BY <2>4, FillFile DEF FileTypeOK
    <3>2. mat' \in [Slot -> MatType]
      BY <2>4, FillSlot DEF Becomes
    <3> QED
      BY <2>1, <3>1, <3>2 DEF FileTypeOK
  <2>5. CASE ReadForCmdb(m)
    BY <2>1, <2>5, CmdbSlot DEF ReadForCmdb, FileTypeOK, Becomes
  <2>6. CASE RenameCmdb(m)
    <3>1. mat' \in [Slot -> MatType]
      BY <2>6, SlotNext DEF RenameCmdb, Becomes
    <3> QED
      BY <2>1, <2>6, <3>1 DEF RenameCmdb, FileTypeOK
  <2>7. CASE ReadSegment(m)
    BY <2>1, <2>7, PartSlot DEF ReadSegment, FileTypeOK, Becomes
  <2>8. CASE OpenProjection(m)
    BY <2>1, <2>8, OutputSlot DEF OpenProjection, FileTypeOK, Becomes
  <2> QED
    BY <1>3, <2>2, <2>3, <2>4, <2>5, <2>6, <2>7, <2>8 DEF MatStep
<1>4. ASSUME NEW m \in Slot, EndMat(m)
      PROVE  FileTypeOK'
  BY <1>4, IdleSlot DEF EndMat, FileTypeOK, Becomes
<1>5. ASSUME NEW m \in Slot, FailMat(m)
      PROVE  FileTypeOK'
  BY <1>5, IdleSlot DEF FailMat, FileTypeOK, Becomes
<1>6. CASE Crash
  BY <1>6, NoMatType DEF Crash, FileTypeOK
<1> QED
  BY <1>1, <1>2, <1>3, <1>4, <1>5, <1>6, FileMoves

\* A slot that begins alone, or ends, keeps what a boot and a lone materialisation are.
LEMMA SlotStep ==
  ASSUME FileTypeOK, WorkTypeOK, SenseTypeOK, SlotInv, [Next]_vars
  PROVE  SlotInv'
<1>0. /\ \A m : m \in Busy <=> m \in Slot /\ mat[m].pc # "idle"
      /\ \A m : m \in Busy' <=> m \in Slot /\ mat'[m].pc # "idle"
  BY DEF Busy, MatAt
<1>1. ASSUME NEW m \in Slot, NEW pc, NEW i, NEW held, NEW parts, Becomes(m, pc, i, held, parts),
             mat[m].pc # "idle", UNCHANGED <<host, solo>>,
             pc # "idle",
             pc \in {"cmdb", "rename"} => BrokerAt(m)' = "sensor",
             pc \notin {"compose", "output"} => parts = <<>>,
             pc = "output" => Len(parts) = Len(SegmentOrder),
             Len(parts) <= Len(SegmentOrder)
      PROVE  SlotInv'
  <2>1. Busy' = Busy
    BY <1>0, <1>1 DEF Becomes, Others
  <2>2. \A n \in Slot : n # m => mat'[n] = mat[n] /\ BrokerAt(n)' = BrokerAt(n)
    BY <1>1 DEF Becomes, Others, BrokerAt
  <2> QED
    BY <1>1, <2>1, <2>2 DEF SlotInv, MatAt, Becomes
<1>2. ASSUME NEW m \in Slot, Becomes(m, "idle", 1, 0, <<>>), mat'[m] = NoMat,
             \/ host' = host \/ (host = "booting" /\ m \in Busy /\ host' = "down") \/ host' = "up",
             solo' = solo
      PROVE  SlotInv'
  <2>1. Busy' = Busy \ {m}
    BY <1>0, <1>2 DEF Becomes, Others
  <2>2. \A n \in Slot : n # m => mat'[n] = mat[n] /\ BrokerAt(n)' = BrokerAt(n)
    BY <1>2 DEF Becomes, Others, BrokerAt
  <2>3. Len(<<>>) = 0 /\ Len(SegmentOrder) \in Nat
    BY OrderFacts
  <2>4. /\ host' = "down" => Busy' = {}
        /\ host' = "booting" => \A k, n \in Busy' : k = n
        /\ solo' => \A k, n \in Busy' : k = n
    BY <1>2, <2>1 DEF SlotInv
  <2> QED
    BY <1>2, <2>2, <2>3, <2>4 DEF SlotInv, MatAt, Becomes
<1>3. ASSUME NEW m \in Slot, Starts(m)
      PROVE  SlotInv'
  <2>1. Becomes(m, "read", 1, 0, <<>>)
    BY <1>3, StartsSlot
  <2>2. Busy' = Busy \cup {m}
    BY <1>0, <2>1 DEF Becomes, Others
  <2>3. \A n \in Slot : n # m => mat'[n] = mat[n] /\ BrokerAt(n)' = BrokerAt(n)
    BY <2>1 DEF Becomes, Others, BrokerAt
  <2>4. Len(<<>>) = 0 /\ Len(SegmentOrder) \in Nat
    BY OrderFacts
  <2>5. /\ host' # "down"
        /\ host' = "booting" => \A k, n \in Busy' : k = n
    BY <1>3, <2>2 DEF Starts, SlotInv
  <2>6. solo' => \A k, n \in Busy' : k = n
    BY <1>3, <2>2, RecentStarts
  <2> QED
    BY <2>1, <2>3, <2>4, <2>5, <2>6 DEF SlotInv, MatAt, Becomes
<1>4. CASE Publishes
  BY <1>0, <1>4 DEF Publishes, SlotInv, MatAt, BrokerAt
<1>5. ASSUME NEW m \in Slot, MatStep(m)
      PROVE  SlotInv'
  <2>1. UNCHANGED <<host, solo>>
    BY <1>5 DEF MatStep
  <2>2. /\ mat[m].pc \notin {"compose", "output"} => mat[m].parts = <<>>
        /\ Len(mat[m].parts) <= Len(SegmentOrder) /\ Len(SegmentOrder) \in Nat
        /\ Len(mat[m].parts) \in Nat /\ mat[m].parts \in Seq(Text)
    BY OrderFacts DEF SlotInv, FileTypeOK, MatType
  <2>3. CASE ReadForSegment(m)
    <3>1. mat[m].pc = "read"
      BY <2>3 DEF ReadForSegment, MatAt
    <3> QED
      BY <1>1, <2>1, <2>2, <2>3, <3>1, ReadSlot
  <2>4. CASE OpenSegment(m)
    BY <1>1, <2>1, <2>2, <2>4, OpenSlot DEF MatAt
  <2>5. CASE FillSegment(m)
    <3>1. mat[m].pc \in {"overlay-open", "governance-open"}
      BY <2>5 DEF FillSegment
    <3>2. CASE Becomes(m, "cmdb", mat[m].i, 0, mat[m].parts) /\ BrokerAt(m) = "sensor"
      <4>1. BrokerAt(m)' = "sensor"
        BY <3>2 DEF Becomes, BrokerAt
      <4> QED
        BY <1>1, <2>1, <2>2, <3>1, <3>2, <4>1
    <3> QED
      BY <1>1, <2>1, <2>2, <2>5, <3>1, <3>2, FillSlot
  <2>6. CASE ReadForCmdb(m)
    <3>1. mat[m].pc = "cmdb" /\ BrokerAt(m) = "sensor"
      BY <2>6 DEF ReadForCmdb, MatAt, SlotInv
    <3>2. Becomes(m, "rename", mat[m].i, sense.env, mat[m].parts)
      BY <2>6, CmdbSlot
    <3>3. BrokerAt(m)' = "sensor"
      BY <3>1, <3>2 DEF Becomes, BrokerAt
    <3> QED
      BY <1>1, <2>1, <2>2, <3>1, <3>2, <3>3
  <2>7. CASE RenameCmdb(m)
    <3>1. mat[m].pc = "rename"
      BY <2>7 DEF RenameCmdb, MatAt
    <3> QED
      BY <1>1, <2>1, <2>2, <2>7, <3>1, SlotNext DEF RenameCmdb
  <2>8. CASE ReadSegment(m)
    <3>1. mat[m].pc = "compose" /\ Len(mat[m].parts) < Len(SegmentOrder)
      BY <2>8 DEF ReadSegment, MatAt
    <3> DEFINE p == Append(mat[m].parts, files[SegmentOrder[Len(mat[m].parts) + 1]])
    <3>2. Len(p) = Len(mat[m].parts) + 1
      BY <2>2
    <3>3. Becomes(m, "compose", mat[m].i, mat[m].held, p)
      BY <2>8, PartSlot
    <3> HIDE DEF p
    <3> QED
      BY <1>1, <2>1, <2>2, <3>1, <3>2, <3>3
  <2>9. CASE OpenProjection(m)
    <3>1. mat[m].pc = "compose" /\ Len(mat[m].parts) = Len(SegmentOrder)
      BY <2>9 DEF OpenProjection, MatAt
    <3> QED
      BY <1>1, <2>1, <2>2, <2>9, <3>1, OutputSlot
  <2> QED
    BY <1>5, <2>3, <2>4, <2>5, <2>6, <2>7, <2>8, <2>9 DEF MatStep
<1>6. ASSUME NEW m \in Slot, EndMat(m)
      PROVE  SlotInv'
  BY <1>2, <1>6, IdleSlot DEF EndMat
<1>7. ASSUME NEW m \in Slot, FailMat(m)
      PROVE  SlotInv'
  <2>1. m \in Busy
    BY <1>0, <1>7 DEF FailMat
  <2>2. mat' = [mat EXCEPT ![m] = NoMat] /\ solo' = solo
        /\ host' = IF host = "booting" THEN "down" ELSE host
    BY <1>7 DEF FailMat
  <2> QED
    BY <1>2, <2>1, <2>2, IdleSlot
<1>8. CASE Crash
  <2>1. \A m \in Slot : mat'[m] = NoMat
    BY <1>8 DEF Crash
  <2>2. Busy' = {}
    BY <1>0, <2>1, NoMatType
  <2>3. Len(<<>>) = 0 /\ Len(SegmentOrder) \in Nat
    BY OrderFacts
  <2> QED
    BY <1>8, <2>1, <2>2, <2>3, NoMatType DEF Crash, SlotInv, MatAt
<1> QED
  BY <1>3, <1>4, <1>5, <1>6, <1>7, <1>8, FileMoves

-----------------------------------------------------------------------------
(* What the files hold is no older than the first of the overlapping       *)
(* materialisations, once one of them has been there.                      *)

Late == {"governance", "governance-open", "compose", "output"}

Passed(m, b) == mat[m].pc \in Late \/ \E j \in 1 .. mat[m].i - 1 : Order[j] = b

Opened(m, b) ==
  Passed(m, b) \/ (BrokerAt(m) = b /\ mat[m].pc \in {"overlay-open", "cmdb", "rename"})

Fresh(s, f) == s \in Broker /\ IsWhole(f) => f[2] \in recent[s]

FreshProjection ==
  IsWhole(projection) => \A k \in DOMAIN SegmentOrder : Fresh(SegmentOrder[k], projection[2][k])

MatFresh(m) ==
  /\ mat[m].pc \in {"overlay", "overlay-open"} => mat[m].held \in recent[BrokerAt(m)]
  /\ MatAt(m, "rename") => mat[m].held \in recent["sensor"]
  /\ \A b \in Broker : Opened(m, b) => Fresh(b, files[b])
  /\ Passed(m, "sensor") => cmdb \in recent["sensor"]
  /\ \A k \in DOMAIN mat[m].parts : Fresh(SegmentOrder[k], mat[m].parts[k])
  /\ MatAt(m, "output") => FreshProjection

StaleInv ==
  /\ \A b \in Broker : OverlayOf(b) \in recent[b]
  /\ \A m \in Slot : MatFresh(m)
  /\ Quiet /\ ~spoiled => cmdb \in recent["sensor"] /\ FreshProjection

-----------------------------------------------------------------------------
(* A materialisation that overlaps no other writes what is current, unless *)
(* a dispatch has changed an overlay and has yet to spawn its own.         *)

Written(m, b) == Passed(m, b) \/ (BrokerAt(m) = b /\ mat[m].pc \in {"cmdb", "rename"})

MatCurrent(m) ==
  /\ mat[m].pc \in {"overlay", "overlay-open"} => mat[m].held = OverlayOf(BrokerAt(m))
  /\ MatAt(m, "rename") => mat[m].held = sense.env
  /\ MatAt(m, "overlay-open") => files[BrokerAt(m)] = Empty
  /\ MatAt(m, "governance-open") => files["governance"] = Empty
  /\ \A b \in Broker : Written(m, b) => files[b] = Whole(OverlayOf(b))
  /\ mat[m].pc \in {"compose", "output"} => files["governance"] = Whole(0)
  /\ Passed(m, "sensor") => cmdb = sense.env
  /\ \A k \in DOMAIN mat[m].parts : mat[m].parts[k] = files[SegmentOrder[k]]
  /\ MatAt(m, "output") => projection = Empty

ShowsAll ==
  /\ IsWhole(projection)
  /\ \A k \in DOMAIN SegmentOrder :
       projection[2][k] = Whole(IF SegmentOrder[k] \in Broker THEN OverlayOf(SegmentOrder[k]) ELSE 0)
  /\ cmdb = sense.env

CurrentInv ==
  solo /\ ~Pending =>
    /\ \A m \in Slot : MatCurrent(m)
    /\ Quiet /\ ~spoiled => ShowsAll

\* A slot that does not move stays fresh if no file stops being so.
LEMMA StaleOthers ==
  ASSUME StaleInv, NEW m \in Slot, Others(m), recent' = recent,
         \A b \in Broker : Fresh(b, files[b]) => Fresh(b, files[b])',
         cmdb \in recent["sensor"] => cmdb' \in recent'["sensor"],
         FreshProjection => FreshProjection',
         MatFresh(m)'
  PROVE  \A n \in Slot : MatFresh(n)'
<1> SUFFICES ASSUME NEW n \in Slot, n # m
             PROVE  MatFresh(n)'
  OBVIOUS
<1>1. mat'[n] = mat[n] /\ MatFresh(n)
  BY DEF Others, StaleInv
<1>2. BrokerAt(n)' = BrokerAt(n) /\ \A b \in Broker : Opened(n, b)' = Opened(n, b)
  BY <1>1 DEF BrokerAt, Opened, Passed
<1>3. Passed(n, "sensor")' = Passed(n, "sensor")
  BY <1>1 DEF Passed
<1>4. \A s, f : Fresh(s, f)' = Fresh(s, f)
  BY DEF Fresh
<1>5. \A k \in DOMAIN mat'[n].parts : Fresh(SegmentOrder[k], mat[n].parts[k])'
  BY <1>1 DEF MatFresh, Fresh
<1> QED
  BY <1>1, <1>2, <1>3, <1>5 DEF MatFresh, MatAt

\* A slot that holds no text and is before the first broker has no duty.
LEMMA StaleBegins ==
  ASSUME NEW n \in Slot, mat'[n].pc \in {"idle", "read"}, mat'[n].i = 1, mat'[n].parts = <<>>
  PROVE  MatFresh(n)'
<1>1. \A b : ~Passed(n, b)' /\ ~Opened(n, b)'
  BY DEF Passed, Opened, Late
<1>2. DOMAIN mat'[n].parts = {}
  OBVIOUS
<1> QED
  BY <1>1, <1>2 DEF MatFresh, MatAt

\* How far the next broker's turn takes a materialisation.
LEMMA PassedNext ==
  ASSUME FileTypeOK, NEW m \in Slot, mat' = [mat EXCEPT ![m] = NextBroker(@)], NEW b \in Broker, Passed(m, b)'
  PROVE  Passed(m, b) \/ BrokerAt(m) = b
<1>0. mat[m].i \in 1 .. Len(Order) /\ Len(Order) \in Nat
  BY OrderFacts DEF FileTypeOK, MatType
<1>1. CASE mat[m].i < Len(Order) /\ Becomes(m, "read", mat[m].i + 1, 0, mat[m].parts)
  <2>1. PICK j \in 1 .. mat[m].i : Order[j] = b
    BY <1>0, <1>1 DEF Passed, Becomes, Late
  <2> QED
    BY <1>0, <2>1 DEF Passed, BrokerAt
<1>2. CASE mat[m].i = Len(Order)
  <2>1. PICK j \in 1 .. Len(Order) : Order[j] = b
    BY OrderFacts
  <2> QED
    BY <1>0, <1>2, <2>1 DEF Passed, BrokerAt
<1> QED
  BY <1>1, <1>2, SlotNext

LEMMA StaleMat ==
  ASSUME FileTypeOK, WorkTypeOK, SenseTypeOK, SlotInv, StaleInv, NEW m \in Slot, MatStep(m)
  PROVE  StaleInv'
<1>0. /\ recent' = recent /\ spoiled' = spoiled /\ host' = host
      /\ \A b \in Broker : OverlayOf(b)' = OverlayOf(b)
      /\ mat[m].pc # "idle"
  BY DEF MatStep, OverlayOf, workVars, sensorVars, ReadForSegment, OpenSegment, FillSegment, ReadForCmdb,
     RenameCmdb, ReadSegment, OpenProjection, MatAt
<1>1. MatFresh(m) /\ BrokerAt(m) \in Broker
  BY OrderFacts DEF StaleInv, BrokerAt, FileTypeOK, MatType
<1>2. \A s, f : Fresh(s, f)' = Fresh(s, f)
  BY <1>0 DEF Fresh
<1>3. SUFFICES /\ Others(m) /\ mat'[m].pc # "idle"
               /\ \A b \in Broker : Fresh(b, files[b]) => Fresh(b, files[b])'
               /\ cmdb \in recent["sensor"] => cmdb' \in recent'["sensor"]
               /\ FreshProjection => FreshProjection'
               /\ MatFresh(m)'
  <2>1. \A n \in Slot : MatFresh(n)'
    BY <1>0, <1>3, StaleOthers
  <2>2. ~Quiet'
    BY <1>3 DEF Quiet, Busy, MatAt
  <2> QED
    BY <1>0, <2>1, <2>2 DEF StaleInv
<1>4. CASE ReadForSegment(m)
  <2>1. Becomes(m, "overlay", mat[m].i, OverlayOf(BrokerAt(m)), mat[m].parts)
        /\ UNCHANGED <<files, cmdb, projection>> /\ mat[m].pc = "read"
    BY <1>4, ReadSlot DEF ReadForSegment, MatAt
  <2>2. BrokerAt(m)' = BrokerAt(m) /\ OverlayOf(BrokerAt(m)) \in recent[BrokerAt(m)]
    BY <1>1, <2>1 DEF BrokerAt, Becomes, StaleInv
  <2>3. \A b \in Broker : (Passed(m, b)' => Passed(m, b)) /\ (Opened(m, b)' => Opened(m, b))
    BY <2>1, <2>2 DEF Passed, Opened, Late, Becomes
  <2>4. MatFresh(m)'
    BY <1>0, <1>1, <2>1, <2>2, <2>3 DEF MatFresh, MatAt, Becomes, Fresh, Broker
  <2> QED
    BY <1>0, <2>1, <2>4 DEF Becomes, Fresh, FreshProjection
<1>5. CASE OpenSegment(m)
  <2>0. UNCHANGED <<cmdb, projection>>
    BY <1>5 DEF OpenSegment
  <2>1. \A b \in Broker : Fresh(b, files[b]) => Fresh(b, files[b])'
    BY <1>0, <1>5, OpenSlot, TextFacts DEF Fresh, FileTypeOK, Segment
  <2>2. ASSUME NEW pc, Becomes(m, pc, mat[m].i, mat[m].held, mat[m].parts),
               \/ pc = "overlay-open" /\ mat[m].pc = "overlay" /\ SegmentOf(m) = BrokerAt(m)
               \/ pc = "governance-open" /\ mat[m].pc = "governance"
        PROVE  MatFresh(m)'
    <3>1. BrokerAt(m)' = BrokerAt(m) /\ mat'[m].parts = mat[m].parts /\ mat'[m].held = mat[m].held
          /\ mat'[m].pc = pc
      BY <2>2 DEF BrokerAt, Becomes
    <3>2. \A b \in Broker : Passed(m, b)' => Passed(m, b)
      BY <2>2 DEF Passed, Late, Becomes
    <3>3. ASSUME NEW b \in Broker, Opened(m, b)'
          PROVE  Fresh(b, files[b])'
      <4>1. CASE Opened(m, b)
        BY <1>1, <2>1, <4>1 DEF MatFresh
      <4>2. CASE SegmentOf(m) = b
        BY <1>1, <1>5, <4>2, OpenSlot, TextFacts DEF Fresh, FileTypeOK, Segment
      <4> QED
        BY <2>2, <3>1, <3>2, <3>3, <4>1, <4>2 DEF Opened
    <3> QED
      BY <1>0, <1>1, <2>0, <2>2, <3>1, <3>2, <3>3 DEF MatFresh, MatAt, Fresh, Broker
  <2>3. MatFresh(m)' /\ Others(m) /\ mat'[m].pc # "idle"
    BY <1>5, <2>2, OpenSlot DEF MatAt, Becomes
  <2> QED
    BY <1>0, <2>0, <2>1, <2>3 DEF FreshProjection, Fresh
<1>6. CASE FillSegment(m)
  <2>0. UNCHANGED <<cmdb, projection>>
    BY <1>6 DEF FillSegment
  <2>1. PICK f \in Text : files' = [files EXCEPT ![SegmentOf(m)] = f] /\ (f = Whole(TextOf(m)) \/ f = Mixed)
    BY <1>6, FillFile
  <2>2. SegmentOf(m) \in Broker => SegmentOf(m) = BrokerAt(m) /\ TextOf(m) = mat[m].held
                                   /\ mat[m].held \in recent[BrokerAt(m)]
    BY <1>1, <1>6, FillSlot DEF MatFresh, MatAt, Broker
  <2>3. Fresh(SegmentOf(m), f)
    BY <2>1, <2>2, TextFacts DEF Fresh
  <2>4. \A b \in Broker : Fresh(b, files[b]) => Fresh(b, files[b])'
    BY <1>0, <2>1, <2>3 DEF Fresh, FileTypeOK, Segment
  <2>5. ASSUME NEW pc, NEW i, NEW held, Becomes(m, pc, i, held, mat[m].parts),
               pc \in {"compose", "cmdb", "read", "governance"},
               \A b \in Broker : Opened(m, b)' => Opened(m, b),
               Passed(m, "sensor")' => Passed(m, "sensor")
        PROVE  MatFresh(m)'
    BY <1>0, <1>1, <2>0, <2>4, <2>5 DEF MatFresh, MatAt, Fresh, Becomes
  <2>6. MatFresh(m)'
    <3>1. CASE MatAt(m, "governance-open") /\ Becomes(m, "compose", mat[m].i, mat[m].held, mat[m].parts)
      <4>1. \A b : Opened(m, b) /\ Passed(m, b)
        BY <3>1 DEF Opened, Passed, Late, MatAt
      <4> QED
        BY <2>5, <3>1, <4>1
    <3>2. CASE MatAt(m, "overlay-open") /\ BrokerAt(m) = "sensor" /\ Becomes(m, "cmdb", mat[m].i, 0, mat[m].parts)
      <4>1. \A b : (Opened(m, b)' => Opened(m, b)) /\ (Passed(m, b)' => Passed(m, b))
        BY <3>2 DEF Opened, Passed, Late, MatAt, Becomes, BrokerAt
      <4> QED
        BY <2>5, <3>2, <4>1
    <3>3. CASE /\ MatAt(m, "overlay-open") /\ BrokerAt(m) = "work"
               /\ \/ Becomes(m, "read", mat[m].i + 1, 0, mat[m].parts)
                  \/ Becomes(m, "governance", 1, 0, mat[m].parts)
      <4>1. mat' = [mat EXCEPT ![m] = NextBroker(@)]
        BY <1>6, <3>3 DEF FillSegment, MatAt, FileTypeOK
      <4>2. \A b \in Broker : Opened(m, b)' => Passed(m, b)'
        BY <3>3 DEF Opened, Becomes
      <4>3. \A b \in Broker : Passed(m, b)' => Opened(m, b)
        BY <3>3, <4>1, PassedNext DEF Opened, MatAt
      <4>4. Passed(m, "sensor")' => Passed(m, "sensor")
        BY <3>3, <4>1, PassedNext DEF Broker
      <4> QED
        BY <2>5, <3>3, <4>2, <4>3, <4>4
    <3> QED
      BY <1>6, <3>1, <3>2, <3>3, FillSlot
  <2>7. Others(m) /\ mat'[m].pc # "idle"
    BY <1>6, FillSlot DEF Becomes
  <2> QED
    BY <1>0, <2>0, <2>4, <2>6, <2>7 DEF FreshProjection, Fresh
<1>7. CASE ReadForCmdb(m)
  <2>1. Becomes(m, "rename", mat[m].i, sense.env, mat[m].parts)
        /\ UNCHANGED <<files, cmdb, projection>> /\ mat[m].pc = "cmdb"
    BY <1>7, CmdbSlot DEF ReadForCmdb, MatAt
  <2>2. BrokerAt(m)' = BrokerAt(m) /\ sense.env \in recent["sensor"]
    BY <2>1 DEF BrokerAt, Becomes, StaleInv, OverlayOf, Broker
  <2>3. \A b \in Broker : (Passed(m, b)' => Passed(m, b)) /\ (Opened(m, b)' => Opened(m, b))
    BY <2>1, <2>2 DEF Passed, Opened, Late, Becomes
  <2>4. MatFresh(m)'
    BY <1>0, <1>1, <2>1, <2>2, <2>3 DEF MatFresh, MatAt, Becomes, Fresh, Broker
  <2> QED
    BY <1>0, <2>1, <2>4 DEF Becomes, Fresh, FreshProjection
<1>8. CASE RenameCmdb(m)
  <2>1. UNCHANGED <<files, projection>> /\ cmdb' = mat[m].held /\ mat[m].pc = "rename"
        /\ mat' = [mat EXCEPT ![m] = NextBroker(@)]
    BY <1>8 DEF RenameCmdb, MatAt
  <2>2. cmdb' \in recent["sensor"]
    BY <1>1, <2>1 DEF MatFresh, MatAt
  <2>3. mat'[m].parts = mat[m].parts /\ mat'[m].pc \in {"read", "governance"} /\ Others(m)
    BY <2>1, SlotNext DEF Becomes
  <2>4. \A b \in Broker : Opened(m, b)' => Passed(m, b)'
    BY <2>3 DEF Opened
  <2>5. \A b \in Broker : Passed(m, b)' => Opened(m, b)
    BY <2>1, PassedNext DEF Opened
  <2>6. MatFresh(m)'
    BY <1>0, <1>1, <2>1, <2>2, <2>3, <2>4, <2>5 DEF MatFresh, MatAt, Fresh
  <2> QED
    BY <1>0, <2>1, <2>2, <2>3, <2>6 DEF Fresh, FreshProjection
<1>9. CASE ReadSegment(m)
  <2> DEFINE k == Len(mat[m].parts) + 1
             p == Append(mat[m].parts, files[SegmentOrder[k]])
  <2>1. /\ k \in DOMAIN SegmentOrder /\ Becomes(m, "compose", mat[m].i, mat[m].held, p)
        /\ UNCHANGED <<files, cmdb, projection>> /\ mat[m].pc = "compose"
    BY <1>9, PartSlot DEF ReadSegment, MatAt
  <2>2. mat[m].parts \in Seq(Text)
    BY DEF FileTypeOK, MatType
  <2>3. DOMAIN p = DOMAIN mat[m].parts \cup {k} /\ p[k] = files[SegmentOrder[k]]
        /\ \A j \in DOMAIN mat[m].parts : p[j] = mat[m].parts[j]
    BY <2>2
  <2>4. Fresh(SegmentOrder[k], files[SegmentOrder[k]])
    <3>1. \A b \in Broker : Opened(m, b)
      BY <2>1 DEF Opened, Passed, Late
    <3> QED
      BY <1>1, <3>1 DEF MatFresh, Fresh
  <2> HIDE DEF p, k
  <2>5. \A b \in Broker : (Passed(m, b)' => Passed(m, b)) /\ (Opened(m, b)' => Opened(m, b))
    BY <2>1 DEF Passed, Opened, Late
  <2>6. \A j \in DOMAIN p : Fresh(SegmentOrder[j], p[j])
    BY <1>1, <2>3, <2>4 DEF MatFresh
  <2>7. MatFresh(m)'
    BY <1>0, <1>1, <2>1, <2>5, <2>6 DEF MatFresh, MatAt, Becomes, Fresh, Broker
  <2> QED
    BY <1>0, <2>1, <2>7 DEF Becomes, Fresh, FreshProjection
<1>10. CASE OpenProjection(m)
  <2>1. Becomes(m, "output", mat[m].i, mat[m].held, mat[m].parts) /\ projection' = Empty
        /\ UNCHANGED <<files, cmdb>> /\ mat[m].pc = "compose"
    BY <1>10, OutputSlot DEF OpenProjection, MatAt
  <2>2. FreshProjection'
    BY <2>1, TextFacts DEF FreshProjection
  <2>3. \A b \in Broker : (Passed(m, b)' => Passed(m, b)) /\ (Opened(m, b)' => Opened(m, b))
    BY <2>1 DEF Passed, Opened, Late
  <2>4. MatFresh(m)'
    BY <1>0, <1>1, <2>1, <2>2, <2>3 DEF MatFresh, MatAt, Becomes, Fresh, Broker
  <2> QED
    BY <1>0, <2>1, <2>2, <2>4 DEF Becomes, Fresh
<1> QED
  BY <1>4, <1>5, <1>6, <1>7, <1>8, <1>9, <1>10 DEF MatStep

LEMMA StaleStep ==
  ASSUME FileTypeOK, WorkTypeOK, SenseTypeOK, SlotInv, StaleInv, [Next]_vars
  PROVE  StaleInv'
<1>0. /\ \A m : m \in Busy <=> m \in Slot /\ mat[m].pc # "idle"
      /\ \A m : m \in Busy' <=> m \in Slot /\ mat'[m].pc # "idle"
  BY DEF Busy, MatAt
<1>1. ASSUME NEW m \in Slot, Starts(m)
      PROVE  StaleInv'
  <2>1. Becomes(m, "read", 1, 0, <<>>) /\ UNCHANGED <<files, cmdb, projection>>
    BY <1>1, StartsSlot DEF Starts
  <2>2. MatFresh(m)'
    BY <2>1, StaleBegins DEF Becomes
  <2>3. ~Quiet'
    BY <1>0, <2>1 DEF Quiet, Becomes
  <2>4. CASE Busy = {}
    <3>1. \A n \in Slot : n # m => mat'[n] = NoMat
      BY <1>0, <2>1, <2>4 DEF Becomes, Others, SlotInv, MatAt
    <3>2. \A n \in Slot : MatFresh(n)'
      BY <2>2, <3>1, StaleBegins, NoMatType
    <3>3. \A b \in Broker : OverlayOf(b)' \in recent'[b]
      BY <1>1, <2>4, RecentStarts
    <3> QED
      BY <2>3, <3>2, <3>3 DEF StaleInv
  <2>5. CASE Busy # {}
    <3>1. recent' = recent /\ UNCHANGED <<work, sense>>
      BY <1>1, <2>5, RecentStarts DEF Starts, SlotInv
    <3>2. \A n \in Slot : MatFresh(n)'
      <4>1. \A b \in Broker : Fresh(b, files[b]) => Fresh(b, files[b])'
        BY <2>1, <3>1 DEF Fresh
      <4>2. FreshProjection => FreshProjection'
        BY <2>1, <3>1 DEF Fresh, FreshProjection
      <4> QED
        BY <2>1, <2>2, <3>1, <4>1, <4>2, StaleOthers DEF Becomes
    <3>3. \A b \in Broker : OverlayOf(b)' \in recent'[b]
      BY <3>1 DEF OverlayOf, StaleInv
    <3> QED
      BY <2>3, <3>2, <3>3 DEF StaleInv
  <2> QED
    BY <2>4, <2>5
<1>2. CASE Publishes
  <2>1. UNCHANGED <<host, mat, files, cmdb, projection, solo, spoiled>>
    BY <1>2 DEF Publishes
  <2>2. /\ \A b \in Broker : recent[b] \subseteq recent'[b]
        /\ \A b \in Broker : OverlayOf(b)' \in recent'[b]
    BY <1>2, RecentPublishes DEF StaleInv
  <2>3. \A s, f : Fresh(s, f) => Fresh(s, f)'
    BY <2>2 DEF Fresh
  <2>4. FreshProjection => FreshProjection'
    BY <2>1, <2>2 DEF FreshProjection, Fresh
  <2>5. ASSUME NEW n \in Slot
        PROVE  MatFresh(n)'
    <3>1. MatFresh(n) /\ BrokerAt(n) \in Broker
      BY OrderFacts DEF StaleInv, BrokerAt, FileTypeOK, MatType
    <3>2. BrokerAt(n)' = BrokerAt(n) /\ Passed(n, "sensor")' = Passed(n, "sensor")
          /\ \A b \in Broker : Opened(n, b)' = Opened(n, b)
      BY <2>1 DEF BrokerAt, Opened, Passed
    <3>3. "sensor" \in Broker
      BY DEF Broker
    <3>4. \A b \in Broker : Fresh(b, files[b]) => Fresh(b, files[b])'
      BY <2>1, <2>2 DEF Fresh
    <3>5. \A k \in DOMAIN mat[n].parts : Fresh(SegmentOrder[k], mat[n].parts[k])'
      BY <2>1, <2>2, <3>1 DEF MatFresh, Fresh
    <3>6. (DOMAIN mat[n].parts)' = DOMAIN mat[n].parts
      BY <2>1
    <3> QED
      BY <2>1, <2>2, <2>4, <3>1, <3>2, <3>3, <3>4, <3>5, <3>6 DEF MatFresh, MatAt
  <2>6. Quiet' = Quiet
    BY <2>1 DEF Quiet, Busy, MatAt
  <2>7. "sensor" \in Broker
    BY DEF Broker
  <2> QED
    BY <2>1, <2>2, <2>4, <2>5, <2>6, <2>7 DEF StaleInv
<1>3. ASSUME NEW m \in Slot, MatStep(m)
      PROVE  StaleInv'
  BY <1>3, StaleMat
<1>4. ASSUME NEW m \in Slot, EndMat(m)
      PROVE  StaleInv'
  <2>1. /\ Becomes(m, "idle", 1, 0, <<>>) /\ mat[m].pc = "output"
        /\ projection' \in Filled(projection, mat[m].parts)
        /\ UNCHANGED <<work, sense, files, cmdb, recent, spoiled>>
    BY <1>4, IdleSlot DEF EndMat, MatAt, workVars, sensorVars
  <2>2. MatFresh(m) /\ Passed(m, "sensor") /\ Len(mat[m].parts) = Len(SegmentOrder)
        /\ mat[m].parts \in Seq(Text)
    BY <2>1 DEF StaleInv, Passed, Late, SlotInv, MatAt, FileTypeOK, MatType
  <2>3. FreshProjection'
    <3>1. projection' = Whole(mat[m].parts) \/ projection' = Mixed
      BY <2>1, FilledFacts
    <3>2. DOMAIN mat[m].parts = DOMAIN SegmentOrder
      BY <2>2, OrderFacts
    <3>3. \A k \in DOMAIN SegmentOrder : Fresh(SegmentOrder[k], mat[m].parts[k])
      BY <2>2, <3>2 DEF MatFresh
    <3> QED
      BY <2>1, <3>1, <3>3, TextFacts DEF FreshProjection, Fresh
  <2>4. \A b \in Broker : Fresh(b, files[b]) => Fresh(b, files[b])'
    BY <2>1 DEF Fresh
  <2>5. MatFresh(m)'
    BY <2>1, StaleBegins DEF Becomes
  <2>6. \A n \in Slot : MatFresh(n)'
    BY <2>1, <2>3, <2>4, <2>5, StaleOthers DEF Becomes
  <2>7. cmdb' \in recent'["sensor"] /\ \A b \in Broker : OverlayOf(b)' \in recent'[b]
    BY <2>1, <2>2 DEF MatFresh, StaleInv, OverlayOf
  <2> QED
    BY <2>3, <2>6, <2>7 DEF StaleInv
<1>5. ASSUME NEW m \in Slot, FailMat(m)
      PROVE  StaleInv'
  <2>1. /\ Becomes(m, "idle", 1, 0, <<>>) /\ spoiled' = TRUE
        /\ UNCHANGED <<work, sense, files, cmdb, projection, recent>>
    BY <1>5, IdleSlot DEF FailMat, workVars, sensorVars
  <2>2. \A b \in Broker : Fresh(b, files[b]) => Fresh(b, files[b])'
    BY <2>1 DEF Fresh
  <2>3. FreshProjection => FreshProjection'
    BY <2>1 DEF FreshProjection, Fresh
  <2>4. MatFresh(m)'
    BY <2>1, StaleBegins DEF Becomes
  <2>5. \A n \in Slot : MatFresh(n)'
    BY <2>1, <2>2, <2>3, <2>4, StaleOthers DEF Becomes
  <2> QED
    BY <2>1, <2>5 DEF StaleInv, OverlayOf
<1>6. CASE Crash
  <2>1. /\ \A n \in Slot : mat'[n] = NoMat
        /\ UNCHANGED <<work, sense, recent>> /\ host' = "down"
    BY <1>6 DEF Crash, workVars, sensorVars
  <2>2. \A n \in Slot : MatFresh(n)'
    BY <2>1, StaleBegins, NoMatType
  <2>3. ~Quiet'
    BY <2>1 DEF Quiet
  <2> QED
    BY <2>1, <2>2, <2>3 DEF StaleInv, OverlayOf
<1> QED
  BY <1>1, <1>2, <1>3, <1>4, <1>5, <1>6, FileMoves

LEMMA StaleInit ==
  ASSUME Init
  PROVE  StaleInv
<1>1. \A m \in Slot : mat[m] = NoMat
  BY DEF Init
<1>2. \A m \in Slot : MatFresh(m)
  BY <1>1, NoMatType DEF MatFresh, MatAt, Passed, Opened, Late
<1>3. ~Quiet /\ \A b \in Broker : OverlayOf(b) \in recent[b]
  BY DEF Init, Quiet
<1> QED
  BY <1>2, <1>3 DEF StaleInv

\* What the projection holds of a broker is the broker's part of it.
LEMMA PartOf ==
  ASSUME NEW b \in Broker
  PROVE  \E k \in DOMAIN SegmentOrder : SegmentOrder[k] = b /\ Part(b) = projection[2][k]
<1>1. \E k \in DOMAIN SegmentOrder : SegmentOrder[k] = b
  BY OrderFacts DEF Segment
<1> QED
  BY <1>1 DEF Part

HostInv == WorkTypeOK /\ SenseTypeOK /\ FileTypeOK /\ SlotInv

LEMMA HostInvariant == Spec => []HostInv
<1>1. Init => HostInv
  BY WorkTypeInit, SenseTypeInit, FileTypeInit DEF Init, HostInv
<1>2. HostInv /\ [Next]_vars => HostInv'
  <2> SUFFICES ASSUME HostInv, [Next]_vars
               PROVE  HostInv'
    OBVIOUS
  <2>0. WorkTypeOK /\ SenseTypeOK /\ FileTypeOK /\ SlotInv
    BY DEF HostInv
  <2>1. WorkTypeOK'
    <3>1. CASE UNCHANGED workVars
      BY <2>0, <3>1 DEF workVars, WorkTypeOK
    <3>2. CASE WorkMove
      BY <2>0, <3>2, WorkTypeStep
    <3> QED
      BY <3>1, <3>2, WorkMoves
  <2>2. SenseTypeOK'
    BY <2>0, SenseMoves, SenseTypeStep
  <2>3. FileTypeOK' /\ SlotInv'
    BY <2>0, <2>1, <2>2, FileTypeStep, SlotStep
  <2> QED
    BY <2>1, <2>2, <2>3 DEF HostInv
<1> QED
  BY <1>1, <1>2, PTL DEF Spec

\* However many materialisations overlap, and in whatever order they read and write, what an
\* agent reads whole when they are over is no older than the first of them
\* (materialize_all, host.rs; MaterializerComposer::compose, materializer/mod.rs).
THEOREM StaleSafety == Spec => []StaleBounded
<1>1. Init => StaleInv
  BY StaleInit
<1>2. HostInv /\ StaleInv /\ [Next]_vars => StaleInv'
  BY StaleStep DEF HostInv
<1>3. StaleInv => StaleBounded
  <2> SUFFICES ASSUME StaleInv, Quiet, ~spoiled
               PROVE  /\ cmdb \in recent["sensor"]
                      /\ IsWhole(projection) =>
                           \A b \in Broker : IsWhole(Part(b)) => Part(b)[2] \in recent[b]
    BY DEF StaleBounded
  <2>1. cmdb \in recent["sensor"] /\ FreshProjection
    BY DEF StaleInv
  <2> QED
    BY <2>1, PartOf DEF FreshProjection, Fresh
<1> QED
  BY <1>1, <1>2, <1>3, HostInvariant, PTL DEF Spec

-----------------------------------------------------------------------------
(* The lone materialisation. *)

\* A slot that holds no text and is before the first broker has no duty here either.
LEMMA CurrentBegins ==
  ASSUME NEW n \in Slot, mat'[n].pc \in {"idle", "read"}, mat'[n].i = 1, mat'[n].parts = <<>>
  PROVE  MatCurrent(n)'
<1>1. \A b : ~Passed(n, b)' /\ ~Written(n, b)'
  BY DEF Passed, Written, Late
<1>2. DOMAIN mat'[n].parts = {}
  OBVIOUS
<1> QED
  BY <1>1, <1>2 DEF MatCurrent, MatAt

LEMMA CurrentOthers ==
  ASSUME FileTypeOK, SlotInv, solo, NEW m \in Slot, mat[m].pc # "idle", Others(m)
  PROVE  \A n \in Slot : n # m => mat'[n] = NoMat /\ MatCurrent(n)'
<1> SUFFICES ASSUME NEW n \in Slot, n # m
             PROVE  mat'[n] = NoMat /\ MatCurrent(n)'
  OBVIOUS
<1>1. mat[n].pc = "idle"
  BY DEF SlotInv, Busy, MatAt
<1>2. mat'[n] = NoMat
  BY <1>1 DEF SlotInv, Others, MatAt
<1> QED
  BY <1>2, NoMatType, CurrentBegins

LEMMA CurrentMat ==
  ASSUME FileTypeOK, WorkTypeOK, SenseTypeOK, SlotInv, NEW m \in Slot, MatStep(m), MatCurrent(m)
  PROVE  MatCurrent(m)' /\ Others(m)
<1>0. \A b : OverlayOf(b)' = OverlayOf(b)
  BY DEF MatStep, OverlayOf, workVars, sensorVars
<1>a. sense' = sense
  BY DEF MatStep, sensorVars
<1>b. /\ BrokerAt(m) \in Broker /\ "governance" \notin Broker
      /\ mat[m].pc \notin {"compose", "output"} => mat[m].parts = <<>>
      /\ mat[m].i \in 1 .. Len(Order) /\ Len(Order) \in Nat
      /\ DOMAIN files = Segment /\ Broker \subseteq Segment /\ "governance" \in Segment
  BY OrderFacts DEF BrokerAt, FileTypeOK, MatType, SlotInv, Broker, Segment
<1>c. DOMAIN <<>> = {}
  OBVIOUS
<1>1. CASE ReadForSegment(m)
  <2>1. Becomes(m, "overlay", mat[m].i, OverlayOf(BrokerAt(m)), mat[m].parts)
        /\ UNCHANGED <<files, cmdb, projection>> /\ mat[m].pc = "read"
    BY <1>1, ReadSlot DEF ReadForSegment, MatAt
  <2>2. BrokerAt(m)' = BrokerAt(m)
    BY <2>1 DEF BrokerAt, Becomes
  <2>3. \A b \in Broker : (Passed(m, b)' => Passed(m, b)) /\ (Written(m, b)' => Written(m, b))
    BY <2>1, <2>2 DEF Passed, Written, Late, Becomes
  <2> QED
    BY <1>0, <1>a, <1>b, <1>c, <2>1, <2>2, <2>3 DEF MatCurrent, MatAt, Becomes, Broker
<1>2. CASE OpenSegment(m) /\ mat[m].pc = "overlay"
  <2>1. Becomes(m, "overlay-open", mat[m].i, mat[m].held, mat[m].parts)
        /\ files' = [files EXCEPT ![BrokerAt(m)] = Empty] /\ UNCHANGED <<cmdb, projection>>
    BY <1>2, OpenSlot DEF OpenSegment, MatAt
  <2>2. BrokerAt(m)' = BrokerAt(m)
    BY <2>1 DEF BrokerAt, Becomes
  <2>3. ASSUME NEW b \in Broker, Written(m, b)'
        PROVE  Passed(m, b) /\ files'[b] = files[b]
    <3>1. PICK j \in 1 .. mat[m].i - 1 : Order[j] = b
      BY <2>1, <2>3 DEF Written, Passed, Late, Becomes
    <3>2. b # BrokerAt(m)
      <4>1. j \in DOMAIN Order /\ mat[m].i \in DOMAIN Order /\ j # mat[m].i
        BY <1>b, <3>1, OrderFacts
      <4>2. Order[j] = Order[mat[m].i] => j = mat[m].i
        BY <4>1, OrderFacts
      <4> QED
        BY <3>1, <4>1, <4>2 DEF BrokerAt
    <3> QED
      BY <1>b, <2>1, <3>1, <3>2 DEF Passed
  <2>4. \A b \in Broker : Written(m, b)' => files'[b] = Whole(OverlayOf(b))
    BY <2>3 DEF MatCurrent, Written
  <2>5. Passed(m, "sensor")' => Passed(m, "sensor")
    BY <2>1 DEF Passed, Late, Becomes
  <2> QED
    BY <1>0, <1>2, <1>a, <1>b, <1>c, <2>1, <2>2, <2>4, <2>5 DEF MatCurrent, MatAt, Becomes
<1>3. CASE OpenSegment(m) /\ mat[m].pc = "governance"
  <2>1. Becomes(m, "governance-open", mat[m].i, mat[m].held, mat[m].parts)
        /\ files' = [files EXCEPT !["governance"] = Empty] /\ UNCHANGED <<cmdb, projection>>
    BY <1>3, OpenSlot DEF OpenSegment, MatAt
  <2>2. \A b \in Broker : Passed(m, b) /\ Written(m, b) /\ files'[b] = files[b]
    BY <1>3, <1>b, <2>1 DEF Passed, Written, Late
  <2>3. "sensor" \in Broker
    BY DEF Broker
  <2> QED
    BY <1>0, <1>3, <1>a, <1>b, <1>c, <2>1, <2>2, <2>3 DEF MatCurrent, MatAt, Becomes
<1>4. CASE FillSegment(m)
  <2>0. UNCHANGED <<cmdb, projection>>
    BY <1>4 DEF FillSegment
  <2>1. PICK f \in Text : /\ files' = [files EXCEPT ![SegmentOf(m)] = f]
                          /\ files[SegmentOf(m)] = Empty => f = Whole(TextOf(m))
    BY <1>4, FillFile
  <2>2. CASE MatAt(m, "governance-open") /\ SegmentOf(m) = "governance" /\ TextOf(m) = 0
             /\ Becomes(m, "compose", mat[m].i, mat[m].held, mat[m].parts)
    <3>1. files'["governance"] = Whole(0)
      BY <1>b, <2>1, <2>2 DEF MatCurrent
    <3>2. \A b \in Broker : Passed(m, b) /\ Written(m, b) /\ files'[b] = files[b]
      BY <1>b, <2>1, <2>2 DEF Passed, Written, Late, MatAt
    <3>3. "sensor" \in Broker
      BY DEF Broker
    <3>4. mat[m].parts = <<>>
      BY <1>b, <2>2 DEF MatAt
    <3> QED
      BY <1>0, <1>a, <1>c, <2>0, <2>2, <3>1, <3>2, <3>3, <3>4 DEF MatCurrent, MatAt, Becomes
  <2>3. ASSUME MatAt(m, "overlay-open"), SegmentOf(m) = BrokerAt(m), TextOf(m) = mat[m].held,
               NEW pc \in {"cmdb", "read", "governance"}, NEW i, NEW held,
               Becomes(m, pc, i, held, mat[m].parts),
               \A b \in Broker : Written(m, b)' => Passed(m, b) \/ b = BrokerAt(m),
               Passed(m, "sensor")' => Passed(m, "sensor")
        PROVE  MatCurrent(m)'
    <3>1. files'[BrokerAt(m)] = Whole(OverlayOf(BrokerAt(m)))
      BY <1>b, <2>1, <2>3 DEF MatCurrent, MatAt
    <3>2. ASSUME NEW b \in Broker, Written(m, b)'
          PROVE  files'[b] = Whole(OverlayOf(b))
      <4>1. CASE b = BrokerAt(m)
        BY <3>1, <4>1
      <4>2. CASE b # BrokerAt(m)
        <5>1. Passed(m, b)
          BY <2>3, <3>2, <4>2
        <5>2. files[b] = Whole(OverlayOf(b))
          BY <5>1 DEF MatCurrent, Written
        <5> QED
          BY <1>b, <2>1, <2>3, <4>2, <5>2
      <4> QED
        BY <4>1, <4>2
    <3> QED
      BY <1>0, <1>a, <1>b, <1>c, <2>0, <2>3, <3>2 DEF MatCurrent, MatAt, Becomes
  <2>4. CASE MatAt(m, "overlay-open") /\ SegmentOf(m) = BrokerAt(m) /\ TextOf(m) = mat[m].held
             /\ BrokerAt(m) = "sensor" /\ Becomes(m, "cmdb", mat[m].i, 0, mat[m].parts)
    <3>1. \A b : Passed(m, b)' => Passed(m, b)
      BY <2>4 DEF Passed, Late, Becomes
    <3>2. BrokerAt(m)' = BrokerAt(m)
      BY <2>4 DEF BrokerAt, Becomes
    <3> QED
      BY <2>3, <2>4, <3>1, <3>2 DEF Written, Becomes
  <2>5. CASE /\ MatAt(m, "overlay-open") /\ SegmentOf(m) = BrokerAt(m) /\ TextOf(m) = mat[m].held
             /\ BrokerAt(m) = "work"
             /\ \/ Becomes(m, "read", mat[m].i + 1, 0, mat[m].parts)
                \/ Becomes(m, "governance", 1, 0, mat[m].parts)
    <3>1. mat' = [mat EXCEPT ![m] = NextBroker(@)]
      BY <1>4, <2>5 DEF FillSegment, MatAt, FileTypeOK
    <3>2. \A b \in Broker : Written(m, b)' => Passed(m, b)'
      BY <2>5 DEF Written, Becomes
    <3>3. \A b \in Broker : Passed(m, b)' => Passed(m, b) \/ b = BrokerAt(m)
      BY <3>1, PassedNext
    <3>4. "sensor" \in Broker
      BY DEF Broker
    <3> QED
      BY <2>3, <2>5, <3>2, <3>3, <3>4 DEF Becomes
  <2> QED
    BY <1>4, <2>2, <2>4, <2>5, FillSlot DEF Becomes
<1>5. CASE ReadForCmdb(m)
  <2>1. Becomes(m, "rename", mat[m].i, sense.env, mat[m].parts)
        /\ UNCHANGED <<files, cmdb, projection>> /\ mat[m].pc = "cmdb"
    BY <1>5, CmdbSlot DEF ReadForCmdb, MatAt
  <2>2. BrokerAt(m)' = BrokerAt(m)
    BY <2>1 DEF BrokerAt, Becomes
  <2>3. \A b \in Broker : (Passed(m, b)' => Passed(m, b)) /\ (Written(m, b)' => Written(m, b))
    BY <2>1, <2>2 DEF Passed, Written, Late, Becomes
  <2> QED
    BY <1>0, <1>a, <1>b, <1>c, <2>1, <2>2, <2>3 DEF MatCurrent, MatAt, Becomes, Broker
<1>6. CASE RenameCmdb(m)
  <2>1. UNCHANGED <<files, projection>> /\ cmdb' = sense.env /\ mat[m].pc = "rename"
        /\ mat' = [mat EXCEPT ![m] = NextBroker(@)]
    BY <1>6 DEF RenameCmdb, MatAt, MatCurrent
  <2>2. mat'[m].parts = mat[m].parts /\ mat'[m].pc \in {"read", "governance"} /\ Others(m)
    BY <2>1, SlotNext DEF Becomes
  <2>3. \A b \in Broker : Written(m, b)' => Passed(m, b)'
    BY <2>2 DEF Written
  <2>4. \A b \in Broker : Passed(m, b)' => Written(m, b)
    BY <2>1, PassedNext DEF Written
  <2> QED
    BY <1>0, <1>a, <1>b, <1>c, <2>1, <2>2, <2>3, <2>4 DEF MatCurrent, MatAt
<1>7. CASE ReadSegment(m)
  <2> DEFINE k == Len(mat[m].parts) + 1
             p == Append(mat[m].parts, files[SegmentOrder[k]])
  <2>1. /\ Becomes(m, "compose", mat[m].i, mat[m].held, p)
        /\ UNCHANGED <<files, cmdb, projection>> /\ mat[m].pc = "compose"
    BY <1>7, PartSlot DEF ReadSegment, MatAt
  <2>2. mat[m].parts \in Seq(Text)
    BY DEF FileTypeOK, MatType
  <2>3. DOMAIN p = DOMAIN mat[m].parts \cup {k} /\ p[k] = files[SegmentOrder[k]]
        /\ \A j \in DOMAIN mat[m].parts : p[j] = mat[m].parts[j]
    BY <2>2
  <2> HIDE DEF p, k
  <2>4. \A j \in DOMAIN p : p[j] = files[SegmentOrder[j]]
    BY <2>3 DEF MatCurrent
  <2>5. \A b \in Broker : Passed(m, b) /\ Written(m, b)
    BY <2>1 DEF Passed, Written, Late
  <2>6. "sensor" \in Broker
    BY DEF Broker
  <2> QED
    BY <1>0, <1>a, <2>1, <2>4, <2>5, <2>6 DEF MatCurrent, MatAt, Becomes
<1>8. CASE OpenProjection(m)
  <2>1. Becomes(m, "output", mat[m].i, mat[m].held, mat[m].parts) /\ projection' = Empty
        /\ UNCHANGED <<files, cmdb>> /\ mat[m].pc = "compose"
    BY <1>8, OutputSlot DEF OpenProjection, MatAt
  <2>2. \A b \in Broker : Passed(m, b) /\ Written(m, b)
    BY <2>1 DEF Passed, Written, Late
  <2>3. "sensor" \in Broker
    BY DEF Broker
  <2> QED
    BY <1>0, <1>a, <2>1, <2>2, <2>3 DEF MatCurrent, MatAt, Becomes
<1> QED
  BY <1>1, <1>2, <1>3, <1>4, <1>5, <1>6, <1>7, <1>8 DEF MatStep, OpenSegment

LEMMA CurrentStep ==
  ASSUME HostInv, CurrentInv, [Next]_vars
  PROVE  CurrentInv'
<1>0. FileTypeOK /\ WorkTypeOK /\ SenseTypeOK /\ SlotInv
  BY DEF HostInv
<1>a. /\ \A m : m \in Busy <=> m \in Slot /\ mat[m].pc # "idle"
      /\ \A m : m \in Busy' <=> m \in Slot /\ mat'[m].pc # "idle"
  BY DEF Busy, MatAt
<1>1. SUFFICES ASSUME solo', ~Pending'
               PROVE  /\ \A m \in Slot : MatCurrent(m)'
                      /\ Quiet' /\ ~spoiled' => ShowsAll'
  BY DEF CurrentInv
<1>b. ASSUME UNCHANGED <<workVars, sensorVars, solo>>
      PROVE  /\ solo /\ \A m \in Slot : MatCurrent(m)
             /\ \A b : OverlayOf(b)' = OverlayOf(b)
             /\ sense' = sense
  BY <1>1, <1>b DEF CurrentInv, Pending, LeafAt, RunAt, workVars, sensorVars, OverlayOf
<1>2. ASSUME NEW m \in Slot, Starts(m)
      PROVE  CurrentInv'
  <2>1. Becomes(m, "read", 1, 0, <<>>) /\ Busy = {}
    BY <1>0, <1>1, <1>2, StartsSlot, RecentStarts
  <2>2. \A n \in Slot : n # m => mat'[n] = NoMat
    BY <1>0, <1>a, <2>1 DEF Becomes, Others, SlotInv, MatAt
  <2>3. \A n \in Slot : MatCurrent(n)'
    BY <2>1, <2>2, NoMatType, CurrentBegins DEF Becomes
  <2>4. ~Quiet'
    BY <1>a, <2>1 DEF Quiet, Becomes
  <2> QED
    BY <2>3, <2>4 DEF CurrentInv
<1>3. CASE Publishes
  <2>1. UNCHANGED <<host, mat, files, cmdb, projection, solo, spoiled, work, sense>> /\ ~Pending
    BY <1>1, <1>3 DEF Publishes
  <2>2. \A b : OverlayOf(b)' = OverlayOf(b)
    BY <2>1 DEF OverlayOf
  <2>3. ASSUME NEW n \in Slot
        PROVE  MatCurrent(n)'
    <3>1. MatCurrent(n)
      BY <1>1, <2>1 DEF CurrentInv
    <3>2. BrokerAt(n)' = BrokerAt(n) /\ \A b : Passed(n, b)' = Passed(n, b) /\ Written(n, b)' = Written(n, b)
      BY <2>1 DEF BrokerAt, Passed, Written
    <3> QED
      BY <2>1, <2>2, <3>1, <3>2 DEF MatCurrent, MatAt
  <2>4. Quiet' = Quiet
    BY <2>1 DEF Quiet, Busy, MatAt
  <2>5. ShowsAll => ShowsAll'
    BY <2>1, <2>2 DEF ShowsAll
  <2> QED
    BY <1>1, <2>1, <2>3, <2>4, <2>5 DEF CurrentInv
<1>4. ASSUME NEW m \in Slot, MatStep(m)
      PROVE  CurrentInv'
  <2>1. mat[m].pc # "idle"
    BY <1>4 DEF MatStep, ReadForSegment, OpenSegment, FillSegment, ReadForCmdb, RenameCmdb, ReadSegment,
       OpenProjection, MatAt
  <2>2. MatCurrent(m) /\ solo
    BY <1>4, <1>b DEF MatStep
  <2>3. MatCurrent(m)' /\ Others(m)
    BY <1>0, <1>4, <2>2, CurrentMat
  <2>4. \A n \in Slot : MatCurrent(n)'
    BY <1>0, <2>1, <2>2, <2>3, CurrentOthers
  <2>5. mat'[m].pc # "idle"
    BY <1>0, <1>4, ReadSlot, OpenSlot, FillSlot, CmdbSlot, SlotNext, PartSlot, OutputSlot
       DEF MatStep, RenameCmdb, Becomes
  <2>6. ~Quiet'
    BY <1>a, <2>5 DEF Quiet
  <2> QED
    BY <2>4, <2>6 DEF CurrentInv
<1>5. ASSUME NEW m \in Slot, EndMat(m)
      PROVE  CurrentInv'
  <2>1. /\ Becomes(m, "idle", 1, 0, <<>>) /\ mat[m].pc = "output"
        /\ projection' \in Filled(projection, mat[m].parts)
        /\ UNCHANGED <<files, cmdb>>
    BY <1>0, <1>5, IdleSlot DEF EndMat, MatAt
  <2>2. MatCurrent(m) /\ solo /\ sense' = sense /\ \A b : OverlayOf(b)' = OverlayOf(b)
    BY <1>5, <1>b DEF EndMat
  <2>3. \A n \in Slot : MatCurrent(n)'
    BY <1>0, <2>1, <2>2, CurrentOthers, CurrentBegins DEF Becomes
  <2>4. projection' = Whole(mat[m].parts)
    BY <2>1, <2>2, FilledFacts DEF MatCurrent, MatAt
  <2>5. DOMAIN mat[m].parts = DOMAIN SegmentOrder
    BY <1>0, <2>1, OrderFacts DEF SlotInv, MatAt, FileTypeOK, MatType
  <2>6. \A b \in Broker : files[b] = Whole(OverlayOf(b))
    BY <2>1, <2>2 DEF MatCurrent, Written, Passed, Late
  <2>7. ASSUME NEW k \in DOMAIN SegmentOrder
        PROVE  mat[m].parts[k] = Whole(IF SegmentOrder[k] \in Broker THEN OverlayOf(SegmentOrder[k]) ELSE 0)
    <3>1. mat[m].parts[k] = files[SegmentOrder[k]]
      BY <2>2, <2>5 DEF MatCurrent
    <3>2. SegmentOrder[k] \in Broker \/ SegmentOrder[k] = "governance"
      BY OrderFacts DEF Segment
    <3>3. files["governance"] = Whole(0)
      BY <2>1, <2>2 DEF MatCurrent
    <3> QED
      BY <2>6, <3>1, <3>2, <3>3
  <2>8. cmdb = sense.env
    BY <2>1, <2>2 DEF MatCurrent, Passed, Late
  <2>9. ShowsAll'
    BY <2>1, <2>2, <2>4, <2>7, <2>8, TextFacts DEF ShowsAll
  <2> QED
    BY <2>3, <2>9 DEF CurrentInv
<1>6. ASSUME NEW m \in Slot, FailMat(m)
      PROVE  CurrentInv'
  <2>1. /\ Becomes(m, "idle", 1, 0, <<>>) /\ spoiled' = TRUE /\ mat[m].pc # "idle"
    BY <1>0, <1>6, IdleSlot DEF FailMat
  <2>2. solo
    BY <1>6, <1>b DEF FailMat
  <2>3. \A n \in Slot : MatCurrent(n)'
    BY <1>0, <2>1, <2>2, CurrentOthers, CurrentBegins DEF Becomes
  <2> QED
    BY <2>1, <2>3 DEF CurrentInv
<1>7. CASE Crash
  <2>1. (\A n \in Slot : mat'[n] = NoMat) /\ host' = "down"
    BY <1>7 DEF Crash
  <2>2. \A n \in Slot : MatCurrent(n)'
    BY <2>1, NoMatType, CurrentBegins
  <2>3. ~Quiet'
    BY <2>1 DEF Quiet
  <2> QED
    BY <2>2, <2>3 DEF CurrentInv
<1> QED
  BY <1>0, <1>1, <1>2, <1>3, <1>4, <1>5, <1>6, <1>7, FileMoves DEF CurrentInv

\* When the last materialisation overlapped no other and none failed, an agent reads every
\* broker's current overlay: no success stays unshown, since the one that published last
\* spawns a materialisation after it (boot's on_dispatch_complete, host.rs).
THEOREM QuietSafety == Spec => []QuietIsCurrent
<1>1. Init => CurrentInv
  <2> SUFFICES ASSUME Init
               PROVE  CurrentInv
    OBVIOUS
  <2>1. \A m \in Slot : mat[m] = NoMat
    BY DEF Init
  <2>2. \A m \in Slot : MatCurrent(m)
    BY <2>1, NoMatType DEF MatCurrent, MatAt, Passed, Written, Late
  <2>3. ~Quiet
    BY DEF Init, Quiet
  <2> QED
    BY <2>2, <2>3 DEF CurrentInv
<1>2. HostInv /\ CurrentInv /\ [Next]_vars => CurrentInv'
  BY CurrentStep
<1>3. HostInv /\ CurrentInv => QuietIsCurrent
  <2> SUFFICES ASSUME HostInv, CurrentInv, Quiet, NoDispatch, solo, ~spoiled
               PROVE  /\ IsWhole(projection)
                      /\ \A k \in DOMAIN SegmentOrder : IsWhole(projection[2][k])
                      /\ \A b \in Broker : Part(b) = Whole(OverlayOf(b))
                      /\ cmdb = sense.env
    BY DEF QuietIsCurrent
  <2>1. ~Pending
    BY DEF NoDispatch, Pending, LeafAt, RunAt
  <2>2. ShowsAll
    BY <2>1 DEF CurrentInv
  <2>3. \A b \in Broker : Part(b) = Whole(OverlayOf(b))
    BY <2>2, PartOf DEF ShowsAll
  <2> QED
    BY <2>2, <2>3, TextFacts DEF ShowsAll
<1> QED
  BY <1>1, <1>2, <1>3, HostInvariant, PTL DEF Spec

-----------------------------------------------------------------------------
(* The enforcer's window.  At an instant no admission is later than, the      *)
(* window is full, or it still holds every admission that counts at that      *)
(* instant, up to as many as had been overtaken.                              *)

AdmissionsOK ==
  /\ overtaken \in Nat
  /\ IsFiniteSet(admitted)
  /\ window \subseteq admitted
  /\ \A a \in admitted :
       /\ a.at \in Nat /\ a.nth \in Nat
       /\ a.nth <= Cardinality({b \in admitted : b.at = a.at})

Roomy(t) ==
  \/ Cardinality(Recent(t)) >= MaxWrites
  \/ Cardinality(AdmittedUpTo(t)) <= Cardinality(Recent(t)) + overtaken

WindowInv ==
  /\ AdmissionsOK
  /\ \A t \in Nat : (\A a \in admitted : a.at <= t) => Roomy(t)

LEMMA WindowInit ==
  ASSUME window = {}, admitted = {}, overtaken = 0
  PROVE  WindowInv /\ WritesPerWindow
<1>1. IsFiniteSet({}) /\ Cardinality({}) = 0
  BY FS_EmptySet
<1>2. \A t : Recent(t) = {} /\ AdmittedUpTo(t) = {}
  BY DEF Recent, AdmittedUpTo
<1>3. MaxWrites \in Nat
  BY SensorAssumption
<1> QED
  BY <1>1, <1>2, <1>3 DEF WindowInv, AdmissionsOK, Roomy, WritesPerWindow

\* The counts of the window are numbers.
LEMMA WindowCounts ==
  ASSUME AdmissionsOK, NEW t
  PROVE  /\ IsFiniteSet(Recent(t)) /\ Cardinality(Recent(t)) \in Nat
         /\ IsFiniteSet(AdmittedUpTo(t)) /\ Cardinality(AdmittedUpTo(t)) \in Nat
<1>1. Recent(t) \subseteq admitted /\ AdmittedUpTo(t) \subseteq admitted
  BY DEF AdmissionsOK, Recent, AdmittedUpTo
<1>2. IsFiniteSet(Recent(t)) /\ IsFiniteSet(AdmittedUpTo(t))
  BY <1>1, FS_Subset DEF AdmissionsOK
<1> QED
  BY <1>2, FS_CardinalityType

\* No admission is recorded twice.
LEMMA AdmissionFresh ==
  ASSUME AdmissionsOK, NEW now \in Nat
  PROVE  /\ Admission(now) \notin admitted
         /\ Admission(now).at = now /\ Admission(now).nth \in Nat
         /\ Admission(now).nth = Cardinality({b \in admitted : b.at = now}) + 1
<1> DEFINE same == {b \in admitted : b.at = now}
<1>1. IsFiniteSet(same)
  BY FS_Subset DEF AdmissionsOK
<1>2. Cardinality(same) \in Nat
  BY <1>1, FS_CardinalityType
<1>3. Admission(now).at = now /\ Admission(now).nth = Cardinality(same) + 1
  BY DEF Admission
<1> HIDE DEF same
<1>4. ASSUME Admission(now) \in admitted
      PROVE  FALSE
  <2>1. Admission(now).nth <= Cardinality(same)
    BY <1>3, <1>4 DEF AdmissionsOK, same
  <2> QED
    BY <1>2, <1>3, <2>1
<1> QED
  BY <1>2, <1>3, <1>4 DEF same

LEMMA AdmitsKeep ==
  ASSUME AdmissionsOK, NEW now \in Nat, admitted' = admitted \cup {Admission(now)},
         window' \subseteq admitted', overtaken' \in Nat
  PROVE  AdmissionsOK'
<1> DEFINE new == Admission(now)
           Of(t) == {b \in admitted : b.at = t}
           After(t) == {b \in admitted' : b.at = t}
<1>1. new \notin admitted /\ new.at = now /\ new.nth \in Nat /\ new.nth = Cardinality(Of(now)) + 1
  BY AdmissionFresh
<1>2. IsFiniteSet(admitted')
  BY FS_AddElement DEF AdmissionsOK
<1>3. \A t : IsFiniteSet(Of(t)) /\ IsFiniteSet(After(t))
  BY <1>2, FS_Subset DEF AdmissionsOK
<1>4. \A t : Cardinality(Of(t)) \in Nat /\ Cardinality(After(t)) \in Nat
  BY <1>3, FS_CardinalityType
<1>5. \A t : Cardinality(Of(t)) <= Cardinality(After(t))
  <2> TAKE t
  <2>1. Of(t) \subseteq After(t)
    OBVIOUS
  <2> QED
    BY <1>3, <2>1, FS_Subset
<1>6. After(now) = Of(now) \cup {new} /\ new \notin Of(now)
  BY <1>1
<1> HIDE DEF Of, After, new
<1>7. Cardinality(After(now)) = Cardinality(Of(now)) + 1
  BY <1>3, <1>6, FS_AddElement
<1>8. ASSUME NEW a \in admitted'
      PROVE  a.at \in Nat /\ a.nth \in Nat /\ a.nth <= Cardinality(After(a.at))
  <2>1. CASE a = new
    BY <1>1, <1>4, <1>7, <2>1
  <2>2. CASE a \in admitted
    <3>1. a.at \in Nat /\ a.nth \in Nat /\ a.nth <= Cardinality(Of(a.at))
      BY <2>2 DEF AdmissionsOK, Of
    <3>2. Cardinality(Of(a.at)) <= Cardinality(After(a.at))
      BY <1>5
    <3>3. Cardinality(Of(a.at)) \in Nat /\ Cardinality(After(a.at)) \in Nat
      BY <1>4
    <3> QED
      BY <3>1, <3>2, <3>3
  <2> QED
    BY <2>1, <2>2 DEF new
<1> QED
  BY <1>2, <1>8 DEF AdmissionsOK, After

\* A write that is admitted, overtaken or not.
LEMMA EnforceWindow ==
  ASSUME WindowInv, WritesPerWindow, NEW c \in Client, run[c].now \in Nat, Enforce(c)
  PROVE  WindowInv' /\ WritesPerWindow'
<1> DEFINE now == run[c].now
           new == Admission(run[c].now)
<1>0. AdmissionsOK /\ Window \in Nat /\ MaxWrites \in Nat
  BY SensorAssumption DEF WindowInv
<1>1. /\ Cardinality(Recent(now)) < MaxWrites
      /\ window' = Recent(now) \cup {new}
      /\ admitted' = admitted \cup {new}
      /\ overtaken' = IF \E a \in admitted : a.at > now THEN overtaken + 1 ELSE overtaken
  BY DEF Enforce, HasRoom
<1>2. new \notin admitted /\ new.at = now
  BY <1>0, AdmissionFresh
<1>3. overtaken \in Nat /\ overtaken' \in Nat /\ overtaken <= overtaken'
  BY <1>0, <1>1 DEF AdmissionsOK
<1>4. Recent(now) \subseteq admitted /\ \A a \in admitted : a.at \in Nat
  BY <1>0 DEF AdmissionsOK, Recent
<1>5. AdmissionsOK'
  <2>1. window' \subseteq admitted'
    BY <1>1, <1>4
  <2> QED
    BY <1>0, <1>1, <1>3, <2>1, AdmitsKeep
<1> HIDE DEF now, new
<1>6. \A t : /\ IsFiniteSet(Recent(t)) /\ Cardinality(Recent(t)) \in Nat
             /\ IsFiniteSet(AdmittedUpTo(t)) /\ Cardinality(AdmittedUpTo(t)) \in Nat
  BY <1>0, WindowCounts
<1>n. now \in Nat
  BY DEF now
<1>7. ASSUME NEW t \in Nat, \A a \in admitted' : a.at <= t
      PROVE  Roomy(t)'
  <2>1. now <= t /\ \A a \in admitted : a.at <= t
    BY <1>1, <1>2, <1>7
  <2>2. Roomy(t)
    BY <2>1 DEF WindowInv
  <2>3. \A a \in window : a.at \in Nat
    BY <1>0 DEF AdmissionsOK
  <2>4. Recent(t) \subseteq Recent(now)
    <3> SUFFICES ASSUME NEW a \in window, a.at + Window > t
                 PROVE  a.at + Window > now
      BY DEF Recent
    <3> QED
      BY <1>0, <1>n, <2>1, <2>3
  <2>5. CASE now + Window > t
    <3>1. Recent(t)' = Recent(t) \cup {new}
      <4>1. \A a \in Recent(now) : a \in window
        BY DEF Recent
      <4> QED
        BY <1>1, <1>2, <2>4, <2>5, <4>1 DEF Recent
    <3>2. AdmittedUpTo(t)' = AdmittedUpTo(t) \cup {new}
      BY <1>1, <1>2, <2>1, <2>5 DEF AdmittedUpTo
    <3>3. new \notin Recent(t) /\ new \notin AdmittedUpTo(t)
      BY <1>0, <1>2 DEF Recent, AdmittedUpTo, AdmissionsOK
    <3>4. /\ Cardinality(Recent(t)') = Cardinality(Recent(t)) + 1
          /\ Cardinality(AdmittedUpTo(t)') = Cardinality(AdmittedUpTo(t)) + 1
      BY <1>6, <3>1, <3>2, <3>3, FS_AddElement
    <3>5. Cardinality(Recent(t)) \in Nat /\ Cardinality(AdmittedUpTo(t)) \in Nat
      BY <1>6
    <3>6. CASE Cardinality(Recent(t)) >= MaxWrites
      BY <1>0, <3>4, <3>5, <3>6 DEF Roomy
    <3>7. CASE Cardinality(AdmittedUpTo(t)) <= Cardinality(Recent(t)) + overtaken
      BY <1>3, <3>4, <3>5, <3>7 DEF Roomy
    <3> QED
      BY <2>2, <3>6, <3>7 DEF Roomy
  <2>6. CASE ~(now + Window > t)
    <3>1. Recent(t)' = Recent(t)
      <4>1. \A a \in Recent(now) : a \in window
        BY DEF Recent
      <4> QED
        BY <1>1, <1>2, <2>4, <2>6, <4>1 DEF Recent
    <3>2. AdmittedUpTo(t)' = AdmittedUpTo(t)
      BY <1>1, <1>2, <2>6 DEF AdmittedUpTo
    <3>5. Cardinality(Recent(t)) \in Nat /\ Cardinality(AdmittedUpTo(t)) \in Nat
      BY <1>6
    <3> QED
      BY <1>3, <2>2, <3>1, <3>2, <3>5 DEF Roomy
  <2> QED
    BY <2>5, <2>6
<1>8. ASSUME NEW t \in 0 .. MaxClock
      PROVE  Cardinality(AdmittedUpTo(t)') <= MaxWrites + overtaken'
  <2>0. t \in Nat /\ Cardinality(AdmittedUpTo(t)) \in Nat
    BY <1>6, SensorAssumption
  <2>1. Cardinality(AdmittedUpTo(t)) <= MaxWrites + overtaken
    BY DEF WritesPerWindow
  <2>2. CASE new \in AdmittedUpTo(t)'
    <3>1. now <= t /\ now + Window > t
      BY <1>2, <2>2 DEF AdmittedUpTo
    <3>2. AdmittedUpTo(t)' = AdmittedUpTo(t) \cup {new} /\ new \notin AdmittedUpTo(t)
      BY <1>1, <1>2, <3>1 DEF AdmittedUpTo
    <3>3. Cardinality(AdmittedUpTo(t)') = Cardinality(AdmittedUpTo(t)) + 1
      BY <1>6, <3>2, FS_AddElement
    <3>4. CASE \E a \in admitted : a.at > now
      BY <1>0, <1>1, <1>3, <2>0, <2>1, <3>3, <3>4
    <3>5. CASE ~\E a \in admitted : a.at > now
      <4>1. \A a \in admitted : a.at <= now
        BY <1>4, <1>n, <3>5
      <4>2. Roomy(now)
        BY <1>n, <4>1 DEF WindowInv
      <4>3. Cardinality(AdmittedUpTo(now)) <= Cardinality(Recent(now)) + overtaken
        <5>1. Cardinality(Recent(now)) \in Nat
          BY <1>6
        <5> QED
          BY <1>0, <1>1, <4>2, <5>1 DEF Roomy
      <4>4. AdmittedUpTo(t) \subseteq AdmittedUpTo(now)
        <5> SUFFICES ASSUME NEW a \in admitted, a.at + Window > t
                     PROVE  a.at <= now /\ a.at + Window > now
          BY DEF AdmittedUpTo
        <5>1. a.at \in Nat /\ a.at <= now
          BY <1>4, <4>1
        <5> QED
          BY <1>0, <1>n, <2>0, <3>1, <5>1
      <4>5. Cardinality(AdmittedUpTo(t)) <= Cardinality(AdmittedUpTo(now))
        BY <1>6, <4>4, FS_Subset
      <4>6. Cardinality(AdmittedUpTo(now)) \in Nat /\ Cardinality(Recent(now)) \in Nat
        BY <1>6
      <4>7. overtaken' = overtaken
        BY <1>1, <3>5
      <4> QED
        BY <1>0, <1>1, <1>3, <2>0, <3>3, <4>3, <4>5, <4>6, <4>7
    <3> QED
      BY <3>4, <3>5
  <2>3. CASE new \notin AdmittedUpTo(t)'
    <3>1. AdmittedUpTo(t)' = AdmittedUpTo(t)
      BY <1>1, <2>3 DEF AdmittedUpTo
    <3> QED
      BY <1>0, <1>3, <2>0, <2>1, <3>1
  <2> QED
    BY <2>2, <2>3
<1> QED
  BY <1>5, <1>7, <1>8 DEF WindowInv, WritesPerWindow

\* A write that is refused has pruned the window, which is full.
LEMMA RefuseWindow ==
  ASSUME WindowInv, WritesPerWindow, NEW c \in Client, run[c].now \in Nat, RefuseWrite(c)
  PROVE  WindowInv' /\ WritesPerWindow'
<1> DEFINE now == run[c].now
<1>0. AdmissionsOK /\ Window \in Nat /\ MaxWrites \in Nat
  BY SensorAssumption DEF WindowInv
<1>1. /\ ~(Cardinality(Recent(now)) < MaxWrites)
      /\ window' = Recent(now) /\ admitted' = admitted /\ overtaken' = overtaken
  BY DEF RefuseWrite, HasRoom
<1>n. now \in Nat
  OBVIOUS
<1> HIDE DEF now
<1>2. AdmissionsOK'
  BY <1>0, <1>1 DEF AdmissionsOK, Recent
<1>3. \A a \in window : a.at \in Nat
  BY <1>0 DEF AdmissionsOK
<1>4. \A t : AdmittedUpTo(t)' = AdmittedUpTo(t)
  BY <1>1 DEF AdmittedUpTo
<1>5. ASSUME NEW t \in Nat, \A a \in admitted : a.at <= t
      PROVE  Roomy(t)'
  <2>1. Roomy(t)
    BY <1>5 DEF WindowInv
  <2>2. CASE t <= now
    <3>1. Recent(t)' = Recent(now)
      BY <1>0, <1>1, <1>3, <1>n, <2>2 DEF Recent
    <3>2. Cardinality(Recent(now)) \in Nat
      BY <1>0, WindowCounts
    <3> QED
      BY <1>0, <1>1, <3>1, <3>2 DEF Roomy
  <2>3. CASE ~(t <= now)
    <3>1. Recent(t)' = Recent(t)
      BY <1>0, <1>1, <1>3, <1>n, <2>3 DEF Recent
    <3> QED
      BY <1>1, <1>4, <2>1, <3>1 DEF Roomy
  <2> QED
    BY <2>2, <2>3
<1> QED
  BY <1>1, <1>2, <1>4, <1>5 DEF WindowInv, WritesPerWindow

LEMMA WindowStep ==
  ASSUME SenseTypeOK, WindowInv, WritesPerWindow, SenseMove \/ UNCHANGED sensorVars
  PROVE  WindowInv' /\ WritesPerWindow'
<1>1. ASSUME UNCHANGED <<window, admitted, overtaken>>
      PROVE  WindowInv' /\ WritesPerWindow'
  <2>1. \A t : Recent(t)' = Recent(t) /\ AdmittedUpTo(t)' = AdmittedUpTo(t)
    BY <1>1 DEF Recent, AdmittedUpTo
  <2>2. \A t : Roomy(t) => Roomy(t)'
    BY <1>1, <2>1 DEF Roomy
  <2>3. AdmissionsOK'
    BY <1>1 DEF WindowInv, AdmissionsOK
  <2>4. WindowInv'
    BY <1>1, <2>2, <2>3 DEF WindowInv
  <2> QED
    BY <1>1, <2>1, <2>4 DEF WritesPerWindow
<1>2. CASE SensorBoot
  <2>1. window' = {} /\ admitted' = {} /\ overtaken' = 0
    BY <1>2 DEF SensorBoot
  <2>2. IsFiniteSet({}) /\ Cardinality({}) = 0 /\ MaxWrites \in Nat
    BY FS_EmptySet, SensorAssumption
  <2>3. \A t : Recent(t)' = {} /\ AdmittedUpTo(t)' = {}
    BY <2>1 DEF Recent, AdmittedUpTo
  <2>4. AdmissionsOK'
    BY <2>1, <2>2 DEF AdmissionsOK
  <2>5. \A t : Roomy(t)'
    BY <2>1, <2>2, <2>3 DEF Roomy
  <2>6. WindowInv'
    BY <2>4, <2>5 DEF WindowInv
  <2>7. WritesPerWindow'
    BY <2>1, <2>2, <2>3 DEF WritesPerWindow
  <2> QED
    BY <2>6, <2>7
<1>3. ASSUME NEW c \in Client, StartRun(c) \/ SensorStep(c) \/ EndRun(c)
      PROVE  WindowInv' /\ WritesPerWindow'
  <2>1. run[c].now \in Nat
    BY DEF SenseTypeOK
  <2>2. CASE Enforce(c)
    BY <2>1, <2>2, EnforceWindow
  <2>3. CASE RefuseWrite(c)
    BY <2>1, <2>3, RefuseWindow
  <2>4. CASE ~Enforce(c) /\ ~RefuseWrite(c)
    BY <1>1, <1>3, <2>4 DEF StartRun, EndRun, SensorStep, Analyze, FailAnalyze, TakeInstant,
                            LoadOverlay, SwapOverlay
  <2> QED
    BY <2>2, <2>3, <2>4
<1>4. CASE ClockTicks \/ UNCHANGED sensorVars
  BY <1>1, <1>4 DEF ClockTicks, sensorVars
<1> QED
  BY <1>2, <1>3, <1>4 DEF SenseMove

\* Between any two instants less than a window apart the enforcer admits no more writes
\* than its limit and one for each whose instant a later one had overtaken, for any number
\* of runs at once and any window (sensory_queue.rs, try_write and enforce).
THEOREM WriteSafety == Spec => []WritesPerWindow
<1>1. Init => SenseTypeOK /\ WindowInv /\ WritesPerWindow
  BY SenseTypeInit, WindowInit DEF Init, SensorInit
<1>2. SenseTypeOK /\ WindowInv /\ WritesPerWindow /\ [Next]_vars
        => (SenseTypeOK /\ WindowInv /\ WritesPerWindow)'
  BY SenseMoves, SenseTypeStep, WindowStep
<1> QED
  BY <1>1, <1>2, PTL DEF Spec

==============================================================================
