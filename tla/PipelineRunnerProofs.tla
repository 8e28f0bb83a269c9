------------------------ MODULE PipelineRunnerProofs -------------------------
(***************************************************************************)
(* Theorems about PipelineRunner, for every set of callers, catalog,       *)
(* ceiling and rate limit: types and the governance bounds first, then the *)
(* trace file and its chain of deltas, then what the budget is spent on.   *)
(***************************************************************************)
EXTENDS PipelineRunner, FiniteSetTheorems, TLAPS

------------------------------------------------------------------------------
\* The delta of two overlays is a delta (SnapshotDelta::compute).
LEMMA ComputeType ==
  ASSUME NEW p \in Overlay, NEW c \in Overlay
  PROVE  Compute(p, c) \in Delta
<1>1. PICK S \in SUBSET Key : p \in [S -> Val]
  BY DEF Overlay
<1>2. PICK S2 \in SUBSET Key : c \in [S2 -> Val]
  BY DEF Overlay
<1>3. DOMAIN p = S /\ DOMAIN c = S2
  BY <1>1, <1>2
<1>4. [k \in DOMAIN c \ DOMAIN p |-> c[k]] \in Overlay
  <2>1. [k \in DOMAIN c \ DOMAIN p |-> c[k]] \in [S2 \ S -> Val]
    BY <1>2, <1>3
  <2> QED
    BY <2>1 DEF Overlay
<1>5. DOMAIN p \ DOMAIN c \in SUBSET Key
  BY <1>3
<1>6. ASSUME NEW D, D = {k \in DOMAIN p \cap DOMAIN c : p[k] # c[k]}
      PROVE  [k \in D |-> [from |-> p[k], to |-> c[k]]]
               \in UNION {[Q -> [from : Val, to : Val]] : Q \in SUBSET Key}
  <2>1. D \in SUBSET Key /\ D \subseteq S /\ D \subseteq S2
    BY <1>3, <1>6
  <2>2. [k \in D |-> [from |-> p[k], to |-> c[k]]] \in [D -> [from : Val, to : Val]]
    BY <2>1, <1>1, <1>2
  <2> QED
    BY <2>1, <2>2
<1> QED
  BY <1>4, <1>5, <1>6 DEF Compute, Delta

\* The recovery promised by the documentation of trace.rs: applying the delta
\* of two overlays to the first one gives the second one.
THEOREM DeltaRoundTrip ==
  ASSUME NEW p \in Overlay, NEW c \in Overlay
  PROVE  ApplyDelta(p, Compute(p, c)) = c
<1> DEFINE d == Compute(p, c)
           E == {k \in DOMAIN p \cap DOMAIN c : p[k] # c[k]}
<1>1. PICK S \in SUBSET Key : c \in [S -> Val]
  BY DEF Overlay
<1>2. /\ d.added = [k \in DOMAIN c \ DOMAIN p |-> c[k]]
      /\ d.removed = DOMAIN p \ DOMAIN c
      /\ d.changed = [k \in E |-> [from |-> p[k], to |-> c[k]]]
  BY DEF Compute
<1>3. /\ DOMAIN d.added = DOMAIN c \ DOMAIN p
      /\ DOMAIN d.changed = E
  BY <1>2
<1>4. (DOMAIN p \ d.removed) \cup DOMAIN d.added = DOMAIN c
  BY <1>2, <1>3
<1> DEFINE v(k) == IF k \in DOMAIN d.added THEN d.added[k]
                   ELSE IF k \in DOMAIN d.changed THEN d.changed[k].to
                   ELSE p[k]
<1>5. ASSUME NEW k \in DOMAIN c PROVE v(k) = c[k]
  <2>1. CASE k \notin DOMAIN p
    <3>1. k \in DOMAIN d.added /\ d.added[k] = c[k]
      BY <1>2, <1>3, <2>1
    <3> QED BY <3>1
  <2>2. CASE k \in DOMAIN p /\ p[k] # c[k]
    <3>1. k \notin DOMAIN d.added /\ k \in DOMAIN d.changed
      BY <1>3, <2>2
    <3>2. d.changed[k].to = c[k]
      BY <1>2, <2>2
    <3> QED BY <3>1, <3>2
  <2>3. CASE k \in DOMAIN p /\ p[k] = c[k]
    <3>1. k \notin DOMAIN d.added /\ k \notin DOMAIN d.changed
      BY <1>3, <2>3
    <3> QED BY <3>1, <2>3
  <2> QED BY <2>1, <2>2, <2>3
<1>6. ApplyDelta(p, d) = [k \in DOMAIN c |-> v(k)]
  BY <1>4 DEF ApplyDelta
<1> HIDE DEF d, v
<1>7. [k \in DOMAIN c |-> v(k)] = [k \in DOMAIN c |-> c[k]]
  BY <1>5
<1>8. c = [k \in DOMAIN c |-> c[k]]
  BY <1>1
<1> QED
  BY <1>6, <1>7, <1>8 DEF d
------------------------------------------------------------------------------
\* The frame operators keep a frame a frame.
LEMMA EmptyOverlayType ==
  EmptyOverlay \in Overlay
<1>1. EmptyOverlay \in [{} -> Val]
  BY DEF EmptyOverlay
<1> QED
  BY <1>1 DEF Overlay

LEMMA NoDeltaType ==
  NoDelta \in Delta
<1>1. EmptyOverlay \in [{} -> [from : Val, to : Val]]
  BY DEF EmptyOverlay
<1>2. EmptyOverlay \in UNION {[S -> [from : Val, to : Val]] : S \in SUBSET Key}
  BY <1>1
<1> QED
  BY <1>2, EmptyOverlayType DEF NoDelta, Delta

LEMMA IdleType ==
  Idle \in Frame
<1>1. (CHOOSE b \in Broker : TRUE) \in Broker
  BY RunnerAssumption
<1>2. (CHOOSE p \in Pipeline : TRUE) \in Pipeline
  BY RunnerAssumption
<1> QED
  BY <1>1, <1>2, EmptyOverlayType, NoDeltaType
     DEF Idle, Frame, Phase, Why, Refused

LEMMA NewFrameType ==
  ASSUME nextId \in Nat, NEW b \in Broker, NEW p \in Pipeline, NEW parent \in Nat
  PROVE  NewFrame(b, p, parent) \in Frame
<1>1. (IF p \in DOMAIN Catalog THEN Catalog[p].steps ELSE <<>>) \in Seq(Step)
  BY CatalogAssumption
<1>2. NewFrame(b, p, parent).at \in Phase
  <2>1. CASE p \notin DOMAIN Catalog
    BY <2>1 DEF NewFrame, Phase
  <2>2. CASE p \in DOMAIN Catalog /\ Surfaced(p)
    BY <2>2 DEF NewFrame, Phase
  <2>3. CASE p \in DOMAIN Catalog /\ ~Surfaced(p)
    BY <2>3 DEF NewFrame, Phase
  <2> QED BY <2>1, <2>2, <2>3
<1> QED
  BY <1>1, <1>2, EmptyOverlayType, NoDeltaType DEF NewFrame, Frame, Why, Refused

LEMMA ResumeType ==
  ASSUME NEW f \in Frame
  PROVE  Resume(f) \in Frame
BY DEF Resume, Frame, Phase, Why, Refused

LEMMA RefuseType ==
  ASSUME NEW f \in Frame, NEW why \in Refused
  PROVE  Refuse(f, why) \in Frame
BY DEF Refuse, Frame, Phase, Why

\* A frame whose remaining steps, or snapshot, are replaced.
LEMMA TodoType ==
  ASSUME NEW f \in Frame, NEW todo \in Seq(Step)
  PROVE  [f EXCEPT !.todo = todo] \in Frame
BY DEF Frame

LEMMA RestType ==
  ASSUME NEW f \in Frame, f.todo # <<>>
  PROVE  /\ Rest(f) \in Frame
         /\ Head(f.todo) \in Step
         /\ Tail(f.todo) \in Seq(Step)
<1>1. f.todo \in Seq(Step)
  BY DEF Frame
<1>2. Tail(f.todo) \in Seq(Step) /\ Head(f.todo) \in Step
  BY <1>1
<1> QED
  BY <1>2, TodoType DEF Rest

\* A caller that resumes or fails after a nested dispatch.
LEMMA ReturnedType ==
  ASSUME NEW f \in Frame, NEW why \in Why
  PROVE  Returned(f, why) \in Frame
BY ResumeType, RefuseType DEF Returned, Refused
------------------------------------------------------------------------------
\* Every variable keeps its type: frames stay frames through every check, step
\* and nested dispatch, and the trace holds only records.
THEOREM TypeCorrect == Spec => []TypeOK
<1>1. Init => TypeOK
  <2> SUFFICES ASSUME Init PROVE TypeOK
    OBVIOUS
  <2> USE DEF Init, TypeOK
  <2>1. cur \in [Task -> Frame]
    BY IdleType
  <2>2. overlay \in [Broker -> Overlay] /\ prior \in [Broker -> [id : Nat, snap : Overlay]]
    BY EmptyOverlayType DEF NoPrior
  <2>3. /\ hits \in [Pipeline -> Nat]
        /\ trace \in Seq(Record)
        /\ callers \in [Task -> Seq(Frame)]
    OBVIOUS
  <2>4. armed \in BOOLEAN
    BY Zenon
  <2> QED
    BY <2>1, <2>2, <2>3, <2>4
<1>2. TypeOK /\ [Next]_vars => TypeOK'
  <2> SUFFICES ASSUME TypeOK, [Next]_vars PROVE TypeOK'
    OBVIOUS
  <2> USE DEF TypeOK, gov, ghost
  <2>1. ASSUME NEW t \in Task, Dispatch(t) PROVE TypeOK'
    <3>1. PICK r \in Request : cur' = [cur EXCEPT ![t] = NewFrame(r[1], r[2], 0)]
      BY <2>1 DEF Dispatch, Goto
    <3>2. NewFrame(r[1], r[2], 0) \in Frame
      BY RunnerAssumption, NewFrameType
    <3> QED
      BY <2>1, <3>1, <3>2 DEF Dispatch
  <2>2. ASSUME NEW t \in Task, CheckBudget(t) PROVE TypeOK'
    <3>1. [cur[t] EXCEPT !.at = "kill"] \in Frame
      BY DEF Frame, Phase
    <3>2. Refuse(cur[t], "budget") \in Frame
      BY RefuseType DEF Refused
    <3> QED
      BY <2>2, <3>1, <3>2 DEF CheckBudget, Goto
  <2>3. ASSUME NEW t \in Task, CheckKillSwitch(t) PROVE TypeOK'
    <3>1. [cur[t] EXCEPT !.at = "subgate"] \in Frame
      BY DEF Frame, Phase
    <3>2. Refuse(cur[t], "kill_switch") \in Frame
      BY RefuseType DEF Refused
    <3> QED
      BY <2>3, <3>1, <3>2 DEF CheckKillSwitch, Goto
  <2>4. ASSUME NEW t \in Task, CheckSubgate(t) PROVE TypeOK'
    <3>1. [cur[t] EXCEPT !.at = "ready"] \in Frame
      BY DEF Frame, Phase
    <3>2. Refuse(cur[t], "subgate") \in Frame
      BY RefuseType DEF Refused
    <3>3. cur[t].pl \in Pipeline
      BY DEF Frame
    <3>4. hits' \in [Pipeline -> Nat]
      BY <2>4, <3>3 DEF CheckSubgate
    <3>5. cur' \in [Task -> Frame]
      BY <2>4, <3>1, <3>2 DEF CheckSubgate, Goto
    <3> QED
      BY <2>4, <3>4, <3>5 DEF CheckSubgate
  <2>5. ASSUME NEW t \in Task, ReadOverlay(t) PROVE TypeOK'
    <3> DEFINE f == [cur[t] EXCEPT !.snap = overlay[cur[t].broker]]
    <3>1. f \in Frame
      BY DEF Frame
    <3>2. Refuse(cur[t], "param") \in Frame /\ Refuse(f, "precondition") \in Frame
      BY <3>1, RefuseType DEF Refused
    <3>3. Admit(f) \in Frame
      <4>1. [f EXCEPT !.at = "record"] \in Frame
        BY <3>1 DEF Frame, Phase
      <4> QED
        BY <3>1, <4>1, ResumeType DEF Admit
    <3> HIDE DEF f
    <3>4. \/ cur' = [cur EXCEPT ![t] = Refuse(cur[t], "param")]
          \/ cur' = [cur EXCEPT ![t] = Refuse(f, "precondition")]
          \/ cur' = [cur EXCEPT ![t] = Admit(f)]
      BY <2>5 DEF ReadOverlay, Goto, f
    <3>5. cur' \in [Task -> Frame]
      BY <3>2, <3>3, <3>4
    <3> QED
      BY <2>5, <3>5 DEF ReadOverlay
  <2>6. ASSUME NEW t \in Task, RecordDispatch(t) PROVE TypeOK'
    <3>1. cur' \in [Task -> Frame]
      BY <2>6, ResumeType DEF RecordDispatch, Goto
    <3>2. cur[t].id \in Nat
      BY DEF Frame
    <3>3. used' \in Nat /\ charged' \subseteq Nat
      <4>1. used' = used + 1 /\ charged' = charged \cup {cur[t].id}
        BY <2>6, Zenon DEF RecordDispatch, Consumed
      <4>2. used' \in Nat
        BY <4>1
      <4>3. charged' \subseteq Nat
        BY <3>2, <4>1, Zenon
      <4> QED BY <4>2, <4>3
    <3>4. slipped' \in Nat
      <4>1. slipped' \in {slipped, slipped + 1}
        BY <2>6, Zenon DEF RecordDispatch
      <4> QED BY <4>1
    <3> QED
      BY <2>6, <3>1, <3>3, <3>4 DEF RecordDispatch
  <2>7. ASSUME NEW t \in Task, ReadPost(t) PROVE TypeOK'
    <3>1. [cur[t] EXCEPT !.snap = overlay[cur[t].broker], !.at = "delta"] \in Frame
      BY DEF Frame, Phase
    <3> QED
      BY <2>7, <3>1 DEF ReadPost, Goto
  <2>8. ASSUME NEW t \in Task, ComputeDelta(t) PROVE TypeOK'
    <3> DEFINE f == cur[t]
               d == Compute(prior[f.broker].snap, f.snap)
               g == [f EXCEPT !.from = prior[f.broker].id, !.delta = d, !.at = "trace"]
    <3>1. f \in Frame /\ f.broker \in Broker /\ f.snap \in Overlay /\ f.id \in Nat
      BY DEF Frame
    <3>2. prior[f.broker].id \in Nat /\ prior[f.broker].snap \in Overlay
      BY <3>1
    <3>3. d \in Delta
      BY <3>1, <3>2, ComputeType
    <3>4. g \in Frame
      <4> DEFINE h == [f EXCEPT !.from = prior[f.broker].id]
                 i == [h EXCEPT !.delta = d]
      <4>1. h \in Frame
        BY <3>1, <3>2 DEF Frame
      <4>2. i \in Frame
        <5> HIDE DEF d, h
        <5> QED BY <3>3, <4>1 DEF Frame
      <4>3. [i EXCEPT !.at = "trace"] \in Frame
        <5> HIDE DEF i
        <5> QED BY <4>2 DEF Frame, Phase
      <4>4. g = [i EXCEPT !.at = "trace"]
        OBVIOUS
      <4> QED BY <4>3, <4>4
    <3>5. cur' = [cur EXCEPT ![t] = g]
      BY <2>8 DEF ComputeDelta, Goto
    <3>6. prior' \in [Broker -> [id : Nat, snap : Overlay]]
      BY <2>8, <3>1 DEF ComputeDelta, PriorAfter
    <3> HIDE DEF g
    <3>7. cur' \in [Task -> Frame]
      BY <3>4, <3>5
    <3> QED
      BY <2>8, <3>6, <3>7 DEF ComputeDelta
  <2>9. ASSUME NEW t \in Task, RunLeaf(t) PROVE TypeOK'
    <3>1. Rest(cur[t]) \in Frame
      BY <2>9, RestType DEF RunLeaf, Kind
    <3>2. cur' \in [Task -> Frame]
      BY <2>9, <3>1, ResumeType DEF RunLeaf, Goto
    <3>5. armed' \in BOOLEAN
      BY <2>9, Zenon DEF RunLeaf, SetArmed
    <3>3. slipped' \in Nat
      <4>1. slipped' \in {slipped, 0}
        BY <2>9, Zenon DEF RunLeaf, SetArmed
      <4> QED BY <4>1
    <3>4. overlay' \in [Broker -> Overlay]
      BY <2>9 DEF RunLeaf
    <3> QED
      BY <2>9, <3>2, <3>3, <3>4, <3>5 DEF RunLeaf
  <2>10. ASSUME NEW t \in Task, FailLeaf(t) PROVE TypeOK'
    <3>1. Refuse(cur[t], "leaf") \in Frame
      BY RefuseType DEF Refused
    <3> QED
      BY <2>10, <3>1 DEF FailLeaf, Goto
  <2>11. ASSUME NEW t \in Task, CallSub(t) PROVE TypeOK'
    <3> DEFINE f      == cur[t]
               callee == Head(f.todo).callee
    <3>1. f \in Frame /\ f.id \in Nat
      BY DEF Frame
    <3>9. Head(f.todo) \in Step /\ Rest(f) \in Frame
      BY <2>11, <3>1, RestType DEF CallSub, Kind
    <3>2. Head(f.todo).kind = "sub"
      BY <2>11 DEF CallSub, Kind
    <3>3. callee \in Pipeline /\ BrokerOf[callee] \in Broker
      BY <3>9, <3>2, CatalogAssumption, RunnerAssumption
    <3>4. NewFrame(BrokerOf[callee], callee, f.id) \in Frame
      BY <3>1, <3>3, NewFrameType
    <3>5. Refuse(f, "sub") \in Frame
      BY <3>1, RefuseType DEF Refused
    <3>6. cur' \in [Task -> Frame]
      BY <2>11, <3>4, <3>5 DEF CallSub, Goto
    <3>7. callers' \in [Task -> Seq(Frame)]
      <4> DEFINE r == Rest(f)
      <4>1. callers[t] \in Seq(Frame) /\ r \in Frame
        BY <3>9
      <4> HIDE DEF r
      <4>2. Append(callers[t], r) \in Seq(Frame)
        BY <4>1
      <4>3. \/ callers' = [callers EXCEPT ![t] = Append(callers[t], r)]
            \/ callers' = callers
        BY <2>11 DEF CallSub, r
      <4> QED BY <4>2, <4>3
    <3>8. nextId' \in Nat
      BY <2>11 DEF CallSub
    <3> QED
      BY <2>11, <3>6, <3>7, <3>8 DEF CallSub
  <2>12. ASSUME NEW t \in Task, RunChoice(t) PROVE TypeOK'
    <3> DEFINE f == cur[t]
               s == Head(f.todo)
    <3>1. f \in Frame /\ f.todo # <<>>
      BY <2>12 DEF RunChoice, Kind
    <3>2. s \in Step /\ Tail(f.todo) \in Seq(Step)
      BY <3>1, RestType
    <3>3. \E c \in Seq(Step) :
             cur' = [cur EXCEPT ![t] = Resume([f EXCEPT !.todo = c \o Tail(@)])]
      <4>1. CASE s.kind = "guard"
        <5>1. s.inner \in Step
          BY <3>2, <4>1, CatalogAssumption
        <5>2. CASE Holds(s.pred, f.snap)
          <6>1. <<s.inner>> \in Seq(Step)
            BY <5>1
          <6> QED BY <2>12, <4>1, <5>2, <6>1 DEF RunChoice, Goto
        <5>3. CASE ~Holds(s.pred, f.snap)
          <6>1. <<>> \in Seq(Step)
            OBVIOUS
          <6> QED BY <2>12, <4>1, <5>3, <6>1 DEF RunChoice, Goto
        <5> QED BY <5>2, <5>3
      <4>2. CASE s.kind = "branch"
        <5>1. s.ifTrue \in Step /\ s.ifFalse \in Step
          BY <3>2, <4>2, CatalogAssumption
        <5>2. CASE Holds(s.pred, f.snap)
          <6>1. <<s.ifTrue>> \in Seq(Step)
            BY <5>1
          <6> QED BY <2>12, <4>2, <5>2, <6>1 DEF RunChoice, Goto
        <5>3. CASE ~Holds(s.pred, f.snap)
          <6>1. <<s.ifFalse>> \in Seq(Step)
            BY <5>1
          <6> QED BY <2>12, <4>2, <5>3, <6>1 DEF RunChoice, Goto
        <5> QED BY <5>2, <5>3
      <4> QED BY <2>12, <4>1, <4>2 DEF RunChoice, Kind
    <3>4. PICK c \in Seq(Step) :
             cur' = [cur EXCEPT ![t] = Resume([f EXCEPT !.todo = c \o Tail(@)])]
      BY <3>3
    <3>5. [f EXCEPT !.todo = c \o Tail(@)] \in Frame
      <4>1. c \o Tail(f.todo) \in Seq(Step)
        BY <3>2
      <4> QED BY <3>1, <4>1, TodoType
    <3>6. cur' \in [Task -> Frame]
      BY <3>4, <3>5, ResumeType
    <3> QED
      BY <2>12, <3>6 DEF RunChoice
  <2>13. ASSUME NEW t \in Task, Finish(t) PROVE TypeOK'
    <3>1. cur[t] \in Frame /\ cur[t].id \in Nat /\ cur[t].why \in Why
      BY DEF Frame
    <3>2. RecordOf(cur[t]) \in Record
      BY <3>1 DEF Frame, Record, RecordOf
    <3>3. trace' \in Seq(Record) /\ lost' \subseteq Nat
      <4> DEFINE r == RecordOf(cur[t])
      <4>1. \/ trace' = Append(trace, r) /\ lost' = lost
            \/ trace' = trace /\ lost' = lost \cup {cur[t].id}
        BY <2>13 DEF Finish, AppendTrace
      <4> HIDE DEF r
      <4>2. Append(trace, r) \in Seq(Record)
        BY <3>2 DEF r
      <4> QED BY <3>1, <4>1, <4>2
    <3>4. notified' \subseteq Nat
      BY <2>13, <3>1 DEF Finish
    <3>5. cur' \in [Task -> Frame] /\ callers' \in [Task -> Seq(Frame)]
      <4> DEFINE n == Len(callers[t])
      <4>1. callers[t] \in Seq(Frame) /\ n \in Nat
        OBVIOUS
      <4>2. CASE n = 0
        <5>1. cur' = [cur EXCEPT ![t] = Idle] /\ callers' = callers
          BY <2>13, <4>2 DEF Finish, Goto
        <5> QED BY <5>1, IdleType
      <4>3. CASE n > 0
        <5>1. callers[t][n] \in Frame
          BY <4>1, <4>3
        <5>2. SubSeq(callers[t], 1, n - 1) \in Seq(Frame)
          BY <4>1, <4>3
        <5>3. Returned(callers[t][n], cur[t].why) \in Frame
          BY <5>1, <3>1, ReturnedType
        <5>4. /\ cur' = [cur EXCEPT ![t] = Returned(callers[t][n], cur[t].why)]
              /\ callers' = [callers EXCEPT ![t] = SubSeq(callers[t], 1, n - 1)]
          BY <2>13, <4>3 DEF Finish, Goto
        <5> QED
          BY <5>2, <5>3, <5>4
      <4> QED BY <4>1, <4>2, <4>3
    <3> QED
      BY <2>13, <3>3, <3>4, <3>5 DEF Finish
  <2>14. ASSUME NEW p \in Pipeline, WindowPasses(p) PROVE TypeOK'
    BY <2>14 DEF WindowPasses
  <2>15. CASE OperatorResetBudget
    BY <2>15 DEF OperatorResetBudget
  <2>16. CASE OperatorSetKillSwitch
    BY <2>16 DEF OperatorSetKillSwitch, SetArmed
  <2>17. ASSUME NEW b \in Registered, Tick(b) PROVE TypeOK'
    BY <2>17, RunnerAssumption DEF Tick
  <2>18. CASE Restart
    <3>1. InFlight \subseteq Nat
      <4>1. \A t \in Task : cur[t].id \in Nat
        BY DEF Frame
      <4>2. ASSUME NEW t \in Task, NEW i \in DOMAIN callers[t]
            PROVE  callers[t][i].id \in Nat
        <5>1. callers[t] \in Seq(Frame)
          OBVIOUS
        <5>2. callers[t][i] \in Frame
          BY <5>1
        <5> QED BY <5>2 DEF Frame
      <4> QED BY <4>1, <4>2 DEF InFlight
    <3>2. cur' \in [Task -> Frame] /\ callers' \in [Task -> Seq(Frame)]
      BY <2>18, IdleType DEF Restart
    <3>3. /\ overlay' \in [Broker -> Overlay]
          /\ prior' \in [Broker -> [id : Nat, snap : Overlay]]
      BY <2>18, EmptyOverlayType DEF Restart, NoPrior
    <3> QED
      <4>1. lost' \subseteq Nat
        BY <2>18, <3>1 DEF Restart
      <4>2. hits' \in [Pipeline -> Nat] /\ used' \in Nat /\ slipped' \in Nat
            /\ env' \in Nat
        BY <2>18 DEF Restart
      <4>3. armed' \in BOOLEAN
        BY <2>18, Zenon DEF Restart
      <4> QED
        BY <2>18, <3>2, <3>3, <4>1, <4>2, <4>3 DEF Restart
  <2>19. CASE UNCHANGED vars
    BY <2>19 DEF vars
  <2> QED
    BY <2>1, <2>2, <2>3, <2>4, <2>5, <2>6, <2>7, <2>8, <2>9, <2>10, <2>11,
       <2>12, <2>13, <2>14, <2>15, <2>16, <2>17, <2>18, <2>19
       DEF Next, Proceed, Check, Execute, Conclude
<1> QED
  BY <1>1, <1>2, PTL DEF Spec
------------------------------------------------------------------------------
\* A set of callers is finite, and removing a caller counts one less.
LEMMA CallersFinite ==
  ASSUME NEW S \in SUBSET Task
  PROVE  /\ IsFiniteSet(S)
         /\ Cardinality(S) \in Nat
         /\ Cardinality(S) <= Cardinality(Task)
BY RunnerAssumption, FS_Subset, FS_CardinalityType

LEMMA Fewer ==
  ASSUME NEW S \in SUBSET Task, NEW U \in SUBSET S
  PROVE  Cardinality(U) <= Cardinality(S)
BY CallersFinite, FS_Subset

LEMMA OneFewer ==
  ASSUME NEW S \in SUBSET Task, NEW t \in S, NEW U \in SUBSET S, t \notin U
  PROVE  Cardinality(U) + 1 <= Cardinality(S)
<1>1. IsFiniteSet(S) /\ U \in SUBSET (S \ {t}) /\ IsFiniteSet(S \ {t})
  BY CallersFinite
<1>2. Cardinality(U) <= Cardinality(S \ {t})
  BY <1>1, FS_Subset
<1>3. Cardinality(S \ {t}) = Cardinality(S) - 1
  BY <1>1, FS_RemoveElement
<1>4. Cardinality(S) \in Nat /\ Cardinality(U) \in Nat /\ Cardinality(S \ {t}) \in Nat
  BY CallersFinite
<1> QED
  BY <1>2, <1>3, <1>4

LEMMA SomeCaller ==
  Cardinality(Task) \in Nat /\ Cardinality(Task) > 0
<1>1. PICK t : t \in Task
  BY RunnerAssumption
<1>2. Cardinality({}) + 1 <= Cardinality(Task)
  BY <1>1, OneFewer
<1> QED
  BY <1>2, CallersFinite, FS_EmptySet

\* The phases between the budget check and the charge belong to surfaced
\* pipelines only.
GovernedSurfaced ==
  \A t \in Task : cur[t].at \in {"budget", "kill", "subgate", "record"}
                    => Surfaced(cur[t].pl)

\* The inductive invariant behind the bound on the budget: what was consumed
\* together with what is about to be.  The bound alone is not inductive: it
\* says nothing of the dispatches that have passed the check.
BudgetInv ==
  /\ GovernedSurfaced
  /\ IF Ceiling = 0 THEN used = 0 /\ Uncharged = {}
     ELSE used + Cardinality(Uncharged) < Ceiling + Cardinality(Task)

\* The inductive invariant behind the latency of the kill switch: the
\* dispatches that slipped through together with those past their check.
KillInv ==
  IF armed THEN slipped + Cardinality(Unstoppable) <= Cardinality(Task)
           ELSE slipped = 0
------------------------------------------------------------------------------
\* One task's frame is replaced: what becomes of the counted sets.
LEMMA FrameMoves ==
  ASSUME TypeOK, NEW t \in Task, NEW g, cur' = [cur EXCEPT ![t] = g]
  PROVE  /\ Uncharged' =
              IF g.at \in {"kill", "subgate", "ready", "record"} /\ Surfaced(g.pl)
                THEN Uncharged \cup {t} ELSE Uncharged \ {t}
         /\ Unstoppable' =
              IF g.at \in {"subgate", "ready", "record"} /\ Surfaced(g.pl)
                   /\ ~Bypasses(g.pl)
                THEN Unstoppable \cup {t} ELSE Unstoppable \ {t}
         /\ /\ GovernedSurfaced
            /\ g.at \in {"budget", "kill", "subgate", "record"} => Surfaced(g.pl)
            => GovernedSurfaced'
<1>1. /\ cur'[t] = g
      /\ \A u \in Task \ {t} : cur'[u] = cur[u]
  BY DEF TypeOK
<1>2. Uncharged' = {u \in Task : /\ cur'[u].at \in {"kill", "subgate", "ready", "record"}
                                 /\ Surfaced(cur'[u].pl)}
  BY DEF Uncharged
<1>3. Unstoppable' = {u \in Task : /\ cur'[u].at \in {"subgate", "ready", "record"}
                                   /\ Surfaced(cur'[u].pl) /\ ~Bypasses(cur'[u].pl)}
  BY DEF Unstoppable
<1>4. GovernedSurfaced' =
        \A u \in Task : cur'[u].at \in {"budget", "kill", "subgate", "record"}
                          => Surfaced(cur'[u].pl)
  BY DEF GovernedSurfaced
<1>5. Uncharged' = IF g.at \in {"kill", "subgate", "ready", "record"} /\ Surfaced(g.pl)
                     THEN Uncharged \cup {t} ELSE Uncharged \ {t}
  BY <1>1, <1>2 DEF Uncharged
<1>6. Unstoppable' = IF g.at \in {"subgate", "ready", "record"} /\ Surfaced(g.pl)
                          /\ ~Bypasses(g.pl)
                       THEN Unstoppable \cup {t} ELSE Unstoppable \ {t}
  BY <1>1, <1>3 DEF Unstoppable
<1>7. /\ GovernedSurfaced
      /\ g.at \in {"budget", "kill", "subgate", "record"} => Surfaced(g.pl)
      => GovernedSurfaced'
  BY <1>1, <1>4 DEF GovernedSurfaced
<1> QED
  BY <1>5, <1>6, <1>7

\* A frame outside the governed phases is in neither counted set.
LEMMA Passive ==
  ASSUME TypeOK, GovernedSurfaced, NEW t \in Task, NEW g,
         cur' = [cur EXCEPT ![t] = g],
         g.at \in {"idle", "run", "post", "delta", "trace"}
  PROVE  /\ GovernedSurfaced'
         /\ Uncharged' \subseteq Uncharged \ {t}
         /\ Unstoppable' \subseteq Unstoppable \ {t}
BY FrameMoves

\* A new frame starts before the budget check, or is never charged.
LEMMA NewFrameMoves ==
  ASSUME TypeOK, GovernedSurfaced, NEW t \in Task, NEW b, NEW p, NEW parent,
         cur' = [cur EXCEPT ![t] = NewFrame(b, p, parent)]
  PROVE  /\ GovernedSurfaced'
         /\ Uncharged' \subseteq Uncharged
         /\ Unstoppable' \subseteq Unstoppable
<1> DEFINE g == NewFrame(b, p, parent)
<1>1. g.pl = p
  BY DEF NewFrame
<1>2. \/ g.at = "post"
      \/ g.at = "budget" /\ Surfaced(p)
      \/ g.at = "ready" /\ ~Surfaced(p)
  <2>1. CASE p \notin DOMAIN Catalog
    BY <2>1 DEF NewFrame
  <2>2. CASE p \in DOMAIN Catalog /\ Surfaced(p)
    BY <2>2 DEF NewFrame
  <2>3. CASE p \in DOMAIN Catalog /\ ~Surfaced(p)
    BY <2>3 DEF NewFrame
  <2> QED BY <2>1, <2>2, <2>3
<1> HIDE DEF g
<1>3. cur' = [cur EXCEPT ![t] = g]
  BY DEF g
<1> QED
  BY <1>1, <1>2, <1>3, FrameMoves

LEMMA ResumeAt ==
  ASSUME NEW f \in Frame
  PROVE  Resume(f).at \in {"run", "post"} /\ Resume(f).pl = f.pl
BY DEF Resume, Frame

LEMMA RefuseAt ==
  ASSUME NEW f \in Frame, NEW why
  PROVE  Refuse(f, why).at = "post"
BY DEF Refuse, Frame

\* Only the budget check and the charge change who is about to be charged, and
\* only the kill-switch check lets one more dispatch past the switch.
LEMMA NoNewCharge ==
  ASSUME TypeOK, GovernedSurfaced, NEW t \in Task,
         Dispatch(t) \/ CheckSubgate(t) \/ ReadOverlay(t) \/ Execute(t) \/ Conclude(t)
  PROVE  /\ GovernedSurfaced'
         /\ Uncharged' \subseteq Uncharged
         /\ Unstoppable' \subseteq Unstoppable
<1>0. cur[t] \in Frame
  BY DEF TypeOK
<1>1. CASE Dispatch(t)
  <2>1. PICK r \in Request : cur' = [cur EXCEPT ![t] = NewFrame(r[1], r[2], 0)]
    BY <1>1 DEF Dispatch, Goto
  <2> QED BY <2>1, NewFrameMoves
<1>2. CASE CheckSubgate(t)
  <2>1. CASE cur' = [cur EXCEPT ![t] = Refuse(cur[t], "subgate")]
    BY <1>0, <2>1, RefuseAt, Passive
  <2>2. CASE cur' = [cur EXCEPT ![t] = [cur[t] EXCEPT !.at = "ready"]]
    <3> DEFINE g == [cur[t] EXCEPT !.at = "ready"]
    <3>1. g.at = "ready" /\ g.pl = cur[t].pl
      BY <1>0 DEF Frame
    <3>2. cur[t].at = "subgate"
      BY <1>2 DEF CheckSubgate, At
    <3> HIDE DEF g
    <3>3. cur' = [cur EXCEPT ![t] = g]
      BY <2>2 DEF g
    <3>4. /\ Surfaced(g.pl) => t \in Uncharged
          /\ Surfaced(g.pl) /\ ~Bypasses(g.pl) => t \in Unstoppable
      BY <3>1, <3>2 DEF Uncharged, Unstoppable
    <3> QED
      BY <3>1, <3>3, <3>4, FrameMoves
  <2> QED BY <1>2, <2>1, <2>2 DEF CheckSubgate, Goto
<1>3. CASE ReadOverlay(t)
  <2> DEFINE f == [cur[t] EXCEPT !.snap = overlay[cur[t].broker]]
  <2>1. f \in Frame /\ f.pl = cur[t].pl
    BY <1>0 DEF Frame, TypeOK
  <2>2. cur[t].at = "ready"
    BY <1>3 DEF ReadOverlay, At
  <2>3. \/ cur' = [cur EXCEPT ![t] = Refuse(cur[t], "param")]
        \/ cur' = [cur EXCEPT ![t] = Refuse(f, "precondition")]
        \/ cur' = [cur EXCEPT ![t] = Admit(f)]
    BY <1>3 DEF ReadOverlay, Goto
  <2> HIDE DEF f
  <2>4. CASE cur' = [cur EXCEPT ![t] = Refuse(cur[t], "param")]
    BY <1>0, <2>4, RefuseAt, Passive
  <2>5. CASE cur' = [cur EXCEPT ![t] = Refuse(f, "precondition")]
    BY <2>1, <2>5, RefuseAt, Passive
  <2>6. CASE cur' = [cur EXCEPT ![t] = Admit(f)]
    <3>1. CASE Surfaced(f.pl)
      <4> DEFINE g == [f EXCEPT !.at = "record"]
      <4>1. g.at = "record" /\ g.pl = cur[t].pl /\ Surfaced(g.pl)
        BY <2>1, <3>1 DEF Frame
      <4>2. cur' = [cur EXCEPT ![t] = g]
        BY <2>6, <3>1 DEF Admit
      <4> HIDE DEF g
      <4>3. /\ t \in Uncharged
            /\ ~Bypasses(g.pl) => t \in Unstoppable
        BY <2>2, <4>1 DEF Uncharged, Unstoppable
      <4> QED
        BY <4>1, <4>2, <4>3, FrameMoves
    <3>2. CASE ~Surfaced(f.pl)
      BY <2>1, <2>6, <3>2, ResumeAt, Passive DEF Admit
    <3> QED BY <3>1, <3>2
  <2> QED BY <2>3, <2>4, <2>5, <2>6
<1>4. CASE Execute(t)
  <2>1. CASE RunLeaf(t)
    <3>1. Rest(cur[t]) \in Frame
      BY <1>0, <2>1, RestType DEF RunLeaf, Kind
    <3> QED
      BY <2>1, <3>1, ResumeAt, Passive DEF RunLeaf, Goto
  <2>2. CASE FailLeaf(t)
    BY <1>0, <2>2, RefuseAt, Passive DEF FailLeaf, Goto
  <2>3. CASE CallSub(t)
    <3>1. CASE cur' = [cur EXCEPT ![t] = Refuse(cur[t], "sub")]
      BY <1>0, <3>1, RefuseAt, Passive
    <3>2. CASE cur' # [cur EXCEPT ![t] = Refuse(cur[t], "sub")]
      <4>1. PICK b, p, parent : cur' = [cur EXCEPT ![t] = NewFrame(b, p, parent)]
        BY <2>3, <3>2 DEF CallSub, Goto
      <4> QED BY <4>1, NewFrameMoves
    <3> QED BY <3>1, <3>2
  <2>4. CASE RunChoice(t)
    <3>1. PICK c : cur' = [cur EXCEPT ![t] = Resume([cur[t] EXCEPT !.todo = c])]
      BY <2>4 DEF RunChoice, Goto
    <3>2. Resume([cur[t] EXCEPT !.todo = c]).at \in {"run", "post"}
      BY <1>0 DEF Resume, Frame
    <3> QED
      BY <3>1, <3>2, Passive
  <2> QED BY <1>4, <2>1, <2>2, <2>3, <2>4 DEF Execute
<1>5. CASE Conclude(t)
  <2>1. CASE ReadPost(t)
    <3>1. [cur[t] EXCEPT !.snap = overlay[cur[t].broker], !.at = "delta"].at = "delta"
      BY <1>0 DEF Frame
    <3> QED BY <2>1, <3>1, Passive DEF ReadPost, Goto
  <2>2. CASE ComputeDelta(t)
    <3>1. PICK i, d : cur' = [cur EXCEPT ![t] =
                        [cur[t] EXCEPT !.from = i, !.delta = d, !.at = "trace"]]
      BY <2>2 DEF ComputeDelta, Goto
    <3>2. [cur[t] EXCEPT !.from = i, !.delta = d, !.at = "trace"].at = "trace"
      BY <1>0 DEF Frame
    <3> QED BY <3>1, <3>2, Passive
  <2>3. CASE Finish(t)
    <3> DEFINE n == Len(callers[t])
    <3>1. callers[t] \in Seq(Frame) /\ n \in Nat
      BY DEF TypeOK
    <3>2. CASE n = 0
      <4>1. Idle.at = "idle"
        BY DEF Idle
      <4> QED BY <2>3, <3>2, <4>1, Passive DEF Finish, Goto
    <3>3. CASE n > 0
      <4>1. callers[t][n] \in Frame
        BY <3>1, <3>3
      <4>2. Returned(callers[t][n], cur[t].why).at \in {"run", "post"}
        BY <4>1, ResumeAt, RefuseAt DEF Returned
      <4>3. cur' = [cur EXCEPT ![t] = Returned(callers[t][n], cur[t].why)]
        BY <2>3, <3>3 DEF Finish, Goto
      <4> QED BY <4>2, <4>3, Passive
    <3> QED BY <3>1, <3>2, <3>3
  <2> QED BY <1>5, <2>1, <2>2, <2>3 DEF Conclude
<1> QED
  BY <1>1, <1>2, <1>3, <1>4, <1>5
------------------------------------------------------------------------------
\* The budget arithmetic: what each kind of step does to the invariant.
LEMMA BudgetArithmetic ==
  ASSUME TypeOK, TypeOK', BudgetInv, GovernedSurfaced',
         \/ used' \in {0, used} /\ Uncharged' \subseteq Uncharged
         \/ used' = used /\ used < Ceiling
         \/ /\ used' = used + 1
            /\ \E t \in Uncharged : Uncharged' \subseteq Uncharged \ {t}
  PROVE  BudgetInv'
<1> DEFINE T == Cardinality(Task)
           U == Cardinality(Uncharged)
           V == Cardinality(Uncharged')
<1>1. /\ T \in Nat /\ U \in Nat /\ V \in Nat /\ T > 0
      /\ V <= T /\ Ceiling \in Nat /\ used \in Nat
  <2>1. Uncharged \in SUBSET Task /\ Uncharged' \in SUBSET Task
    BY DEF Uncharged
  <2> QED
    BY <2>1, CallersFinite, SomeCaller, RunnerAssumption DEF TypeOK
<1>2. Uncharged \in SUBSET Task /\ Uncharged' \in SUBSET Task
  BY DEF Uncharged
<1>3. CASE used' \in {0, used} /\ Uncharged' \subseteq Uncharged
  <2>1. V <= U
    BY <1>2, <1>3, Fewer
  <2> HIDE DEF T, U, V
  <2>2. IF Ceiling = 0 THEN used' = 0 /\ Uncharged' = {} ELSE used' + V < Ceiling + T
    BY <1>1, <1>3, <2>1 DEF BudgetInv, T, U
  <2> QED BY <2>2 DEF BudgetInv, V, T
<1>4. CASE used' = used /\ used < Ceiling
  <2>1. Ceiling # 0 /\ used' + V < Ceiling + T
    <3> HIDE DEF T, V
    <3> QED BY <1>1, <1>4
  <2> QED BY <2>1 DEF BudgetInv
<1>5. ASSUME used' = used + 1, NEW t \in Uncharged, Uncharged' \subseteq Uncharged \ {t}
      PROVE  BudgetInv'
  <2>1. V + 1 <= U
    BY <1>2, <1>5, OneFewer
  <2>2. Ceiling # 0 /\ used + U < Ceiling + T
    BY <1>5 DEF BudgetInv
  <2>3. used' + V < Ceiling + T
    <3> HIDE DEF T, U, V
    <3> QED BY <1>1, <1>5, <2>1, <2>2
  <2> QED BY <2>2, <2>3 DEF BudgetInv
<1> QED
  BY <1>3, <1>4, <1>5

\* A step that leaves every frame alone leaves the counted sets alone.
LEMMA FramesKept ==
  ASSUME cur' = cur
  PROVE  /\ GovernedSurfaced' <=> GovernedSurfaced
         /\ Uncharged' = Uncharged
         /\ Unstoppable' = Unstoppable
BY DEF GovernedSurfaced, Uncharged, Unstoppable

\* A restart abandons every dispatch.
LEMMA FramesGone ==
  ASSUME cur' = [t \in Task |-> Idle]
  PROVE  /\ GovernedSurfaced'
         /\ Uncharged' = {}
         /\ Unstoppable' = {}
BY DEF GovernedSurfaced, Uncharged, Unstoppable, Idle

LEMMA BudgetStep ==
  ASSUME TypeOK, TypeOK', BudgetInv, [Next]_vars
  PROVE  BudgetInv'
<1>0. GovernedSurfaced
  BY DEF BudgetInv
<1>1. ASSUME NEW t \in Task,
             Dispatch(t) \/ CheckSubgate(t) \/ ReadOverlay(t) \/ Execute(t) \/ Conclude(t)
      PROVE  BudgetInv'
  <2>1. GovernedSurfaced' /\ Uncharged' \subseteq Uncharged
    BY <1>0, <1>1, NoNewCharge
  <2>2. used' = used
    BY <1>1 DEF Dispatch, CheckSubgate, ReadOverlay, Execute, Conclude, RunLeaf,
                FailLeaf, CallSub, RunChoice, ReadPost, ComputeDelta, Finish, gov
  <2> QED BY <2>1, <2>2, BudgetArithmetic
<1>2. ASSUME NEW t \in Task, CheckBudget(t) PROVE BudgetInv'
  <2>0. cur[t] \in Frame /\ used' = used /\ cur[t].at = "budget"
    BY <1>2 DEF TypeOK, CheckBudget, gov, At
  <2>1. CASE Exhausted
    <3>1. cur' = [cur EXCEPT ![t] = Refuse(cur[t], "budget")]
      BY <1>2, <2>1 DEF CheckBudget, Goto
    <3>2. GovernedSurfaced' /\ Uncharged' \subseteq Uncharged
      BY <1>0, <2>0, <3>1, RefuseAt, Passive
    <3> QED BY <2>0, <3>2, BudgetArithmetic
  <2>2. CASE ~Exhausted
    <3> DEFINE g == [cur[t] EXCEPT !.at = "kill"]
    <3>1. g.at = "kill" /\ g.pl = cur[t].pl
      BY <2>0 DEF Frame
    <3>2. cur' = [cur EXCEPT ![t] = g]
      BY <1>2, <2>2 DEF CheckBudget, Goto
    <3>3. Surfaced(cur[t].pl)
      BY <1>0, <2>0 DEF GovernedSurfaced
    <3>4. used < Ceiling
      BY <2>2, RunnerAssumption DEF Exhausted, TypeOK
    <3> HIDE DEF g
    <3>5. GovernedSurfaced'
      BY <1>0, <3>1, <3>2, <3>3, FrameMoves
    <3> QED BY <2>0, <3>4, <3>5, BudgetArithmetic
  <2> QED BY <2>1, <2>2
<1>3. ASSUME NEW t \in Task, CheckKillSwitch(t) PROVE BudgetInv'
  <2>0. cur[t] \in Frame /\ used' = used /\ cur[t].at = "kill"
    BY <1>3 DEF TypeOK, CheckKillSwitch, gov, At
  <2>1. CASE cur' = [cur EXCEPT ![t] = Refuse(cur[t], "kill_switch")]
    <3>1. GovernedSurfaced' /\ Uncharged' \subseteq Uncharged
      BY <1>0, <2>0, <2>1, RefuseAt, Passive
    <3> QED BY <2>0, <3>1, BudgetArithmetic
  <2>2. CASE cur' = [cur EXCEPT ![t] = [cur[t] EXCEPT !.at = "subgate"]]
    <3> DEFINE g == [cur[t] EXCEPT !.at = "subgate"]
    <3>1. g.at = "subgate" /\ g.pl = cur[t].pl
      BY <2>0 DEF Frame
    <3>2. cur' = [cur EXCEPT ![t] = g]
      BY <2>2
    <3>3. Surfaced(cur[t].pl) /\ t \in Uncharged
      BY <1>0, <2>0 DEF GovernedSurfaced, Uncharged
    <3> HIDE DEF g
    <3>4. GovernedSurfaced' /\ Uncharged' \subseteq Uncharged
      BY <1>0, <3>1, <3>2, <3>3, FrameMoves
    <3> QED BY <2>0, <3>4, BudgetArithmetic
  <2> QED BY <1>3, <2>1, <2>2 DEF CheckKillSwitch, Goto
<1>4. ASSUME NEW t \in Task, RecordDispatch(t) PROVE BudgetInv'
  <2>1. used' = used + 1 /\ cur' = [cur EXCEPT ![t] = Resume(cur[t])]
        /\ cur[t].at = "record"
    BY <1>4, Zenon DEF RecordDispatch, Consumed, Goto, At
  <2>2. t \in Uncharged
    BY <1>0, <2>1 DEF GovernedSurfaced, Uncharged
  <2>3. cur[t] \in Frame
    BY DEF TypeOK
  <2>4. GovernedSurfaced' /\ Uncharged' \subseteq Uncharged \ {t}
    BY <1>0, <2>1, <2>3, ResumeAt, Passive
  <2> QED BY <2>1, <2>2, <2>4, BudgetArithmetic
<1>5. ASSUME cur' = cur, used' \in {0, used} PROVE BudgetInv'
  BY <1>0, <1>5, FramesKept, BudgetArithmetic
<1>6. CASE Restart
  <2>1. used' = 0 /\ cur' = [t \in Task |-> Idle]
    BY <1>6 DEF Restart
  <2> QED BY <2>1, FramesGone, BudgetArithmetic
<1>7. ASSUME NEW p \in Pipeline, WindowPasses(p) PROVE BudgetInv'
  BY <1>5, <1>7 DEF WindowPasses
<1>8. CASE OperatorResetBudget
  BY <1>5, <1>8 DEF OperatorResetBudget
<1>9. CASE OperatorSetKillSwitch
  BY <1>5, <1>9 DEF OperatorSetKillSwitch
<1>10. ASSUME NEW b \in Registered, Tick(b) PROVE BudgetInv'
  BY <1>5, <1>10 DEF Tick, gov
<1>11. CASE UNCHANGED vars
  BY <1>5, <1>11 DEF vars
<1> QED
  BY <1>1, <1>2, <1>3, <1>4, <1>6, <1>7, <1>8, <1>9, <1>10, <1>11
     DEF Next, Proceed, Check

\* The overshoot of the trust budget is less than the number of concurrent
\* callers, for every ceiling, catalog and nesting of pipelines.
THEOREM BudgetSafety == Spec => []BudgetOvershootBounded
<1>1. Init => BudgetInv
  <2> SUFFICES ASSUME Init PROVE BudgetInv
    OBVIOUS
  <2>1. \A t \in Task : cur[t].at = "idle"
    BY DEF Init, Idle
  <2>2. Uncharged = {} /\ GovernedSurfaced
    BY <2>1 DEF Uncharged, GovernedSurfaced
  <2>3. used = 0
    BY DEF Init
  <2> QED
    BY <2>2, <2>3, SomeCaller, FS_EmptySet, RunnerAssumption DEF BudgetInv
<1>2. TypeOK /\ TypeOK' /\ BudgetInv /\ [Next]_vars => BudgetInv'
  BY BudgetStep
<1>3. TypeOK /\ BudgetInv => BudgetOvershootBounded
  <2> SUFFICES ASSUME TypeOK, BudgetInv PROVE BudgetOvershootBounded
    OBVIOUS
  <2>1. Uncharged \in SUBSET Task
    BY DEF Uncharged
  <2>2. Cardinality(Uncharged) \in Nat
    BY <2>1, CallersFinite
  <2> QED
    BY <2>2, SomeCaller, RunnerAssumption DEF BudgetInv, TypeOK, BudgetOvershootBounded
<1> QED
  BY <1>1, <1>2, <1>3, TypeCorrect, PTL DEF Spec
------------------------------------------------------------------------------
\* The kill-switch arithmetic: what each kind of step does to the invariant.
LEMMA KillArithmetic ==
  ASSUME TypeOK, TypeOK', KillInv,
         \/ armed' = armed /\ slipped' = slipped
            /\ (armed => Unstoppable' \subseteq Unstoppable)
         \/ slipped' = 0
         \/ /\ armed' /\ armed /\ slipped' = slipped + 1
            /\ \E t \in Unstoppable : Unstoppable' \subseteq Unstoppable \ {t}
  PROVE  KillInv'
<1> DEFINE T == Cardinality(Task)
           U == Cardinality(Unstoppable)
           V == Cardinality(Unstoppable')
<1>0. Unstoppable \in SUBSET Task /\ Unstoppable' \in SUBSET Task
  BY DEF Unstoppable
<1>1. T \in Nat /\ U \in Nat /\ V \in Nat /\ V <= T /\ slipped \in Nat
  BY <1>0, CallersFinite, SomeCaller DEF TypeOK
<1>2. CASE armed' = armed /\ slipped' = slipped /\ (armed => Unstoppable' \subseteq Unstoppable)
  <2>1. CASE armed
    <3>1. V <= U
      BY <1>0, <1>2, <2>1, Fewer
    <3>2. slipped + U <= T
      BY <2>1 DEF KillInv
    <3>3. slipped' + V <= T
      <4> HIDE DEF T, U, V
      <4> QED BY <1>1, <1>2, <3>1, <3>2
    <3> QED BY <1>2, <2>1, <3>3 DEF KillInv
  <2>2. CASE ~armed
    BY <1>2, <2>2 DEF KillInv
  <2> QED BY <2>1, <2>2
<1>3. CASE slipped' = 0
  <2>1. slipped' + V <= T
    BY <1>1, <1>3
  <2> QED BY <1>3, <2>1 DEF KillInv
<1>4. ASSUME armed', armed, slipped' = slipped + 1,
             NEW t \in Unstoppable, Unstoppable' \subseteq Unstoppable \ {t}
      PROVE  KillInv'
  <2>1. V + 1 <= U
    BY <1>0, <1>4, OneFewer
  <2>2. slipped + U <= T
    BY <1>4 DEF KillInv
  <2>3. slipped' + V <= T
    <3> HIDE DEF T, U, V
    <3> QED BY <1>1, <1>4, <2>1, <2>2
  <2> QED BY <1>4, <2>3 DEF KillInv
<1> QED
  BY <1>2, <1>3, <1>4

\* Arming and disengaging start a fresh count.
LEMMA SetArmedMoves ==
  ASSUME NEW b \in BOOLEAN, TypeOK, SetArmed(b)
  PROVE  \/ armed' = armed /\ slipped' = slipped
         \/ slipped' = 0
BY Zenon DEF SetArmed

LEMMA KillStep ==
  ASSUME TypeOK, TypeOK', GovernedSurfaced, KillInv, [Next]_vars
  PROVE  KillInv'
<1>1. ASSUME NEW t \in Task, Dispatch(t) \/ CheckSubgate(t) \/ ReadOverlay(t)
             \/ FailLeaf(t) \/ CallSub(t) \/ RunChoice(t) \/ Conclude(t)
      PROVE  KillInv'
  <2>1. Unstoppable' \subseteq Unstoppable
    BY <1>1, NoNewCharge DEF Execute
  <2>2. armed' = armed /\ slipped' = slipped
    BY <1>1 DEF Dispatch, CheckSubgate, ReadOverlay, FailLeaf, CallSub,
                RunChoice, Conclude, ReadPost, ComputeDelta, Finish, gov, ghost
  <2> QED BY <2>1, <2>2, KillArithmetic
<1>2. ASSUME NEW t \in Task, RunLeaf(t) PROVE KillInv'
  <2>1. Unstoppable' \subseteq Unstoppable
    BY <1>2, NoNewCharge DEF Execute
  <2>2. \/ armed' = armed /\ slipped' = slipped
        \/ slipped' = 0
    BY <1>2, SetArmedMoves DEF RunLeaf
  <2> QED BY <2>1, <2>2, KillArithmetic
<1>3. ASSUME NEW t \in Task, CheckBudget(t) PROVE KillInv'
  <2>0. cur[t] \in Frame /\ armed' = armed /\ slipped' = slipped
    BY <1>3 DEF TypeOK, CheckBudget, gov, ghost
  <2>1. CASE cur' = [cur EXCEPT ![t] = Refuse(cur[t], "budget")]
    <3>1. Unstoppable' \subseteq Unstoppable
      BY <2>0, <2>1, RefuseAt, Passive
    <3> QED BY <2>0, <3>1, KillArithmetic
  <2>2. CASE cur' = [cur EXCEPT ![t] = [cur[t] EXCEPT !.at = "kill"]]
    <3> DEFINE g == [cur[t] EXCEPT !.at = "kill"]
    <3>1. g.at = "kill"
      BY <2>0 DEF Frame
    <3>2. cur' = [cur EXCEPT ![t] = g]
      BY <2>2
    <3> HIDE DEF g
    <3>3. Unstoppable' \subseteq Unstoppable
      BY <3>1, <3>2, FrameMoves
    <3> QED BY <2>0, <3>3, KillArithmetic
  <2> QED BY <1>3, <2>1, <2>2 DEF CheckBudget, Goto
<1>4. ASSUME NEW t \in Task, CheckKillSwitch(t) PROVE KillInv'
  <2>0. cur[t] \in Frame /\ armed' = armed /\ slipped' = slipped
    BY <1>4 DEF TypeOK, CheckKillSwitch, gov, ghost
  <2>1. CASE Halted(cur[t])
    <3>1. cur' = [cur EXCEPT ![t] = Refuse(cur[t], "kill_switch")]
      BY <1>4, <2>1 DEF CheckKillSwitch, Goto
    <3>2. Unstoppable' \subseteq Unstoppable
      BY <2>0, <3>1, RefuseAt, Passive
    <3> QED BY <2>0, <3>2, KillArithmetic
  <2>2. CASE ~Halted(cur[t])
    <3> DEFINE g == [cur[t] EXCEPT !.at = "subgate"]
    <3>1. g.pl = cur[t].pl
      BY <2>0 DEF Frame
    <3>2. cur' = [cur EXCEPT ![t] = g]
      BY <1>4, <2>2 DEF CheckKillSwitch, Goto
    <3> HIDE DEF g
    <3>3. armed => Bypasses(g.pl)
      BY <2>2, <3>1 DEF Halted
    <3>4. armed => Unstoppable' \subseteq Unstoppable
      BY <3>2, <3>3, FrameMoves
    <3> QED BY <2>0, <3>4, KillArithmetic
  <2> QED BY <2>1, <2>2
<1>5. ASSUME NEW t \in Task, RecordDispatch(t) PROVE KillInv'
  <2>1. cur[t].at = "record" /\ cur[t] \in Frame
        /\ cur' = [cur EXCEPT ![t] = Resume(cur[t])]
    BY <1>5 DEF RecordDispatch, At, Goto, TypeOK
  <2>2. Unstoppable' \subseteq Unstoppable \ {t}
    BY <2>1, ResumeAt, Passive
  <2>3. CASE armed /\ ~Bypasses(cur[t].pl)
    <3>1. t \in Unstoppable
      BY <2>1, <2>3 DEF GovernedSurfaced, Unstoppable
    <3>2. armed' /\ slipped' = slipped + 1
      BY <1>5, <2>3, Zenon DEF RecordDispatch
    <3> QED BY <2>2, <2>3, <3>1, <3>2, KillArithmetic
  <2>4. CASE ~(armed /\ ~Bypasses(cur[t].pl))
    <3>1. armed' = armed /\ slipped' = slipped
      BY <1>5, <2>4, Zenon DEF RecordDispatch
    <3> QED BY <2>2, <3>1, KillArithmetic
  <2> QED BY <2>3, <2>4
<1>6. ASSUME cur' = cur,
             \/ armed' = armed /\ slipped' = slipped
             \/ slipped' = 0
      PROVE  KillInv'
  <2>1. Unstoppable' = Unstoppable
    BY <1>6, FramesKept
  <2> QED BY <1>6, <2>1, KillArithmetic
<1>7. CASE Restart
  BY <1>7, KillArithmetic DEF Restart
<1>8. ASSUME NEW p \in Pipeline, WindowPasses(p) PROVE KillInv'
  BY <1>6, <1>8 DEF WindowPasses, ghost
<1>9. CASE OperatorResetBudget
  BY <1>6, <1>9 DEF OperatorResetBudget, ghost
<1>10. CASE OperatorSetKillSwitch
  <2>1. PICK b \in BOOLEAN : SetArmed(b)
    BY <1>10 DEF OperatorSetKillSwitch
  <2>2. cur' = cur
    BY <1>10 DEF OperatorSetKillSwitch
  <2> QED BY <1>6, <2>1, <2>2, SetArmedMoves
<1>11. ASSUME NEW b \in Registered, Tick(b) PROVE KillInv'
  BY <1>6, <1>11 DEF Tick, gov, ghost
<1>12. CASE UNCHANGED vars
  BY <1>6, <1>12 DEF vars
<1> QED
  BY <1>1, <1>2, <1>3, <1>4, <1>5, <1>7, <1>8, <1>9, <1>10, <1>11, <1>12
     DEF Next, Proceed, Check, Execute

\* After the kill switch is armed at most one governed dispatch of each caller
\* is still admitted, for every number of callers, catalog and nesting.
THEOREM KillSwitchSafety == Spec => []KillSwitchLatencyBounded
<1>1. Init => BudgetInv /\ KillInv
  <2> SUFFICES ASSUME Init PROVE BudgetInv /\ KillInv
    OBVIOUS
  <2>1. \A t \in Task : cur[t].at = "idle"
    BY DEF Init, Idle
  <2>2. Uncharged = {} /\ GovernedSurfaced
    BY <2>1 DEF Uncharged, GovernedSurfaced
  <2>3. used = 0 /\ armed = FALSE /\ slipped = 0
    BY DEF Init
  <2>4. BudgetInv
    BY <2>2, <2>3, SomeCaller, FS_EmptySet, RunnerAssumption DEF BudgetInv
  <2> QED
    BY <2>3, <2>4 DEF KillInv
<1>2. TypeOK /\ TypeOK' /\ BudgetInv /\ KillInv /\ [Next]_vars => BudgetInv' /\ KillInv'
  BY BudgetStep, KillStep DEF BudgetInv
<1>3. TypeOK /\ KillInv => KillSwitchLatencyBounded
  <2> SUFFICES ASSUME TypeOK, KillInv PROVE KillSwitchLatencyBounded
    OBVIOUS
  <2>1. Unstoppable \in SUBSET Task
    BY DEF Unstoppable
  <2>2. Cardinality(Unstoppable) \in Nat
    BY <2>1, CallersFinite
  <2> QED
    BY <2>2, SomeCaller DEF KillInv, TypeOK, KillSwitchLatencyBounded
<1> QED
  BY <1>1, <1>2, <1>3, TypeCorrect, PTL DEF Spec
------------------------------------------------------------------------------
(***************************************************************************)
(* Proofs about the trace file of PipelineRunner: every dispatch is        *)
(* accounted for once, callees are recorded before their callers, and the  *)
(* chain of deltas recovers what the dispatches observed.                  *)
(*                                                                         *)
(* A slot is a dispatch under way: the frames waiting on a task's stack,   *)
(* and its innermost one.  The ids of the slots are distinct, so that a    *)
(* record written for one takes no other's place, and each slot's parent   *)
(* is the one below it, so that a record's parent is still under way.      *)
(* The chain's links are the records and the frames about to be recorded:  *)
(* concurrent records may reach the file in another order than the chain's.*)
(***************************************************************************)

Slot(c, s, t) == IF c[t].at = "idle" THEN {} ELSE 1 .. Len(s[t]) + 1

FrameAt(c, s, t, i) == IF i <= Len(s[t]) THEN s[t][i] ELSE c[t]

Ending == {"post", "delta", "trace"}

\* An outcome is known when the steps are over, and a caller has none.
Coherent(c, s) ==
  \A t \in Task :
    /\ c[t].at = "idle" => s[t] = <<>>
    /\ c[t].at # "idle" => (c[t].why # "none" <=> c[t].at \in Ending)
    /\ \A i \in 1 .. Len(s[t]) : s[t][i].at = "run" /\ s[t][i].why = "none"

Unique(c, s) ==
  \A t, u \in Task : \A i \in Slot(c, s, t), j \in Slot(c, s, u) :
    FrameAt(c, s, t, i).id = FrameAt(c, s, u, j).id => t = u /\ i = j

Linked(c, s) ==
  \A t \in Task : \A i \in Slot(c, s, t) :
    FrameAt(c, s, t, i).parent = IF i = 1 THEN 0 ELSE FrameAt(c, s, t, i - 1).id

\* A callee that was refused has refused its caller, which has no other step to take.
Excused(c, s, records) ==
  \A t \in Task : \A i \in Slot(c, s, t) : \A n \in DOMAIN records :
    records[n].parent = FrameAt(c, s, t, i).id =>
      records[n].why = "ok" \/ (i = Len(s[t]) + 1 /\ c[t].why = "sub")

ParentsBefore == nextId > 0 /\ \A n \in DOMAIN trace : trace[n].parent < nextId

AuditInv ==
  /\ Coherent(cur, callers)
  /\ Unique(cur, callers)
  /\ Linked(cur, callers)
  /\ Excused(cur, callers, trace)
  /\ ParentsBefore
  /\ AuditComplete

-----------------------------------------------------------------------------
OpenIds(c, s) ==
  {c[t].id : t \in {u \in Task : c[u].at # "idle"}}
    \cup UNION {{s[t][i].id : i \in DOMAIN s[t]} : t \in Task}

\* What is under way is in a slot.
LEMMA OpenSlots ==
  ASSUME NEW c, NEW s \in [Task -> Seq(Frame)], Coherent(c, s), NEW k
  PROVE  k \in OpenIds(c, s) <=>
           \E t \in Task : \E i \in Slot(c, s, t) : FrameAt(c, s, t, i).id = k
<1>0. \A t \in Task : s[t] \in Seq(Frame) /\ Len(s[t]) \in Nat /\ DOMAIN s[t] = 1 .. Len(s[t])
  OBVIOUS
<1>1. ASSUME k \in OpenIds(c, s)
      PROVE  \E t \in Task : \E i \in Slot(c, s, t) : FrameAt(c, s, t, i).id = k
  <2>1. CASE \E t \in Task : c[t].at # "idle" /\ c[t].id = k
    <3>1. PICK t \in Task : c[t].at # "idle" /\ c[t].id = k
      BY <2>1
    <3>2. Len(s[t]) + 1 \in Slot(c, s, t)
      BY <1>0, <3>1 DEF Slot
    <3>3. FrameAt(c, s, t, Len(s[t]) + 1) = c[t]
      BY <1>0 DEF FrameAt
    <3>4. QED
      BY <3>1, <3>2, <3>3
  <2>2. CASE \E t \in Task : \E i \in DOMAIN s[t] : s[t][i].id = k
    <3>1. PICK t \in Task : \E i \in DOMAIN s[t] : s[t][i].id = k
      BY <2>2
    <3>2. PICK i \in DOMAIN s[t] : s[t][i].id = k
      BY <3>1
    <3>3. c[t].at # "idle"
      BY <1>0, <3>2 DEF Coherent
    <3>4. i \in Slot(c, s, t) /\ FrameAt(c, s, t, i) = s[t][i]
      BY <1>0, <3>3 DEF Slot, FrameAt
    <3>5. QED
      BY <3>2, <3>4
  <2>3. QED
    BY <1>1, <2>1, <2>2 DEF OpenIds
<1>2. ASSUME NEW t \in Task, NEW i \in Slot(c, s, t), FrameAt(c, s, t, i).id = k
      PROVE  k \in OpenIds(c, s)
  <2>1. CASE i <= Len(s[t])
    <3>1. i \in DOMAIN s[t] /\ s[t][i].id = k
      BY <1>0, <1>2, <2>1 DEF Slot, FrameAt
    <3>2. QED
      BY <3>1 DEF OpenIds
  <2>2. CASE ~(i <= Len(s[t]))
    <3>1. c[t].at # "idle" /\ c[t].id = k
      BY <1>2, <2>2 DEF Slot, FrameAt
    <3>2. QED
      BY <3>1 DEF OpenIds
  <2>3. QED
    BY <2>1, <2>2
<1>3. QED
  BY <1>1, <1>2

LEMMA InFlightOpen == InFlight = OpenIds(cur, callers) /\ InFlight' = OpenIds(cur', callers')
BY DEF InFlight, OpenIds

\* Two states of the stacks with the same dispatches in the same slots.
SameSlots(c, s, d, r) ==
  \A t \in Task : /\ Slot(d, r, t) = Slot(c, s, t)
                  /\ \A i \in Slot(c, s, t) :
                       /\ FrameAt(d, r, t, i).id = FrameAt(c, s, t, i).id
                       /\ FrameAt(d, r, t, i).parent = FrameAt(c, s, t, i).parent

LEMMA SameSlotsKeep ==
  ASSUME NEW c, NEW s \in [Task -> Seq(Frame)], NEW d, NEW r \in [Task -> Seq(Frame)],
         SameSlots(c, s, d, r), Coherent(c, s), Coherent(d, r), Unique(c, s), Linked(c, s)
  PROVE  Unique(d, r) /\ Linked(d, r) /\ OpenIds(d, r) = OpenIds(c, s)
<1>1. ASSUME NEW t \in Task
      PROVE  Slot(d, r, t) = Slot(c, s, t)
  BY DEF SameSlots
<1>2. ASSUME NEW t \in Task, NEW i \in Slot(c, s, t)
      PROVE  /\ FrameAt(d, r, t, i).id = FrameAt(c, s, t, i).id
             /\ FrameAt(d, r, t, i).parent = FrameAt(c, s, t, i).parent
  BY DEF SameSlots
<1>3. Unique(d, r)
  <2> SUFFICES ASSUME NEW t \in Task, NEW u \in Task, NEW i \in Slot(d, r, t), NEW j \in Slot(d, r, u),
                      FrameAt(d, r, t, i).id = FrameAt(d, r, u, j).id
               PROVE  t = u /\ i = j
    BY DEF Unique
  <2>1. i \in Slot(c, s, t) /\ j \in Slot(c, s, u)
    BY <1>1
  <2>2. FrameAt(c, s, t, i).id = FrameAt(c, s, u, j).id
    BY <1>2, <2>1
  <2>3. QED
    BY <2>1, <2>2 DEF Unique
<1>4. Linked(d, r)
  <2> SUFFICES ASSUME NEW t \in Task, NEW i \in Slot(d, r, t)
               PROVE  FrameAt(d, r, t, i).parent = IF i = 1 THEN 0 ELSE FrameAt(d, r, t, i - 1).id
    BY DEF Linked
  <2>1. i \in Slot(c, s, t)
    BY <1>1
  <2>2. FrameAt(d, r, t, i).parent = FrameAt(c, s, t, i).parent
    BY <1>2, <2>1
  <2>3. FrameAt(c, s, t, i).parent = IF i = 1 THEN 0 ELSE FrameAt(c, s, t, i - 1).id
    BY <2>1 DEF Linked
  <2>4. CASE i = 1
    BY <2>2, <2>3, <2>4
  <2>5. CASE i # 1
    <3>1. i - 1 \in Slot(c, s, t)
      BY <2>1, <2>5 DEF Slot
    <3>2. FrameAt(d, r, t, i - 1).id = FrameAt(c, s, t, i - 1).id
      BY <1>2, <3>1
    <3>3. QED
      BY <2>2, <2>3, <2>5, <3>2
  <2>6. QED
    BY <2>4, <2>5
<1>5. OpenIds(d, r) = OpenIds(c, s)
  <2>1. ASSUME NEW k PROVE k \in OpenIds(d, r) <=> k \in OpenIds(c, s)
    <3>1. k \in OpenIds(c, s) <=> \E t \in Task : \E i \in Slot(c, s, t) : FrameAt(c, s, t, i).id = k
      BY OpenSlots
    <3>2. k \in OpenIds(d, r) <=> \E t \in Task : \E i \in Slot(d, r, t) : FrameAt(d, r, t, i).id = k
      BY OpenSlots
    <3>3. (\E t \in Task : \E i \in Slot(c, s, t) : FrameAt(c, s, t, i).id = k)
            <=> \E t \in Task : \E i \in Slot(d, r, t) : FrameAt(d, r, t, i).id = k
      BY <1>1, <1>2
    <3>4. QED
      BY <3>1, <3>2, <3>3
  <2>2. QED
    BY <2>1
<1>6. QED
  BY <1>3, <1>4, <1>5

\* The innermost frame goes on, as the same dispatch: its outcome is kept once known.
LEMMA InnerAudit ==
  ASSUME TypeOK, AuditInv, NEW t \in Task, NEW g, cur' = [cur EXCEPT ![t] = g],
         cur[t].at # "idle", g.at # "idle", g.id = cur[t].id, g.parent = cur[t].parent,
         g.why # "none" <=> g.at \in Ending,
         g.why = cur[t].why \/ cur[t].why = "none",
         UNCHANGED <<callers, trace, nextId, lost>>
  PROVE  AuditInv'
<1> USE DEF AuditInv
<1>0. \A u \in Task : cur'[u] = IF u = t THEN g ELSE cur[u]
  BY DEF TypeOK
<1>1. Coherent(cur', callers)
  BY <1>0 DEF Coherent
<1>2. callers \in [Task -> Seq(Frame)]
  BY DEF TypeOK
<1>3. SameSlots(cur, callers, cur', callers)
  BY <1>0 DEF SameSlots, Slot, FrameAt
<1>4. Unique(cur', callers) /\ Linked(cur', callers) /\ OpenIds(cur', callers) = OpenIds(cur, callers)
  BY <1>1, <1>2, <1>3, SameSlotsKeep
<1>5. Excused(cur', callers, trace)
  <2> SUFFICES ASSUME NEW u \in Task, NEW i \in Slot(cur', callers, u), NEW n \in DOMAIN trace,
                      trace[n].parent = FrameAt(cur', callers, u, i).id
               PROVE  trace[n].why = "ok" \/ (i = Len(callers[u]) + 1 /\ cur'[u].why = "sub")
    BY DEF Excused
  <2>1. i \in Slot(cur, callers, u) /\ FrameAt(cur', callers, u, i).id = FrameAt(cur, callers, u, i).id
    BY <1>3 DEF SameSlots
  <2>2. trace[n].why = "ok" \/ (i = Len(callers[u]) + 1 /\ cur[u].why = "sub")
    BY <2>1 DEF Excused
  <2>3. QED
    BY <1>0, <2>2
<1>6. InFlight' = InFlight
  BY <1>4, InFlightOpen
<1>7. AuditComplete'
  BY <1>6 DEF AuditComplete, Traced
<1>8. ParentsBefore'
  BY DEF ParentsBefore
<1>9. QED
  BY <1>1, <1>4, <1>5, <1>7, <1>8

-----------------------------------------------------------------------------
\* The slots of d and r are those of c and s, and one more of t on top, which holds g.
Grown(c, s, d, r, t, g) ==
  /\ \A u \in Task : \A i \in Slot(c, s, u) :
       /\ i \in Slot(d, r, u)
       /\ FrameAt(d, r, u, i).id = FrameAt(c, s, u, i).id
       /\ FrameAt(d, r, u, i).parent = FrameAt(c, s, u, i).parent
  /\ \A u \in Task : u # t => Slot(d, r, u) = Slot(c, s, u)
  /\ Slot(c, s, t) = 1 .. Len(r[t])
  /\ Slot(d, r, t) = 1 .. Len(r[t]) + 1
  /\ FrameAt(d, r, t, Len(r[t]) + 1) = g

\* d and r have the ids of c and s under way, and k.
Opened(c, s, d, r, k) == OpenIds(d, r) = OpenIds(c, s) \cup {k}

LEMMA GrownIds ==
  ASSUME NEW c, NEW s \in [Task -> Seq(Frame)], NEW d, NEW r \in [Task -> Seq(Frame)],
         NEW t \in Task, NEW g, Grown(c, s, d, r, t, g), Coherent(c, s), Coherent(d, r)
  PROVE  Opened(c, s, d, r, g.id)
<1>0. Len(r[t]) \in Nat
  OBVIOUS
<1>1. ASSUME NEW k PROVE k \in OpenIds(d, r) <=> (k \in OpenIds(c, s) \/ k = g.id)
  <2>1. k \in OpenIds(c, s) <=> \E u \in Task : \E i \in Slot(c, s, u) : FrameAt(c, s, u, i).id = k
    BY OpenSlots
  <2>2. k \in OpenIds(d, r) <=> \E u \in Task : \E i \in Slot(d, r, u) : FrameAt(d, r, u, i).id = k
    BY OpenSlots
  <2>3. ASSUME NEW u \in Task, NEW i \in Slot(d, r, u), FrameAt(d, r, u, i).id = k, k # g.id
        PROVE  i \in Slot(c, s, u) /\ FrameAt(c, s, u, i).id = k
    <3>1. i \in Slot(c, s, u)
      <4>1. CASE u # t
        BY <4>1 DEF Grown
      <4>2. CASE u = t
        <5>1. i \in 1 .. Len(r[t]) + 1 /\ i # Len(r[t]) + 1
          BY <2>3, <4>2 DEF Grown
        <5>2. i \in 1 .. Len(r[t])
          BY <1>0, <5>1
        <5>3. QED
          BY <4>2, <5>2 DEF Grown
      <4>3. QED
        BY <4>1, <4>2
    <3>2. QED
      BY <2>3, <3>1 DEF Grown
  <2>4. ASSUME NEW u \in Task, NEW i \in Slot(c, s, u), FrameAt(c, s, u, i).id = k
        PROVE  i \in Slot(d, r, u) /\ FrameAt(d, r, u, i).id = k
    BY <2>4 DEF Grown
  <2>5. Len(r[t]) + 1 \in Slot(d, r, t) /\ FrameAt(d, r, t, Len(r[t]) + 1).id = g.id
    BY <1>0 DEF Grown
  <2>6. QED
    BY <2>1, <2>2, <2>3, <2>4, <2>5
<1>2. QED
  BY <1>1 DEF Opened

\* A dispatch begins under an id that is new.
LEMMA GrownKeeps ==
  ASSUME NEW c, NEW s \in [Task -> Seq(Frame)], NEW d, NEW r \in [Task -> Seq(Frame)],
         NEW t \in Task, NEW g, Grown(c, s, d, r, t, g), Coherent(c, s), Unique(c, s), Linked(c, s),
         g.id \notin OpenIds(c, s),
         g.parent = IF Len(r[t]) = 0 THEN 0 ELSE FrameAt(c, s, t, Len(r[t])).id
  PROVE  Unique(d, r) /\ Linked(d, r)
<1> DEFINE N == Len(r[t]) + 1
<1>0. Len(r[t]) \in Nat /\ N \in Nat /\ N > 0
  OBVIOUS
<1>1. ASSUME NEW u \in Task, NEW i \in Slot(d, r, u), ~(u = t /\ i = N)
      PROVE  i \in Slot(c, s, u)
  BY <1>0, <1>1 DEF Grown
<1>2. FrameAt(d, r, t, N) = g
  BY DEF Grown
<1>3. ASSUME NEW u \in Task, NEW i \in Slot(c, s, u)
      PROVE  /\ FrameAt(d, r, u, i).id = FrameAt(c, s, u, i).id
             /\ FrameAt(d, r, u, i).parent = FrameAt(c, s, u, i).parent
             /\ FrameAt(c, s, u, i).id # g.id
  <2>1. FrameAt(c, s, u, i).id \in OpenIds(c, s)
    BY OpenSlots
  <2>2. QED
    BY <2>1 DEF Grown
<1> HIDE DEF N
<1>4. Unique(d, r)
  <2> SUFFICES ASSUME NEW u \in Task, NEW v \in Task, NEW i \in Slot(d, r, u), NEW j \in Slot(d, r, v),
                      FrameAt(d, r, u, i).id = FrameAt(d, r, v, j).id
               PROVE  u = v /\ i = j
    BY DEF Unique
  <2>1. CASE u = t /\ i = N /\ ~(v = t /\ j = N)
    BY <1>1, <1>2, <1>3, <2>1
  <2>2. CASE v = t /\ j = N /\ ~(u = t /\ i = N)
    BY <1>1, <1>2, <1>3, <2>2
  <2>3. CASE ~(u = t /\ i = N) /\ ~(v = t /\ j = N)
    <3>1. i \in Slot(c, s, u) /\ j \in Slot(c, s, v)
      BY <1>1, <2>3
    <3>2. FrameAt(c, s, u, i).id = FrameAt(c, s, v, j).id
      BY <1>3, <3>1
    <3>3. QED
      BY <3>1, <3>2 DEF Unique
  <2>4. QED
    BY <2>1, <2>2, <2>3
<1>5. Linked(d, r)
  <2> SUFFICES ASSUME NEW u \in Task, NEW i \in Slot(d, r, u)
               PROVE  FrameAt(d, r, u, i).parent = IF i = 1 THEN 0 ELSE FrameAt(d, r, u, i - 1).id
    BY DEF Linked
  <2>1. CASE u = t /\ i = N
    <3>1. CASE Len(r[t]) = 0
      BY <1>2, <2>1, <3>1 DEF N
    <3>2. CASE Len(r[t]) # 0
      <4>1. Len(r[t]) \in Slot(c, s, t)
        BY <1>0, <3>2 DEF Grown
      <4>2. FrameAt(d, r, t, Len(r[t])).id = FrameAt(c, s, t, Len(r[t])).id
        BY <1>3, <4>1
      <4>3. i - 1 = Len(r[t]) /\ i # 1
        BY <1>0, <2>1, <3>2 DEF N
      <4>4. QED
        BY <1>2, <2>1, <3>2, <4>2, <4>3
    <3>3. QED
      BY <3>1, <3>2
  <2>2. CASE ~(u = t /\ i = N)
    <3>1. i \in Slot(c, s, u)
      BY <1>1, <2>2
    <3>2. FrameAt(c, s, u, i).parent = IF i = 1 THEN 0 ELSE FrameAt(c, s, u, i - 1).id
      BY <3>1 DEF Linked
    <3>3. CASE i = 1
      BY <1>3, <3>1, <3>2, <3>3
    <3>4. CASE i # 1
      <4>1. i - 1 \in Slot(c, s, u)
        BY <3>1, <3>4 DEF Slot
      <4>2. FrameAt(d, r, u, i - 1).id = FrameAt(c, s, u, i - 1).id
        BY <1>3, <4>1
      <4>3. QED
        BY <1>3, <3>1, <3>2, <3>4, <4>2
    <3>5. QED
      BY <3>3, <3>4
  <2>3. QED
    BY <2>1, <2>2
<1>6. QED
  BY <1>4, <1>5

\* The slots of c and s are apart from g's dispatch and in order, and g is the next above r.
Closed(c, s, r, t, g) ==
  /\ Unique(c, s) /\ Linked(c, s)
  /\ g.id \notin OpenIds(c, s)
  /\ g.parent = IF Len(r[t]) = 0 THEN 0 ELSE FrameAt(c, s, t, Len(r[t])).id

\* A dispatch ends: what held of the slots holds without the top one of t.
LEMMA ShrunkKeeps ==
  ASSUME NEW c, NEW s \in [Task -> Seq(Frame)], NEW d, NEW r \in [Task -> Seq(Frame)],
         NEW t \in Task, NEW g, Grown(c, s, d, r, t, g), Coherent(c, s), Coherent(d, r),
         Unique(d, r), Linked(d, r)
  PROVE  Closed(c, s, r, t, g)
<1> DEFINE N == Len(r[t]) + 1
<1>0. Len(r[t]) \in Nat /\ N \in Nat /\ N > 0 /\ N \in Slot(d, r, t) /\ N \notin Slot(c, s, t)
      /\ FrameAt(d, r, t, N) = g /\ Slot(c, s, t) = 1 .. Len(r[t]) /\ N - 1 = Len(r[t])
  BY DEF Grown
<1>1. ASSUME NEW u \in Task, NEW i \in Slot(c, s, u)
      PROVE  /\ i \in Slot(d, r, u)
             /\ FrameAt(d, r, u, i).id = FrameAt(c, s, u, i).id
             /\ FrameAt(d, r, u, i).parent = FrameAt(c, s, u, i).parent
  BY DEF Grown
<1> HIDE DEF N
<1>2. Unique(c, s)
  <2> SUFFICES ASSUME NEW u \in Task, NEW v \in Task, NEW i \in Slot(c, s, u), NEW j \in Slot(c, s, v),
                      FrameAt(c, s, u, i).id = FrameAt(c, s, v, j).id
               PROVE  u = v /\ i = j
    BY DEF Unique
  <2>1. i \in Slot(d, r, u) /\ j \in Slot(d, r, v) /\ FrameAt(d, r, u, i).id = FrameAt(d, r, v, j).id
    BY <1>1
  <2>2. QED
    BY <2>1 DEF Unique
<1>3. Linked(c, s)
  <2> SUFFICES ASSUME NEW u \in Task, NEW i \in Slot(c, s, u)
               PROVE  FrameAt(c, s, u, i).parent = IF i = 1 THEN 0 ELSE FrameAt(c, s, u, i - 1).id
    BY DEF Linked
  <2>1. FrameAt(d, r, u, i).parent = IF i = 1 THEN 0 ELSE FrameAt(d, r, u, i - 1).id
    BY <1>1 DEF Linked
  <2>2. CASE i = 1
    BY <1>1, <2>1, <2>2
  <2>3. CASE i # 1
    <3>1. i - 1 \in Slot(c, s, u)
      BY <2>3 DEF Slot
    <3>2. FrameAt(d, r, u, i - 1).id = FrameAt(c, s, u, i - 1).id
      BY <1>1, <3>1
    <3>3. QED
      BY <1>1, <2>1, <2>3, <3>2
  <2>4. QED
    BY <2>2, <2>3
<1>4. g.id \notin OpenIds(c, s)
  <2> SUFFICES ASSUME g.id \in OpenIds(c, s) PROVE FALSE
    OBVIOUS
  <2>1. PICK u \in Task : \E i \in Slot(c, s, u) : FrameAt(c, s, u, i).id = g.id
    BY OpenSlots
  <2>2. PICK i \in Slot(c, s, u) : FrameAt(c, s, u, i).id = g.id
    BY <2>1
  <2>3. i \in Slot(d, r, u) /\ FrameAt(d, r, u, i).id = FrameAt(d, r, t, N).id
    BY <1>0, <1>1, <2>2
  <2>4. u = t /\ i = N
    BY <1>0, <2>3 DEF Unique
  <2>5. QED
    BY <1>0, <2>4
<1>5. g.parent = IF Len(r[t]) = 0 THEN 0 ELSE FrameAt(c, s, t, Len(r[t])).id
  <2>1. g.parent = IF N = 1 THEN 0 ELSE FrameAt(d, r, t, N - 1).id
    BY <1>0 DEF Linked
  <2>2. CASE Len(r[t]) = 0
    BY <1>0, <2>1, <2>2
  <2>3. CASE Len(r[t]) # 0
    <3>1. Len(r[t]) \in Slot(c, s, t)
      BY <1>0, <2>3
    <3>2. QED
      BY <1>0, <1>1, <2>1, <2>3, <3>1
  <2>4. QED
    BY <2>2, <2>3
<1>6. QED
  BY <1>2, <1>3, <1>4, <1>5 DEF Closed


-----------------------------------------------------------------------------
\* The numbers handed out so far, and what they stand for.
LEMMA NumbersOpen ==
  ASSUME AuditComplete
  PROVE  OpenIds(cur, callers) \subseteq 1 .. (nextId - 1)
BY InFlightOpen DEF AuditComplete

LEMMA BeginOpens ==
  ASSUME callers \in [Task -> Seq(Frame)], callers' \in [Task -> Seq(Frame)], NEW t \in Task,
         Grown(cur, callers, cur', callers', t, cur'[t]), Coherent(cur, callers), Coherent(cur', callers')
  PROVE  OpenIds(cur', callers') = OpenIds(cur, callers) \cup {cur'[t].id}
<1>1. Opened(cur, callers, cur', callers', cur'[t].id)
  BY GrownIds
<1>2. QED
  BY <1>1 DEF Opened

LEMMA EndCloses ==
  ASSUME callers \in [Task -> Seq(Frame)], callers' \in [Task -> Seq(Frame)], NEW t \in Task,
         Grown(cur', callers', cur, callers, t, cur[t]), Coherent(cur, callers), Coherent(cur', callers')
  PROVE  OpenIds(cur, callers) = OpenIds(cur', callers') \cup {cur[t].id}
<1>1. Opened(cur', callers', cur, callers, cur[t].id)
  BY GrownIds
<1>2. QED
  BY <1>1 DEF Opened

\* A dispatch begins in a new slot of t: the next number is under way.
LEMMA BeginAudit ==
  ASSUME TypeOK, TypeOK', AuditInv, NEW t \in Task,
         Grown(cur, callers, cur', callers', t, cur'[t]), Coherent(cur', callers'),
         \A u \in Task \ {t} : cur'[u] = cur[u] /\ callers'[u] = callers[u],
         cur'[t].id = nextId, cur[t].at = "idle" \/ cur[t].why = "none",
         cur'[t].parent = IF Len(callers'[t]) = 0 THEN 0 ELSE FrameAt(cur, callers, t, Len(callers'[t])).id,
         nextId' = nextId + 1, UNCHANGED <<trace, lost>>
  PROVE  AuditInv'
<1> USE DEF AuditInv
<1>1. callers \in [Task -> Seq(Frame)] /\ callers' \in [Task -> Seq(Frame)] /\ nextId \in Nat /\ nextId > 0
  BY DEF TypeOK, ParentsBefore
<1>2. InFlight = OpenIds(cur, callers) /\ InFlight' = OpenIds(cur, callers) \cup {nextId}
  <2>1. Grown(cur, callers, cur', callers', t, cur'[t]) /\ Coherent(cur, callers) /\ Coherent(cur', callers')
    OBVIOUS
  <2>2. OpenIds(cur', callers') = OpenIds(cur, callers) \cup {cur'[t].id}
    BY <1>1, <2>1, BeginOpens
  <2>3. QED
    BY <2>2, InFlightOpen
<1>3. nextId \notin 1 .. (nextId - 1) /\ 1 .. (nextId' - 1) = 1 .. (nextId - 1) \cup {nextId}
  BY <1>1
<1>4. nextId \notin OpenIds(cur, callers)
  BY <1>3, NumbersOpen
<1>5. Unique(cur', callers') /\ Linked(cur', callers')
  BY <1>1, <1>4, GrownKeeps
<1>6. Excused(cur', callers', trace)
  <2> SUFFICES ASSUME NEW u \in Task, NEW i \in Slot(cur', callers', u), NEW n \in DOMAIN trace,
                      trace[n].parent = FrameAt(cur', callers', u, i).id
               PROVE  trace[n].why = "ok" \/ (i = Len(callers'[u]) + 1 /\ cur'[u].why = "sub")
    BY DEF Excused
  <2>1. ASSUME i \in Slot(cur, callers, u)
        PROVE  trace[n].why = "ok" \/ (i = Len(callers[u]) + 1 /\ cur[u].why = "sub")
    <3>1. FrameAt(cur', callers', u, i).id = FrameAt(cur, callers, u, i).id
      BY <2>1 DEF Grown
    <3>2. QED
      BY <2>1, <3>1 DEF Excused
  <2>2. CASE u # t
    <3>1. i \in Slot(cur, callers, u)
      BY <2>2 DEF Grown
    <3>2. QED
      BY <2>1, <2>2, <3>1
  <2>3. CASE u = t /\ i \in Slot(cur, callers, t)
    <3>1. cur[t].why = "none"
      BY <2>3 DEF Slot
    <3>2. QED
      BY <2>1, <2>3, <3>1
  <2>4. CASE u = t /\ i \notin Slot(cur, callers, t)
    <3>1. Len(callers'[t]) \in Nat
      BY <1>1
    <3>2. i = Len(callers'[t]) + 1
      BY <2>4, <3>1 DEF Grown
    <3>3. FrameAt(cur', callers', u, i).id = nextId
      BY <2>4, <3>2 DEF Grown
    <3>4. trace[n].parent < nextId
      BY DEF ParentsBefore
    <3>5. QED
      BY <1>1, <3>3, <3>4
  <2>5. QED
    BY <2>2, <2>3, <2>4
<1>7. ParentsBefore'
  <2>1. \A n \in DOMAIN trace : trace[n].parent \in Nat
    <3>1. trace \in Seq(Record)
      BY DEF TypeOK
    <3>2. \A n \in DOMAIN trace : trace[n] \in Record
      BY <3>1
    <3>3. QED
      BY <3>2 DEF Record
  <2>2. QED
    BY <1>1, <2>1 DEF ParentsBefore
<1>8. AuditComplete'
  <2>1. nextId \notin Traced \cup lost
    BY <1>3 DEF AuditComplete
  <2>2. Traced' = Traced /\ lost' = lost
    BY DEF Traced
  <2>3. /\ 1 .. (nextId' - 1) = InFlight' \cup Traced' \cup lost'
        /\ InFlight' \cap Traced' = {} /\ InFlight' \cap lost' = {} /\ Traced' \cap lost' = {}
    BY <1>2, <1>3, <2>1, <2>2 DEF AuditComplete
  <2>4. QED
    BY <2>3 DEF AuditComplete
<1>9. QED
  BY <1>5, <1>6, <1>7, <1>8

LEMMA NewFrameShape ==
  ASSUME NEW b, NEW p, NEW parent
  PROVE  LET g == NewFrame(b, p, parent) IN
         /\ g.id = nextId /\ g.parent = parent /\ g.at # "idle"
         /\ g.why # "none" <=> g.at \in Ending
BY DEF NewFrame, Ending

LEMMA DispatchAudit ==
  ASSUME TypeOK, TypeOK', AuditInv, NEW t \in Task, Dispatch(t)
  PROVE  AuditInv'
<1> USE DEF AuditInv
<1>1. PICK q \in Request : cur' = [cur EXCEPT ![t] = NewFrame(q[1], q[2], 0)]
  BY DEF Dispatch, Goto
<1> DEFINE g == NewFrame(q[1], q[2], 0)
<1>2. g.id = nextId /\ g.parent = 0 /\ g.at # "idle" /\ (g.why # "none" <=> g.at \in Ending)
  BY NewFrameShape
<1> HIDE DEF g
<1>3. /\ \A u \in Task : cur'[u] = IF u = t THEN g ELSE cur[u]
      /\ cur[t].at = "idle" /\ callers' = callers /\ callers[t] = <<>>
      /\ nextId' = nextId + 1 /\ UNCHANGED <<trace, lost>>
  BY <1>1 DEF Dispatch, At, Coherent, ghost, g, TypeOK
<1>4. Coherent(cur', callers')
  BY <1>2, <1>3 DEF Coherent
<1>5. Grown(cur, callers, cur', callers', t, cur'[t])
  <2>1. Slot(cur, callers, t) = {} /\ Slot(cur', callers, t) = 1 .. 1 /\ Len(callers[t]) = 0
    BY <1>2, <1>3 DEF Slot
  <2>2. \A u \in Task : u # t => Slot(cur', callers, u) = Slot(cur, callers, u)
    BY <1>3 DEF Slot
  <2>3. \A u \in Task : u # t => \A i : FrameAt(cur', callers, u, i) = FrameAt(cur, callers, u, i)
    BY <1>3 DEF FrameAt
  <2>4. FrameAt(cur', callers, t, 1) = cur'[t]
    BY <2>1 DEF FrameAt
  <2>5. \A u \in Task : \A i \in Slot(cur, callers, u) :
          /\ i \in Slot(cur', callers, u)
          /\ FrameAt(cur', callers, u, i).id = FrameAt(cur, callers, u, i).id
          /\ FrameAt(cur', callers, u, i).parent = FrameAt(cur, callers, u, i).parent
    BY <2>1, <2>2, <2>3
  <2>6. QED
    BY <1>3, <2>1, <2>2, <2>4, <2>5 DEF Grown
<1>6. QED
  BY <1>2, <1>3, <1>4, <1>5, BeginAudit

\* A sub-pipeline's dispatch begins on top of its caller's.
LEMMA CallAudit ==
  ASSUME TypeOK, TypeOK', AuditInv, NEW t \in Task, NEW b, NEW p, cur[t].at = "run",
         callers' = [callers EXCEPT ![t] = Append(@, Rest(cur[t]))],
         cur' = [cur EXCEPT ![t] = NewFrame(b, p, cur[t].id)],
         nextId' = nextId + 1, UNCHANGED <<trace, lost>>
  PROVE  AuditInv'
<1> USE DEF AuditInv
<1> DEFINE g == NewFrame(b, p, cur[t].id)
           f == Rest(cur[t])
           N == Len(callers[t]) + 1
<1>1. g.id = nextId /\ g.parent = cur[t].id /\ g.at # "idle" /\ (g.why # "none" <=> g.at \in Ending)
  BY NewFrameShape
<1>2. cur[t] \in Frame /\ cur[t].why = "none"
  BY DEF TypeOK, Coherent, Ending
<1>3. f.id = cur[t].id /\ f.parent = cur[t].parent /\ f.at = "run" /\ f.why = "none"
  BY <1>2 DEF Rest, Frame
<1>4. \A u \in Task : cur'[u] = IF u = t THEN g ELSE cur[u]
  BY DEF TypeOK
<1>5. /\ \A u \in Task : u # t => callers'[u] = callers[u]
      /\ Len(callers[t]) \in Nat
      /\ Len(callers'[t]) = N /\ N \in Nat /\ N > 0
      /\ \A i \in 1 .. Len(callers[t]) : callers'[t][i] = callers[t][i]
      /\ callers'[t][N] = f
  <2>1. callers[t] \in Seq(Frame) /\ callers' \in [Task -> Seq(Frame)]
    BY DEF TypeOK
  <2>2. callers'[t] = Append(callers[t], f) /\ \A u \in Task : u # t => callers'[u] = callers[u]
    BY DEF TypeOK
  <2> HIDE DEF f
  <2>3. callers'[t][N] = f
    BY <2>1, <2>2
  <2>4. QED
    BY <2>1, <2>2, <2>3
<1> HIDE DEF f, g
<1>6. Coherent(cur', callers')
  <2> SUFFICES ASSUME NEW u \in Task
               PROVE  /\ cur'[u].at = "idle" => callers'[u] = <<>>
                      /\ cur'[u].at # "idle" => (cur'[u].why # "none" <=> cur'[u].at \in Ending)
                      /\ \A i \in 1 .. Len(callers'[u]) : callers'[u][i].at = "run" /\ callers'[u][i].why = "none"
    BY DEF Coherent
  <2>1. CASE u # t
    BY <1>4, <1>5, <2>1 DEF Coherent
  <2>2. CASE u = t
    <3>1. \A i \in 1 .. N : i = N \/ i \in 1 .. Len(callers[t])
      BY <1>5
    <3>2. \A i \in 1 .. Len(callers[t]) : callers[t][i].at = "run" /\ callers[t][i].why = "none"
      BY DEF Coherent
    <3>3. QED
      BY <1>1, <1>3, <1>4, <1>5, <2>2, <3>1, <3>2
  <2>3. QED
    BY <2>1, <2>2
<1>7. Grown(cur, callers, cur', callers', t, cur'[t])
  <2>1. Slot(cur, callers, t) = 1 .. N /\ Slot(cur', callers', t) = 1 .. N + 1
    BY <1>1, <1>4, <1>5 DEF Slot
  <2>2. \A u \in Task : u # t => Slot(cur', callers', u) = Slot(cur, callers, u)
    BY <1>4, <1>5 DEF Slot
  <2>3. \A u \in Task : u # t => \A i : FrameAt(cur', callers', u, i) = FrameAt(cur, callers, u, i)
    BY <1>4, <1>5 DEF FrameAt
  <2>4. FrameAt(cur', callers', t, N + 1) = cur'[t]
    BY <1>5 DEF FrameAt
  <2>5. ASSUME NEW i \in 1 .. N
        PROVE  /\ FrameAt(cur', callers', t, i).id = FrameAt(cur, callers, t, i).id
               /\ FrameAt(cur', callers', t, i).parent = FrameAt(cur, callers, t, i).parent
    <3>1. CASE i = N
      <4>1. FrameAt(cur', callers', t, i) = f /\ FrameAt(cur, callers, t, i) = cur[t]
        BY <1>5, <3>1 DEF FrameAt
      <4>2. QED
        BY <1>3, <4>1
    <3>2. CASE i # N
      BY <1>5, <3>2 DEF FrameAt
    <3>3. QED
      BY <3>1, <3>2
  <2>6. 1 .. N \subseteq 1 .. N + 1
    BY <1>5
  <2>7. \A u \in Task : \A i \in Slot(cur, callers, u) :
          /\ i \in Slot(cur', callers', u)
          /\ FrameAt(cur', callers', u, i).id = FrameAt(cur, callers, u, i).id
          /\ FrameAt(cur', callers', u, i).parent = FrameAt(cur, callers, u, i).parent
    BY <2>1, <2>2, <2>3, <2>5, <2>6
  <2>8. QED
    BY <1>5, <2>1, <2>2, <2>4, <2>7 DEF Grown
<1>8. FrameAt(cur, callers, t, N) = cur[t] /\ N # 0
  BY <1>5 DEF FrameAt
<1>9. \A u \in Task \ {t} : cur'[u] = cur[u] /\ callers'[u] = callers[u]
  BY <1>4, <1>5
<1>10. /\ cur'[t].id = nextId
       /\ cur'[t].parent = IF Len(callers'[t]) = 0 THEN 0 ELSE FrameAt(cur, callers, t, Len(callers'[t])).id
  BY <1>1, <1>4, <1>5, <1>8
<1>11. cur[t].at = "idle" \/ cur[t].why = "none"
  BY <1>2
<1>12. QED
  BY <1>6, <1>7, <1>9, <1>10, <1>11, BeginAudit, Zenon


LEMMA ReturnedShape ==
  ASSUME NEW f \in Frame, f.at = "run", f.why = "none", NEW why
  PROVE  LET g == Returned(f, why) IN
         /\ g.id = f.id /\ g.parent = f.parent /\ g.at # "idle"
         /\ g.why # "none" <=> g.at \in Ending
         /\ why # "ok" => g.why = "sub"
BY DEF Returned, Resume, Refuse, Ending, Frame

\* The end of a dispatch frees its slot; what is left is as the caller left it.
LEMMA FinishSlots ==
  ASSUME TypeOK, TypeOK', AuditInv, NEW t \in Task, Finish(t)
  PROVE  /\ Coherent(cur', callers')
         /\ Grown(cur', callers', cur, callers, t, cur[t])
         /\ \A u \in Task : u # t => cur'[u] = cur[u] /\ callers'[u] = callers[u]
         /\ Len(callers[t]) # 0 /\ cur[t].why # "ok" =>
              cur'[t].why = "sub" /\ Len(callers'[t]) + 1 = Len(callers[t])
<1> USE DEF AuditInv
<1> DEFINE f == cur[t]
           n == Len(callers[t])
<1>1. /\ callers[t] \in Seq(Frame) /\ n \in Nat /\ f.at = "trace" /\ Idle.at = "idle"
      /\ \A i \in 1 .. n : callers[t][i] \in Frame /\ callers[t][i].at = "run" /\ callers[t][i].why = "none"
  BY DEF TypeOK, Finish, At, Idle, Coherent
<1>2. CASE n = 0
  <2>1. /\ callers' = callers /\ callers[t] = <<>>
        /\ \A u \in Task : cur'[u] = IF u = t THEN Idle ELSE cur[u]
    BY <1>1, <1>2 DEF Finish, Goto, TypeOK
  <2>2. Coherent(cur', callers')
    BY <1>1, <2>1 DEF Coherent
  <2>3. Slot(cur', callers', t) = {} /\ Slot(cur, callers, t) = 1 .. 1 /\ 1 .. n = {}
    BY <1>1, <1>2, <2>1 DEF Slot
  <2>4. FrameAt(cur, callers, t, n + 1) = f
    BY <1>1 DEF FrameAt
  <2>5. \A u \in Task : u # t => Slot(cur', callers', u) = Slot(cur, callers, u)
    BY <2>1 DEF Slot
  <2>6. \A u \in Task : u # t => \A i : FrameAt(cur', callers', u, i) = FrameAt(cur, callers, u, i)
    BY <2>1 DEF FrameAt
  <2>7. Grown(cur', callers', cur, callers, t, cur[t])
    BY <1>2, <2>3, <2>4, <2>5, <2>6 DEF Grown
  <2>8. QED
    BY <1>2, <2>1, <2>2, <2>7
<1>3. CASE n > 0
  <2> DEFINE g == Returned(callers[t][n], f.why)
             r == SubSeq(callers[t], 1, n - 1)
  <2>1. cur' = [cur EXCEPT ![t] = g] /\ callers' = [callers EXCEPT ![t] = r]
    BY <1>1, <1>3 DEF Finish, Goto
  <2>2. /\ g.id = callers[t][n].id /\ g.parent = callers[t][n].parent /\ g.at # "idle"
        /\ (g.why # "none" <=> g.at \in Ending) /\ (f.why # "ok" => g.why = "sub")
    BY <1>1, <1>3, ReturnedShape
  <2>3. Len(r) = n - 1 /\ \A i \in 1 .. n - 1 : r[i] = callers[t][i]
    BY <1>1, <1>3
  <2> HIDE DEF g, r
  <2>4. /\ \A u \in Task : cur'[u] = IF u = t THEN g ELSE cur[u]
        /\ \A u \in Task : callers'[u] = IF u = t THEN r ELSE callers[u]
    BY <2>1 DEF TypeOK
  <2>5. Coherent(cur', callers')
    <3> SUFFICES ASSUME NEW u \in Task
                 PROVE  /\ cur'[u].at = "idle" => callers'[u] = <<>>
                        /\ cur'[u].at # "idle" => (cur'[u].why # "none" <=> cur'[u].at \in Ending)
                        /\ \A i \in 1 .. Len(callers'[u]) : callers'[u][i].at = "run" /\ callers'[u][i].why = "none"
      BY DEF Coherent
    <3>1. CASE u # t
      BY <2>4, <3>1 DEF Coherent
    <3>2. CASE u = t
      <4>1. \A i \in 1 .. n - 1 : i \in 1 .. n
        BY <1>1
      <4>2. QED
        BY <1>1, <2>2, <2>3, <2>4, <3>2, <4>1
    <3>3. QED
      BY <3>1, <3>2
  <2>6. Slot(cur', callers', t) = 1 .. n /\ Slot(cur, callers, t) = 1 .. n + 1
    BY <1>1, <2>2, <2>3, <2>4 DEF Slot
  <2>7. FrameAt(cur, callers, t, n + 1) = f
    BY <1>1 DEF FrameAt
  <2>8. \A u \in Task : u # t => Slot(cur', callers', u) = Slot(cur, callers, u)
    BY <2>4 DEF Slot
  <2>9. \A u \in Task : u # t => \A i : FrameAt(cur', callers', u, i) = FrameAt(cur, callers, u, i)
    BY <2>4 DEF FrameAt
  <2>10. ASSUME NEW i \in 1 .. n
         PROVE  /\ FrameAt(cur, callers, t, i).id = FrameAt(cur', callers', t, i).id
                /\ FrameAt(cur, callers, t, i).parent = FrameAt(cur', callers', t, i).parent
    <3>1. FrameAt(cur, callers, t, i) = callers[t][i]
      BY <1>1 DEF FrameAt
    <3>2. CASE i = n
      <4>1. FrameAt(cur', callers', t, i) = g
        BY <1>1, <2>3, <2>4, <3>2 DEF FrameAt
      <4>2. QED
        BY <2>2, <3>1, <3>2, <4>1
    <3>3. CASE i # n
      <4>1. FrameAt(cur', callers', t, i) = callers[t][i]
        BY <1>1, <2>3, <2>4, <3>3 DEF FrameAt
      <4>2. QED
        BY <3>1, <4>1
    <3>4. QED
      BY <3>2, <3>3
  <2>11. \A i \in 1 .. n : i \in 1 .. n + 1
    BY <1>1
  <2>12. \A u \in Task : \A i \in Slot(cur', callers', u) :
           /\ i \in Slot(cur, callers, u)
           /\ FrameAt(cur, callers, u, i).id = FrameAt(cur', callers', u, i).id
           /\ FrameAt(cur, callers, u, i).parent = FrameAt(cur', callers', u, i).parent
    BY <2>6, <2>8, <2>9, <2>10, <2>11
  <2>13. Grown(cur', callers', cur, callers, t, cur[t])
    BY <2>6, <2>7, <2>8, <2>12 DEF Grown
  <2>14. QED
    BY <1>1, <2>2, <2>3, <2>4, <2>5, <2>13
<1>4. QED
  BY <1>1, <1>2, <1>3


\* What ends leaves the slots: its number is no longer under way.
LEMMA FinishIds ==
  ASSUME TypeOK, TypeOK', AuditInv, NEW t \in Task, Finish(t)
  PROVE  /\ Unique(cur', callers') /\ Linked(cur', callers')
         /\ cur[t].id \in InFlight /\ InFlight' = InFlight \ {cur[t].id}
         /\ cur[t].parent = IF Len(callers[t]) = 0 THEN 0 ELSE FrameAt(cur', callers', t, Len(callers[t])).id
<1> USE DEF AuditInv
<1>1. callers \in [Task -> Seq(Frame)] /\ callers' \in [Task -> Seq(Frame)]
  BY DEF TypeOK
<1>2. Coherent(cur', callers') /\ Grown(cur', callers', cur, callers, t, cur[t])
  BY FinishSlots
<1>3. /\ Unique(cur', callers') /\ Linked(cur', callers')
      /\ cur[t].id \notin OpenIds(cur', callers')
      /\ cur[t].parent = IF Len(callers[t]) = 0 THEN 0 ELSE FrameAt(cur', callers', t, Len(callers[t])).id
  <2>1. Closed(cur', callers', callers, t, cur[t])
    BY <1>1, <1>2, ShrunkKeeps
  <2>2. QED
    BY <2>1 DEF Closed
<1>4. OpenIds(cur, callers) = OpenIds(cur', callers') \cup {cur[t].id}
  BY <1>1, <1>2, EndCloses
<1>5. QED
  BY <1>3, <1>4, InFlightOpen

\* The record of what ends: it has the dispatch's number and its caller's, which is still
\* under way and fails with it.
LEMMA FinishExcused ==
  ASSUME TypeOK, TypeOK', AuditInv, NEW t \in Task, Finish(t)
  PROVE  Excused(cur', callers', trace')
<1> USE DEF AuditInv
<1> DEFINE f == cur[t]
           n == Len(callers[t])
<1>1. /\ Coherent(cur', callers') /\ Grown(cur', callers', cur, callers, t, f)
      /\ \A u \in Task : u # t => cur'[u] = cur[u] /\ callers'[u] = callers[u]
      /\ n # 0 /\ f.why # "ok" => cur'[t].why = "sub" /\ Len(callers'[t]) + 1 = n
  BY FinishSlots
<1>2. n \in Nat /\ trace \in Seq(Record)
  BY DEF TypeOK
<1>3. f.parent = IF n = 0 THEN 0 ELSE FrameAt(cur', callers', t, n).id
  BY FinishIds
<1>4. ASSUME NEW u \in Task, NEW i \in Slot(cur', callers', u)
      PROVE  FrameAt(cur', callers', u, i).id \in InFlight /\ FrameAt(cur', callers', u, i).id # 0
  <2>1. i \in Slot(cur, callers, u) /\ FrameAt(cur', callers', u, i).id = FrameAt(cur, callers, u, i).id
    BY <1>1 DEF Grown
  <2>2. FrameAt(cur, callers, u, i).id \in InFlight
    BY <2>1, OpenSlots, InFlightOpen DEF TypeOK
  <2>3. InFlight \subseteq 1 .. (nextId - 1) /\ nextId \in Nat
    BY DEF AuditComplete, TypeOK
  <2>4. QED
    BY <2>1, <2>2, <2>3
<1>5. ASSUME NEW u \in Task, NEW i \in Slot(cur', callers', u), NEW m \in DOMAIN trace,
             trace[m].parent = FrameAt(cur', callers', u, i).id
      PROVE  trace[m].why = "ok" \/ (i = Len(callers'[u]) + 1 /\ cur'[u].why = "sub")
  <2>1. i \in Slot(cur, callers, u) /\ FrameAt(cur', callers', u, i).id = FrameAt(cur, callers, u, i).id
    BY <1>1 DEF Grown
  <2>2. trace[m].why = "ok" \/ (i = Len(callers[u]) + 1 /\ cur[u].why = "sub")
    BY <1>5, <2>1 DEF Excused
  <2>3. CASE u # t
    BY <1>1, <2>2, <2>3
  <2>4. CASE u = t
    <3>1. i \in 1 .. n
      BY <1>1, <2>4 DEF Grown
    <3>2. QED
      BY <1>2, <2>2, <2>4, <3>1
  <2>5. QED
    BY <2>3, <2>4
<1>6. ASSUME NEW u \in Task, NEW i \in Slot(cur', callers', u), f.parent = FrameAt(cur', callers', u, i).id
      PROVE  f.why = "ok" \/ (i = Len(callers'[u]) + 1 /\ cur'[u].why = "sub")
  <2>1. n # 0
    BY <1>3, <1>4, <1>6
  <2>2. n \in Slot(cur', callers', t)
    BY <1>1, <1>2, <2>1 DEF Grown
  <2>3. u = t /\ i = n
    BY <1>3, <1>6, <2>1, <2>2, FinishIds DEF Unique
  <2>4. QED
    BY <1>1, <2>1, <2>3
<1>7. CASE trace' = trace
  BY <1>5, <1>7 DEF Excused
<1>8. CASE trace' = Append(trace, RecordOf(f))
  <2>1. DOMAIN trace' = 1 .. Len(trace) + 1 /\ DOMAIN trace = 1 .. Len(trace) /\ Len(trace) \in Nat
    BY <1>2, <1>8
  <2>2. \A m \in 1 .. Len(trace) : trace'[m] = trace[m]
    BY <1>2, <1>8
  <2>3. trace'[Len(trace) + 1] = RecordOf(f)
    BY <1>2, <1>8
  <2>4. RecordOf(f).parent = f.parent /\ RecordOf(f).why = f.why
    BY DEF RecordOf
  <2> SUFFICES ASSUME NEW u \in Task, NEW i \in Slot(cur', callers', u), NEW m \in DOMAIN trace',
                      trace'[m].parent = FrameAt(cur', callers', u, i).id
               PROVE  trace'[m].why = "ok" \/ (i = Len(callers'[u]) + 1 /\ cur'[u].why = "sub")
    BY DEF Excused
  <2>5. CASE m = Len(trace) + 1
    BY <1>6, <2>3, <2>4, <2>5
  <2>6. CASE m # Len(trace) + 1
    <3>1. m \in DOMAIN trace /\ trace'[m] = trace[m]
      BY <2>1, <2>2, <2>6
    <3>2. QED
      BY <1>5, <3>1
  <2>7. QED
    BY <2>5, <2>6
<1>9. QED
  BY <1>7, <1>8 DEF Finish, AppendTrace

LEMMA FinishComplete ==
  ASSUME TypeOK, TypeOK', AuditInv, NEW t \in Task, Finish(t)
  PROVE  AuditComplete' /\ ParentsBefore'
<1> USE DEF AuditInv
<1> DEFINE f == cur[t]
<1>1. f.id \in InFlight /\ InFlight' = InFlight \ {f.id}
  BY FinishIds
<1>2. nextId' = nextId /\ nextId \in Nat /\ trace \in Seq(Record) /\ nextId > 0
  BY DEF Finish, TypeOK, ParentsBefore
<1>3. f.parent = 0 \/ f.parent \in InFlight'
  <2>1. callers' \in [Task -> Seq(Frame)] /\ Coherent(cur', callers') /\ Len(callers[t]) \in Nat
        /\ Grown(cur', callers', cur, callers, t, f)
    <3>1. callers' \in [Task -> Seq(Frame)] /\ callers \in [Task -> Seq(Frame)]
      BY DEF TypeOK
    <3>2. Coherent(cur', callers') /\ Grown(cur', callers', cur, callers, t, f)
      BY FinishSlots
    <3>3. QED
      BY <3>1, <3>2
  <2>2. f.parent = IF Len(callers[t]) = 0 THEN 0 ELSE FrameAt(cur', callers', t, Len(callers[t])).id
    BY FinishIds
  <2>3. CASE Len(callers[t]) = 0
    BY <2>2, <2>3
  <2>4. CASE Len(callers[t]) # 0
    <3>1. Len(callers[t]) \in Slot(cur', callers', t)
      BY <2>1, <2>4 DEF Grown
    <3>2. FrameAt(cur', callers', t, Len(callers[t])).id \in OpenIds(cur', callers')
      BY <2>1, <3>1, OpenSlots
    <3>3. QED
      BY <2>2, <2>4, <3>2, InFlightOpen
  <2>5. QED
    BY <2>3, <2>4
<1>4. InFlight \subseteq 1 .. (nextId - 1) /\ Traced \subseteq 1 .. (nextId - 1)
  BY DEF AuditComplete
<1>5. f.parent < nextId /\ f.parent \notin Traced /\ f.parent # f.id
  BY <1>1, <1>2, <1>3, <1>4 DEF AuditComplete
<1>6. CASE trace' = trace /\ lost' = lost \cup {f.id}
  <2>1. Traced' = Traced
    BY <1>6 DEF Traced
  <2>2. /\ 1 .. (nextId' - 1) = InFlight' \cup Traced' \cup lost'
        /\ InFlight' \cap Traced' = {} /\ InFlight' \cap lost' = {} /\ Traced' \cap lost' = {}
    BY <1>1, <1>2, <1>6, <2>1 DEF AuditComplete
  <2>3. AuditComplete'
    BY <1>6, <2>2 DEF AuditComplete
  <2>4. ParentsBefore'
    BY <1>2, <1>6 DEF ParentsBefore
  <2>5. QED
    BY <2>3, <2>4
<1>7. CASE trace' = Append(trace, RecordOf(f)) /\ lost' = lost
  <2> DEFINE N == Len(trace) + 1
  <2>1. DOMAIN trace' = 1 .. N /\ DOMAIN trace = 1 .. Len(trace) /\ Len(trace) \in Nat
        /\ N \in DOMAIN trace' /\ N \notin DOMAIN trace
    BY <1>2, <1>7
  <2>2. \A m \in DOMAIN trace : m \in DOMAIN trace' /\ trace'[m] = trace[m] /\ m < N
    BY <1>2, <1>7
  <2>3. trace'[N] = RecordOf(f)
    BY <1>2, <1>7
  <2>4. RecordOf(f).id = f.id /\ RecordOf(f).parent = f.parent /\ RecordOf(f).why = f.why
    BY DEF RecordOf
  <2>5. \A m \in DOMAIN trace' : m = N \/ m \in DOMAIN trace
    BY <2>1
  <2> HIDE DEF N
  <2>6. Traced' = Traced \cup {f.id}
    BY <2>1, <2>2, <2>3, <2>4, <2>5 DEF Traced
  <2>7. /\ 1 .. (nextId' - 1) = InFlight' \cup Traced' \cup lost'
        /\ InFlight' \cap Traced' = {} /\ InFlight' \cap lost' = {} /\ Traced' \cap lost' = {}
    BY <1>1, <1>2, <1>7, <2>6 DEF AuditComplete
  <2>8. \A m \in DOMAIN trace : trace[m].id # f.id /\ trace[m].id # f.parent
    BY <1>1, <1>5 DEF AuditComplete, Traced
  <2>9. \A m, k \in DOMAIN trace' : trace'[m].id = trace'[k].id => m = k
    BY <2>2, <2>3, <2>4, <2>5, <2>8 DEF AuditComplete
  <2>10. ASSUME NEW k \in DOMAIN trace, trace[k].parent = f.id
         PROVE  trace[k].why = "ok" \/ f.why = "sub"
    <3>1. callers[t] \in Seq(Frame) /\ Len(callers[t]) \in Nat /\ f.at = "trace"
      BY DEF TypeOK, Finish, At
    <3>2. Len(callers[t]) + 1 \in Slot(cur, callers, t) /\ FrameAt(cur, callers, t, Len(callers[t]) + 1) = f
      BY <3>1 DEF Slot, FrameAt
    <3>3. QED
      BY <2>10, <3>2 DEF Excused
  <2>11. ASSUME NEW m \in DOMAIN trace', NEW k \in DOMAIN trace', trace'[k].parent = trace'[m].id
         PROVE  k < m /\ (trace'[k].why # "ok" => trace'[m].why = "sub")
    <3>1. CASE m = N /\ k = N
      BY <1>5, <2>3, <2>4, <2>11, <3>1
    <3>2. CASE m = N /\ k \in DOMAIN trace
      BY <2>2, <2>3, <2>4, <2>10, <2>11, <3>2
    <3>3. CASE m \in DOMAIN trace /\ k = N
      BY <2>2, <2>3, <2>4, <2>8, <2>11, <3>3
    <3>4. CASE m \in DOMAIN trace /\ k \in DOMAIN trace
      BY <2>2, <2>11, <3>4 DEF AuditComplete
    <3>5. QED
      BY <2>5, <3>1, <3>2, <3>3, <3>4
  <2>12. AuditComplete'
    BY <2>7, <2>9, <2>11 DEF AuditComplete
  <2>13. ParentsBefore'
    BY <1>2, <1>5, <2>2, <2>3, <2>4, <2>5 DEF ParentsBefore
  <2>14. QED
    BY <2>12, <2>13
<1>8. QED
  BY <1>6, <1>7 DEF Finish, AppendTrace

LEMMA FinishAudit ==
  ASSUME TypeOK, TypeOK', AuditInv, NEW t \in Task, Finish(t)
  PROVE  AuditInv'
BY FinishSlots, FinishIds, FinishExcused, FinishComplete DEF AuditInv

-----------------------------------------------------------------------------
\* A restart leaves no slot: what was under way is lost.
LEMMA RestartAudit ==
  ASSUME TypeOK, AuditInv, Restart
  PROVE  AuditInv'
<1> USE DEF AuditInv
<1>1. /\ \A t \in Task : cur'[t] = Idle /\ callers'[t] = <<>>
      /\ Idle.at = "idle" /\ trace' = trace /\ nextId' = nextId /\ lost' = lost \cup InFlight
  BY DEF Restart, Idle
<1>2. \A t \in Task : Slot(cur', callers', t) = {}
  BY <1>1 DEF Slot
<1>3. Coherent(cur', callers')
  BY <1>1 DEF Coherent
<1>4. Unique(cur', callers') /\ Linked(cur', callers') /\ Excused(cur', callers', trace')
  BY <1>2 DEF Unique, Linked, Excused
<1>5. InFlight' = {}
  BY <1>1 DEF InFlight
<1>6. Traced' = Traced
  BY <1>1 DEF Traced
<1>7. AuditComplete'
  BY <1>1, <1>5, <1>6 DEF AuditComplete
<1>8. ParentsBefore'
  BY <1>1 DEF ParentsBefore
<1>9. QED
  BY <1>3, <1>4, <1>7, <1>8

LEMMA InitAudit ==
  ASSUME Init
  PROVE  AuditInv
<1>1. /\ \A t \in Task : cur[t] = Idle /\ callers[t] = <<>>
      /\ Idle.at = "idle" /\ trace = <<>> /\ DOMAIN trace = {} /\ nextId = 1 /\ lost = {}
  BY DEF Init, Idle
<1>2. \A t \in Task : Slot(cur, callers, t) = {}
  BY <1>1 DEF Slot
<1>3. Coherent(cur, callers)
  BY <1>1 DEF Coherent
<1>4. Unique(cur, callers) /\ Linked(cur, callers) /\ Excused(cur, callers, trace)
  BY <1>2 DEF Unique, Linked, Excused
<1>5. InFlight = {}
  BY <1>1 DEF InFlight
<1>6. AuditComplete
  BY <1>1, <1>5 DEF AuditComplete, Traced
<1>7. ParentsBefore
  BY <1>1 DEF ParentsBefore
<1>8. QED
  BY <1>3, <1>4, <1>6, <1>7 DEF AuditInv

\* A step that touches no dispatch.
LEMMA OtherAudit ==
  ASSUME AuditInv, UNCHANGED <<cur, callers, trace, nextId, lost>>
  PROVE  AuditInv'
<1> USE DEF AuditInv
<1>1. cur' = cur /\ callers' = callers /\ trace' = trace /\ nextId' = nextId /\ lost' = lost
  OBVIOUS
<1>2. Coherent(cur', callers') /\ Unique(cur', callers') /\ Linked(cur', callers')
      /\ Excused(cur', callers', trace')
  BY <1>1, Zenon
<1>3. InFlight' = InFlight /\ Traced' = Traced
  BY <1>1 DEF InFlight, Traced
<1>4. AuditComplete' /\ ParentsBefore'
  BY <1>1, <1>3 DEF AuditComplete, ParentsBefore
<1>5. QED
  BY <1>2, <1>4

\* The frame g is where the frame f can go: the same dispatch, its outcome known at its end.
Goes(f, g) ==
  /\ g.at # "idle" /\ g.id = f.id /\ g.parent = f.parent
  /\ g.why # "none" <=> g.at \in Ending
  /\ g.why = f.why \/ f.why = "none"

LEMMA RefuseGoes ==
  ASSUME NEW f \in Frame, f.why = "none", NEW s \in Overlay, NEW why \in Refused
  PROVE  Goes(f, Refuse(f, why)) /\ Goes(f, Refuse([f EXCEPT !.snap = s], why))
BY DEF Goes, Refuse, Refused, Ending, Frame

LEMMA MoveGoes ==
  ASSUME NEW f \in Frame, f.why = "none", NEW a \in Phase, a # "idle", a \notin Ending,
         NEW s \in Overlay
  PROVE  Goes(f, [f EXCEPT !.at = a]) /\ Goes(f, [f EXCEPT !.snap = s, !.at = a])
BY DEF Goes, Ending, Frame

LEMMA ResumeGoes ==
  ASSUME NEW f \in Frame, f.why = "none", NEW s \in Overlay, NEW steps
  PROVE  /\ Goes(f, Resume(f))
         /\ Goes(f, Resume([f EXCEPT !.snap = s]))
         /\ Goes(f, Resume([f EXCEPT !.todo = steps]))
BY DEF Goes, Resume, Ending, Frame

LEMMA AdmitGoes ==
  ASSUME NEW f \in Frame, f.why = "none", NEW s \in Overlay
  PROVE  Goes(f, Admit([f EXCEPT !.snap = s]))
<1>1. Goes(f, Resume([f EXCEPT !.snap = s]))
  BY ResumeGoes
<1>2. Goes(f, [[f EXCEPT !.snap = s] EXCEPT !.at = "record"])
  BY DEF Goes, Ending, Frame
<1>3. QED
  BY <1>1, <1>2 DEF Admit

LEMMA GoesAudit ==
  ASSUME TypeOK, AuditInv, NEW t \in Task, NEW g, Goto(t, g), cur[t].at # "idle",
         Goes(cur[t], g), UNCHANGED <<callers, trace, nextId, lost>>
  PROVE  AuditInv'
BY InnerAudit DEF Goto, Goes

LEMMA FrameFacts ==
  ASSUME TypeOK, AuditInv, NEW t \in Task, cur[t].at # "idle"
  PROVE  /\ cur[t] \in Frame /\ overlay[cur[t].broker] \in Overlay
         /\ cur[t].at \notin Ending => cur[t].why = "none"
         /\ cur[t].at \in Ending => cur[t].why # "none"
<1>1. cur[t] \in Frame /\ overlay \in [Broker -> Overlay]
  BY DEF TypeOK
<1>2. cur[t].broker \in Broker
  BY <1>1 DEF Frame
<1>3. QED
  BY <1>1, <1>2 DEF AuditInv, Coherent

LEMMA CheckAudit ==
  ASSUME TypeOK, AuditInv, NEW t \in Task, Check(t)
  PROVE  AuditInv'
<1> DEFINE f == cur[t]
<1>1. f.at \in {"budget", "kill", "subgate", "ready", "record"}
  BY DEF Check, CheckBudget, CheckKillSwitch, CheckSubgate, ReadOverlay, RecordDispatch, At
<1>2. f \in Frame /\ overlay[f.broker] \in Overlay /\ f.why = "none" /\ f.at # "idle"
  BY <1>1, FrameFacts DEF Ending
<1>3. UNCHANGED <<callers, trace, nextId, lost>>
  BY DEF Check, CheckBudget, CheckKillSwitch, CheckSubgate, ReadOverlay, RecordDispatch, ghost
<1>4. \A w \in Refused : Goes(f, Refuse(f, w)) /\ Goes(f, Refuse([f EXCEPT !.snap = overlay[f.broker]], w))
  BY <1>2, RefuseGoes
<1>5. \A a \in {"kill", "subgate", "ready"} : Goes(f, [f EXCEPT !.at = a])
  BY <1>2, MoveGoes DEF Phase, Ending
<1>6. Goes(f, Resume(f)) /\ Goes(f, Admit([f EXCEPT !.snap = overlay[f.broker]]))
  BY <1>2, ResumeGoes, AdmitGoes
<1>7. {"budget", "kill_switch", "subgate", "param", "precondition"} \subseteq Refused
  BY DEF Refused
<1>8. \E g : Goto(t, g) /\ Goes(f, g)
  <2>1. CASE CheckBudget(t)
    BY <1>4, <1>5, <1>7, <2>1, Zenon DEF CheckBudget
  <2>2. CASE CheckKillSwitch(t)
    BY <1>4, <1>5, <1>7, <2>2, Zenon DEF CheckKillSwitch
  <2>3. CASE CheckSubgate(t)
    BY <1>4, <1>5, <1>7, <2>3, Zenon DEF CheckSubgate
  <2>4. CASE ReadOverlay(t)
    BY <1>4, <1>6, <1>7, <2>4, Zenon DEF ReadOverlay
  <2>5. CASE RecordDispatch(t)
    BY <1>6, <2>5, Zenon DEF RecordDispatch
  <2>6. QED
    BY <2>1, <2>2, <2>3, <2>4, <2>5 DEF Check
<1>9. PICK g : Goto(t, g) /\ Goes(f, g)
  BY <1>8
<1>10. QED
  BY <1>2, <1>3, <1>9, GoesAudit

LEMMA ExecuteAudit ==
  ASSUME TypeOK, TypeOK', AuditInv, NEW t \in Task, Execute(t)
  PROVE  AuditInv'
<1> DEFINE f == cur[t]
<1>1. f.at = "run"
  BY DEF Execute, RunLeaf, FailLeaf, CallSub, RunChoice, Kind, At
<1>2. f \in Frame /\ overlay[f.broker] \in Overlay /\ f.why = "none" /\ f.at # "idle"
  BY <1>1, FrameFacts DEF Ending
<1>3. Goes(f, Refuse(f, "leaf")) /\ Goes(f, Refuse(f, "sub"))
  BY <1>2, RefuseGoes DEF Refused
<1>4. \A steps : Goes(f, Resume([f EXCEPT !.todo = steps]))
  BY <1>2, ResumeGoes
<1>5. ASSUME \E g : Goto(t, g) /\ Goes(f, g), UNCHANGED <<callers, trace, nextId, lost>>
      PROVE  AuditInv'
  <2>1. PICK g : Goto(t, g) /\ Goes(f, g)
    BY <1>5
  <2>2. QED
    BY <1>2, <1>5, <2>1, GoesAudit
<1>6. CASE RunLeaf(t)
  <2>1. UNCHANGED <<callers, trace, nextId, lost>> /\ Goto(t, Resume(Rest(f)))
    BY <1>6 DEF RunLeaf
  <2>2. Goes(f, Resume(Rest(f)))
    BY <1>4 DEF Rest
  <2>3. QED
    BY <1>5, <2>1, <2>2
<1>7. CASE FailLeaf(t)
  <2>1. UNCHANGED <<callers, trace, nextId, lost>> /\ Goto(t, Refuse(f, "leaf"))
    BY <1>7 DEF FailLeaf, ghost
  <2>2. QED
    BY <1>3, <1>5, <2>1
<1>8. CASE CallSub(t)
  <2> DEFINE callee == Head(f.todo).callee
             b == BrokerOf[callee]
  <2>1. UNCHANGED <<trace, lost>>
    BY <1>8 DEF CallSub, ghost
  <2>2. CASE /\ callers' = [callers EXCEPT ![t] = Append(@, Rest(f))]
             /\ Goto(t, NewFrame(b, callee, f.id))
             /\ nextId' = nextId + 1
    <3>1. cur' = [cur EXCEPT ![t] = NewFrame(b, callee, cur[t].id)]
      BY <2>2 DEF Goto
    <3>2. QED
      BY <1>1, <2>1, <2>2, <3>1, CallAudit
  <2>3. CASE Goto(t, Refuse(f, "sub")) /\ UNCHANGED <<callers, nextId>>
    BY <1>3, <1>5, <2>1, <2>3
  <2>4. QED
    BY <1>8, <2>2, <2>3 DEF CallSub
<1>9. CASE RunChoice(t)
  <2>1. UNCHANGED <<callers, trace, nextId, lost>>
    BY <1>9 DEF RunChoice, ghost
  <2>2. \E steps : Goto(t, Resume([f EXCEPT !.todo = steps]))
    BY <1>9 DEF RunChoice
  <2>3. QED
    BY <1>4, <1>5, <2>1, <2>2
<1>10. QED
  BY <1>6, <1>7, <1>8, <1>9 DEF Execute

LEMMA ConcludeAudit ==
  ASSUME TypeOK, TypeOK', AuditInv, NEW t \in Task, Conclude(t)
  PROVE  AuditInv'
<1> DEFINE f == cur[t]
<1>1. ASSUME ReadPost(t) \/ ComputeDelta(t)
      PROVE  AuditInv'
  <2>1. f.at \in {"post", "delta"} /\ UNCHANGED <<callers, trace, nextId, lost>>
    BY <1>1 DEF ReadPost, ComputeDelta, At, ghost
  <2>2. f \in Frame /\ f.why # "none" /\ f.at # "idle"
    BY <2>1, FrameFacts DEF Ending
  <2>3. \A o : Goes(f, [f EXCEPT !.snap = o, !.at = "delta"])
    BY <2>2 DEF Goes, Ending, Frame
  <2>4. \A n, d : Goes(f, [f EXCEPT !.from = n, !.delta = d, !.at = "trace"])
    BY <2>2 DEF Goes, Ending, Frame
  <2>5. CASE ReadPost(t)
    <3>1. Goto(t, [f EXCEPT !.snap = overlay[f.broker], !.at = "delta"])
      BY <2>5 DEF ReadPost
    <3>2. QED
      BY <2>1, <2>2, <2>3, <3>1, GoesAudit
  <2>6. CASE ComputeDelta(t)
    <3> DEFINE g == [f EXCEPT !.from = prior[f.broker].id,
                              !.delta = Compute(prior[f.broker].snap, f.snap), !.at = "trace"]
    <3>1. Goto(t, g)
      BY <2>6 DEF ComputeDelta
    <3>2. Goes(f, g)
      BY <2>4
    <3>3. QED
      BY <2>1, <2>2, <3>1, <3>2, GoesAudit
  <2>7. QED
    BY <1>1, <2>5, <2>6
<1>2. QED
  BY <1>1, FinishAudit DEF Conclude

LEMMA NextAudit ==
  ASSUME TypeOK, TypeOK', AuditInv, [Next]_vars
  PROVE  AuditInv'
<1>1. ASSUME NEW t \in Task, Dispatch(t) \/ Proceed(t)
      PROVE  AuditInv'
  BY <1>1, DispatchAudit, CheckAudit, ExecuteAudit, ConcludeAudit DEF Proceed
<1>2. CASE Restart
  BY <1>2, RestartAudit
<1>3. CASE \/ \E p \in Pipeline : WindowPasses(p)
           \/ OperatorResetBudget
           \/ OperatorSetKillSwitch
           \/ \E b \in Registered : Tick(b)
           \/ UNCHANGED vars
  <2>1. UNCHANGED <<cur, callers, trace, nextId, lost>>
    BY <1>3 DEF WindowPasses, OperatorResetBudget, OperatorSetKillSwitch, Tick, vars, ghost
  <2>2. QED
    BY <2>1, OtherAudit
<1>4. QED
  BY <1>1, <1>2, <1>3 DEF Next

\* Every dispatch ever started is exactly one of under way, recorded once, or lost
\* to a failed append or a restart; a callee is recorded before its caller, and a
\* refused callee refuses it (PipelineRunner::dispatch and TraceSink::append).
THEOREM AuditSafety == Spec => []AuditComplete
<1>1. TypeOK /\ TypeOK' /\ AuditInv /\ [Next]_vars => AuditInv'
  BY NextAudit
<1>2. Init => AuditInv
  BY InitAudit
<1>3. AuditInv => AuditComplete
  BY DEF AuditInv
<1>4. QED
  BY <1>1, <1>2, <1>3, TypeCorrect, PTL DEF Spec

-----------------------------------------------------------------------------
\* The dispatch of t has an id that no other under way has, and no record.
LEMMA OwnId ==
  ASSUME TypeOK, AuditInv, NEW t \in Task, cur[t].at # "idle"
  PROVE  /\ cur[t].id \in 1 .. (nextId - 1)
         /\ \A n \in DOMAIN trace : trace[n].id # cur[t].id
         /\ \A u \in Task : u # t /\ cur[u].at # "idle" => cur[u].id # cur[t].id
         /\ \A u \in Task : \A i \in 1 .. Len(callers[u]) : callers[u][i].id # cur[t].id
<1>1. \A u \in Task : callers[u] \in Seq(Frame) /\ Len(callers[u]) \in Nat
  BY DEF TypeOK
<1>2. ASSUME NEW u \in Task, cur[u].at # "idle"
      PROVE  /\ Len(callers[u]) + 1 \in Slot(cur, callers, u)
             /\ FrameAt(cur, callers, u, Len(callers[u]) + 1) = cur[u]
  BY <1>1, <1>2 DEF Slot, FrameAt
<1>3. ASSUME NEW u \in Task, NEW i \in 1 .. Len(callers[u])
      PROVE  i \in Slot(cur, callers, u) /\ FrameAt(cur, callers, u, i) = callers[u][i]
  <2>1. callers[u] # <<>>
    BY <1>1
  <2>2. cur[u].at # "idle"
    BY <2>1 DEF AuditInv, Coherent
  <2>3. QED
    BY <1>1, <2>2 DEF Slot, FrameAt
<1>4. cur[t].id \in InFlight
  BY DEF InFlight
<1>5. cur[t].id \in 1 .. (nextId - 1) /\ cur[t].id \notin Traced
  BY <1>4 DEF AuditInv, AuditComplete
<1>6. ASSUME NEW u \in Task, u # t, cur[u].at # "idle"
      PROVE  cur[u].id # cur[t].id
  BY <1>2, <1>6 DEF AuditInv, Unique
<1>7. ASSUME NEW u \in Task, NEW i \in 1 .. Len(callers[u])
      PROVE  callers[u][i].id # cur[t].id
  <2> SUFFICES ASSUME callers[u][i].id = cur[t].id PROVE FALSE
    OBVIOUS
  <2>1. u = t /\ i = Len(callers[t]) + 1
    BY <1>2, <1>3 DEF AuditInv, Unique
  <2>2. QED
    BY <1>1, <2>1
<1>8. QED
  BY <1>5, <1>6, <1>7 DEF Traced


\* What the chain of deltas is made of: a dispatch, the one before it, the delta
\* between them and the overlay it encodes.
DeltaLink(r, observed) == [id |-> r.id, from |-> r.from, delta |-> r.delta, observed |-> observed]

\* The links of the trace file, and of the records not written yet.
DeltaLinks(c, records) ==
  {DeltaLink(records[n], records[n].observed) : n \in DOMAIN records}
    \cup {DeltaLink(c[t], c[t].snap) : t \in {u \in Task : c[u].at = "trace"}}

\* Every link starts from a link, from a lost one or from nothing, no two from the same,
\* and each broker's next one starts where none has started yet.
Chained(L, gone, last) ==
  /\ \A l \in L :
       IF l.from = 0 THEN ApplyDelta(EmptyOverlay, l.delta) = l.observed
       ELSE l.from \in gone \/ \E m \in L : m.id = l.from /\ ApplyDelta(m.observed, l.delta) = l.observed
  /\ \A l, m \in L : l.from = m.from /\ l.from # 0 => l = m
  /\ \A b \in Broker :
       IF last[b].id = 0 THEN last[b].snap = EmptyOverlay
       ELSE last[b].id \in gone \/ \E m \in L : m.id = last[b].id /\ m.observed = last[b].snap
  /\ \A b \in Broker : \A l \in L : last[b].id # 0 => l.from # last[b].id
  /\ \A a, b \in Broker : last[a].id = last[b].id /\ last[a].id # 0 => a = b

ChainInv == Chained(DeltaLinks(cur, trace), lost, prior)

\* A link may go when its dispatch is lost, and the memory of the last ones with a restart.
LEMMA ChainShrinks ==
  ASSUME NEW L, NEW K, NEW gone, NEW more, NEW last, NEW next,
         Chained(L, gone, last), K \subseteq L, gone \subseteq more,
         \A l \in L : l \in K \/ l.id \in more,
         next = last \/ next = [b \in Broker |-> NoPrior]
  PROVE  Chained(K, more, next)
<1>1. \A b \in Broker : next[b] = last[b] \/ (next[b].id = 0 /\ next[b].snap = EmptyOverlay)
  BY DEF NoPrior
<1>2. ASSUME NEW l \in K
      PROVE  IF l.from = 0 THEN ApplyDelta(EmptyOverlay, l.delta) = l.observed
             ELSE l.from \in more \/ \E m \in K : m.id = l.from /\ ApplyDelta(m.observed, l.delta) = l.observed
  BY <1>2 DEF Chained
<1>3. \A l, m \in K : l.from = m.from /\ l.from # 0 => l = m
  BY DEF Chained
<1>4. ASSUME NEW b \in Broker
      PROVE  IF next[b].id = 0 THEN next[b].snap = EmptyOverlay
             ELSE next[b].id \in more \/ \E m \in K : m.id = next[b].id /\ m.observed = next[b].snap
  BY <1>1 DEF Chained
<1>5. \A b \in Broker : \A l \in K : next[b].id # 0 => l.from # next[b].id
  BY <1>1 DEF Chained
<1>6. \A a, b \in Broker : next[a].id = next[b].id /\ next[a].id # 0 => a = b
  BY <1>1 DEF Chained
<1>7. QED
  BY <1>2, <1>3, <1>4, <1>5, <1>6 DEF Chained

\* A frame that neither has a record to write nor gets one has no link.
LEMMA QuietLinks ==
  ASSUME TypeOK, NEW t \in Task, NEW g, Goto(t, g), cur[t].at # "trace", g.at # "trace", trace' = trace
  PROVE  DeltaLinks(cur', trace') = DeltaLinks(cur, trace)
<1>1. \A u \in Task : cur'[u] = IF u = t THEN g ELSE cur[u]
  BY DEF Goto, TypeOK
<1>2. QED
  BY <1>1 DEF DeltaLinks

LEMMA QuietChain ==
  ASSUME TypeOK, ChainInv, NEW t \in Task, NEW g, Goto(t, g), cur[t].at # "trace", g.at # "trace",
         UNCHANGED <<trace, prior, lost>>
  PROVE  ChainInv'
<1>1. DeltaLinks(cur', trace') = DeltaLinks(cur, trace)
  BY QuietLinks
<1>2. QED
  BY <1>1 DEF ChainInv

\* Where a frame goes before its delta is computed.
LEMMA AtElsewhere ==
  ASSUME NEW f \in Frame, NEW s \in Overlay, NEW steps, NEW why
  PROVE  /\ Refuse(f, why).at # "trace" /\ Refuse([f EXCEPT !.snap = s], why).at # "trace"
         /\ f.at # "trace" => /\ Resume(f).at # "trace"
                              /\ Resume([f EXCEPT !.todo = steps]).at # "trace"
                              /\ Admit([f EXCEPT !.snap = s]).at # "trace"
BY DEF Refuse, Resume, Admit, Frame

LEMMA NewFrameElsewhere ==
  ASSUME NEW b, NEW p, NEW parent
  PROVE  NewFrame(b, p, parent).at # "trace"
BY DEF NewFrame

LEMMA CheckChain ==
  ASSUME TypeOK, AuditInv, ChainInv, NEW t \in Task, Check(t)
  PROVE  ChainInv'
<1> DEFINE f == cur[t]
<1>1. f.at \in {"budget", "kill", "subgate", "ready", "record"}
  BY DEF Check, CheckBudget, CheckKillSwitch, CheckSubgate, ReadOverlay, RecordDispatch, At
<1>2. f \in Frame /\ overlay[f.broker] \in Overlay /\ f.at # "trace"
  BY <1>1, FrameFacts
<1>3. UNCHANGED <<trace, prior, lost>>
  BY DEF Check, CheckBudget, CheckKillSwitch, CheckSubgate, ReadOverlay, RecordDispatch, ghost
<1>4. /\ \A w : Refuse(f, w).at # "trace" /\ Refuse([f EXCEPT !.snap = overlay[f.broker]], w).at # "trace"
      /\ Resume(f).at # "trace" /\ Admit([f EXCEPT !.snap = overlay[f.broker]]).at # "trace"
  BY <1>2, AtElsewhere
<1>5. \A a : [f EXCEPT !.at = a].at = a
  BY <1>2 DEF Frame
<1>6. \E g : Goto(t, g) /\ g.at # "trace"
  <2>1. CASE CheckBudget(t)
    BY <1>4, <1>5, <2>1 DEF CheckBudget
  <2>2. CASE CheckKillSwitch(t)
    BY <1>4, <1>5, <2>2 DEF CheckKillSwitch
  <2>3. CASE CheckSubgate(t)
    BY <1>4, <1>5, <2>3 DEF CheckSubgate
  <2>4. CASE ReadOverlay(t)
    BY <1>4, <2>4 DEF ReadOverlay
  <2>5. CASE RecordDispatch(t)
    BY <1>4, <2>5 DEF RecordDispatch
  <2>6. QED
    BY <2>1, <2>2, <2>3, <2>4, <2>5 DEF Check
<1>7. QED
  BY <1>2, <1>3, <1>6, QuietChain

LEMMA ExecuteChain ==
  ASSUME TypeOK, AuditInv, ChainInv, NEW t \in Task, Execute(t)
  PROVE  ChainInv'
<1> DEFINE f == cur[t]
<1>1. f.at = "run"
  BY DEF Execute, RunLeaf, FailLeaf, CallSub, RunChoice, Kind, At
<1>2. f \in Frame /\ overlay[f.broker] \in Overlay /\ f.at # "trace"
  BY <1>1, FrameFacts
<1>3. UNCHANGED <<trace, prior, lost>>
  BY DEF Execute, RunLeaf, FailLeaf, CallSub, RunChoice, ghost
<1>4. /\ \A w : Refuse(f, w).at # "trace"
      /\ \A steps : Resume([f EXCEPT !.todo = steps]).at # "trace"
  BY <1>2, AtElsewhere
<1>5. \E g : Goto(t, g) /\ g.at # "trace"
  <2>1. CASE RunLeaf(t)
    BY <1>4, <2>1 DEF RunLeaf, Rest
  <2>2. CASE FailLeaf(t)
    BY <1>4, <2>2 DEF FailLeaf
  <2>3. CASE CallSub(t)
    BY <1>4, <2>3, NewFrameElsewhere DEF CallSub
  <2>4. CASE RunChoice(t)
    BY <1>4, <2>4 DEF RunChoice
  <2>5. QED
    BY <2>1, <2>2, <2>3, <2>4 DEF Execute
<1>6. QED
  BY <1>2, <1>3, <1>5, QuietChain

LEMMA DispatchChain ==
  ASSUME TypeOK, ChainInv, NEW t \in Task, Dispatch(t)
  PROVE  ChainInv'
<1>1. \E g : Goto(t, g) /\ g.at # "trace"
  BY NewFrameElsewhere DEF Dispatch
<1>2. cur[t].at # "trace" /\ UNCHANGED <<trace, prior, lost>>
  BY DEF Dispatch, At, ghost
<1>3. QED
  BY <1>1, <1>2, QuietChain

LEMMA ReadPostChain ==
  ASSUME TypeOK, ChainInv, NEW t \in Task, ReadPost(t)
  PROVE  ChainInv'
<1>1. cur[t] \in Frame /\ cur[t].at = "post"
  BY DEF TypeOK, ReadPost, At
<1>2. Goto(t, [cur[t] EXCEPT !.snap = overlay[cur[t].broker], !.at = "delta"])
  BY DEF ReadPost
<1>3. [cur[t] EXCEPT !.snap = overlay[cur[t].broker], !.at = "delta"].at = "delta"
  BY <1>1 DEF Frame
<1>4. UNCHANGED <<trace, prior, lost>>
  BY DEF ReadPost, ghost
<1>5. QED
  BY <1>1, <1>2, <1>3, <1>4, QuietChain

\* compute_snapshot_delta adds a link to where its broker's chain ends.
LEMMA ComputeDeltaChain ==
  ASSUME TypeOK, AuditInv, ChainInv, NEW t \in Task, ComputeDelta(t)
  PROVE  ChainInv'
<1> DEFINE f == cur[t]
           b == f.broker
           d == Compute(prior[b].snap, f.snap)
           L == DeltaLinks(cur, trace)
           new == [id |-> f.id, from |-> prior[b].id, delta |-> d, observed |-> f.snap]
<1>1. /\ f \in Frame /\ b \in Broker /\ f.at = "delta" /\ f.at # "idle"
      /\ f.id \in Nat /\ f.snap \in Overlay /\ prior[b].snap \in Overlay
  BY DEF TypeOK, ComputeDelta, At, Frame
<1>2. ApplyDelta(prior[b].snap, d) = f.snap
  BY <1>1, DeltaRoundTrip
<1>3. /\ cur' = [cur EXCEPT ![t] = [f EXCEPT !.from = prior[b].id, !.delta = d, !.at = "trace"]]
      /\ prior' = [prior EXCEPT ![b] = [id |-> f.id, snap |-> f.snap]]
      /\ trace' = trace /\ lost' = lost
  BY DEF ComputeDelta, PriorAfter, Goto, ghost
<1>4. DeltaLinks(cur', trace') = L \cup {new}
  <2> DEFINE g == [f EXCEPT !.from = prior[b].id, !.delta = d, !.at = "trace"]
  <2>1. DeltaLink(g, g.snap) = new /\ g.at = "trace"
    BY <1>1 DEF DeltaLink, Frame
  <2>2. \A u \in Task : cur'[u] = IF u = t THEN g ELSE cur[u]
    BY <1>3 DEF TypeOK
  <2> HIDE DEF g, new, d
  <2>3. {u \in Task : cur'[u].at = "trace"} = {u \in Task : cur[u].at = "trace"} \cup {t}
    BY <1>1, <2>1, <2>2
  <2>4. \A u \in Task : cur[u].at = "trace" => cur'[u] = cur[u]
    BY <1>1, <2>2
  <2>5. {DeltaLink(cur'[u], cur'[u].snap) : u \in {v \in Task : cur'[v].at = "trace"}}
          = {DeltaLink(cur[u], cur[u].snap) : u \in {v \in Task : cur[v].at = "trace"}} \cup {new}
    BY <2>1, <2>2, <2>3, <2>4
  <2>6. QED
    BY <1>3, <2>5 DEF DeltaLinks
<1>5. f.id # 0 /\ f.id \notin lost
  BY <1>1 DEF AuditInv, AuditComplete, InFlight
<1>6. \A m \in L : m.id # f.id
  <2>1. \A n \in DOMAIN trace : trace[n].id # f.id
    BY <1>1, OwnId
  <2>2. \A u \in Task : cur[u].at = "trace" => cur[u].id # f.id
    BY <1>1, OwnId
  <2>3. QED
    BY <2>1, <2>2 DEF DeltaLinks, DeltaLink
<1>7. Chained(L, lost, prior)
  BY DEF ChainInv
<1>8. \A a \in Broker : prior'[a] = IF a = b THEN [id |-> f.id, snap |-> f.snap] ELSE prior[a]
  BY <1>3 DEF TypeOK
<1>9. new.id = f.id /\ new.from = prior[b].id /\ new.delta = d /\ new.observed = f.snap
  OBVIOUS
<1> HIDE DEF L, new, d
<1> DEFINE K == L \cup {new}
<1>10. ASSUME NEW l \in K
       PROVE  IF l.from = 0 THEN ApplyDelta(EmptyOverlay, l.delta) = l.observed
              ELSE l.from \in lost \/ \E m \in K : m.id = l.from /\ ApplyDelta(m.observed, l.delta) = l.observed
  <2>1. CASE l \in L
    BY <1>7, <2>1 DEF Chained
  <2>2. CASE l = new
    <3>1. CASE prior[b].id = 0
      BY <1>1, <1>2, <1>7, <1>9, <2>2, <3>1 DEF Chained
    <3>2. CASE prior[b].id # 0
      <4>1. prior[b].id \in lost \/ \E m \in L : m.id = prior[b].id /\ m.observed = prior[b].snap
        BY <1>1, <1>7, <3>2 DEF Chained
      <4>2. QED
        BY <1>2, <1>9, <2>2, <3>2, <4>1
    <3>3. QED
      BY <3>1, <3>2
  <2>3. QED
    BY <2>1, <2>2
<1>11. \A l, m \in K : l.from = m.from /\ l.from # 0 => l = m
  BY <1>1, <1>7, <1>9 DEF Chained
<1>12. ASSUME NEW a \in Broker
       PROVE  IF prior'[a].id = 0 THEN prior'[a].snap = EmptyOverlay
              ELSE prior'[a].id \in lost \/ \E m \in K : m.id = prior'[a].id /\ m.observed = prior'[a].snap
  <2>1. CASE a = b
    <3>1. prior'[a].id = f.id /\ prior'[a].snap = f.snap
      BY <1>8, <2>1
    <3>2. new \in K
      OBVIOUS
    <3>3. QED
      BY <1>5, <1>9, <3>1, <3>2
  <2>2. CASE a # b
    BY <1>7, <1>8, <2>2 DEF Chained
  <2>3. QED
    BY <2>1, <2>2
<1>13. \A l \in K : l.from # f.id
  <2>1. \A l \in L : l.from = 0 \/ l.from \in lost \/ \E m \in L : m.id = l.from
    BY <1>7 DEF Chained
  <2>2. new.from = 0 \/ new.from \in lost \/ \E m \in L : m.id = new.from
    BY <1>1, <1>7, <1>9 DEF Chained
  <2>3. QED
    BY <1>5, <1>6, <2>1, <2>2
<1>14. \A a \in Broker : a # b => prior[a].id # f.id
  BY <1>5, <1>6, <1>7 DEF Chained
<1>15. ASSUME NEW a \in Broker, NEW l \in K, prior'[a].id # 0
       PROVE  l.from # prior'[a].id
  <2>1. CASE a = b
    BY <1>8, <1>13, <2>1
  <2>2. CASE a # b
    BY <1>1, <1>7, <1>8, <1>9, <1>15, <2>2 DEF Chained
  <2>3. QED
    BY <2>1, <2>2
<1>16. \A a, c \in Broker : prior'[a].id = prior'[c].id /\ prior'[a].id # 0 => a = c
  BY <1>7, <1>8, <1>14 DEF Chained
<1>17. Chained(K, lost, prior')
  <2> HIDE DEF K
  <2>1. QED
    BY <1>10, <1>11, <1>12, <1>15, <1>16 DEF Chained
<1>18. QED
  BY <1>3, <1>4, <1>17 DEF ChainInv

\* The record takes over its frame's link, or the link is lost.
LEMMA FinishChain ==
  ASSUME TypeOK, AuditInv, ChainInv, NEW t \in Task, Finish(t)
  PROVE  ChainInv'
<1> DEFINE f == cur[t]
           n == Len(callers[t])
           L == DeltaLinks(cur, trace)
           K == DeltaLinks(cur', trace')
<1>1. f \in Frame /\ f.at = "trace" /\ prior' = prior /\ trace \in Seq(Record)
  BY DEF TypeOK, Finish, At
<1>2. /\ \A u \in Task : u # t => cur'[u] = cur[u]
      /\ cur'[t].at # "trace"
  <2>1. CASE n = 0
    BY <2>1 DEF Finish, Goto, Idle, TypeOK
  <2>2. CASE n > 0
    <3>1. callers[t][n] \in Frame /\ callers[t][n].at = "run"
      BY <2>2 DEF TypeOK, AuditInv, Coherent
    <3>2. Returned(callers[t][n], f.why).at # "trace"
      BY <3>1 DEF Returned, Resume, Refuse, Frame
    <3>3. cur' = [cur EXCEPT ![t] = Returned(callers[t][n], f.why)]
      BY <2>2 DEF Finish, Goto
    <3>4. QED
      BY <3>2, <3>3 DEF TypeOK
  <2>3. QED
    BY <2>1, <2>2 DEF Finish
<1>3. {u \in Task : cur'[u].at = "trace"} = {u \in Task : cur[u].at = "trace"} \ {t}
  BY <1>2
<1> DEFINE rest == {DeltaLink(cur[u], cur[u].snap) : u \in {v \in Task : cur[v].at = "trace"} \ {t}}
           old == {DeltaLink(trace[i], trace[i].observed) : i \in DOMAIN trace}
<1>4. L = old \cup rest \cup {DeltaLink(f, f.snap)}
  BY <1>1 DEF DeltaLinks
<1>5. K = {DeltaLink(trace'[i], trace'[i].observed) : i \in DOMAIN trace'} \cup rest
  BY <1>2, <1>3 DEF DeltaLinks
<1>6. CASE trace' = Append(trace, RecordOf(f)) /\ lost' = lost
  <2> DEFINE N == Len(trace) + 1
  <2>1. DOMAIN trace' = DOMAIN trace \cup {N} /\ trace'[N] = RecordOf(f)
        /\ \A i \in DOMAIN trace : trace'[i] = trace[i]
    BY <1>1, <1>6
  <2>2. DeltaLink(RecordOf(f), RecordOf(f).observed) = DeltaLink(f, f.snap)
    BY DEF DeltaLink, RecordOf
  <2> HIDE DEF N
  <2>3. {DeltaLink(trace'[i], trace'[i].observed) : i \in DOMAIN trace'} = old \cup {DeltaLink(f, f.snap)}
    BY <2>1, <2>2
  <2>4. K = L
    BY <1>4, <1>5, <2>3
  <2>5. QED
    BY <1>1, <1>6, <2>4 DEF ChainInv
<1>7. CASE trace' = trace /\ lost' = lost \cup {f.id}
  <2>1. K = old \cup rest
    BY <1>5, <1>7
  <2>2. K \subseteq L /\ \A l \in L : l \in K \/ l = DeltaLink(f, f.snap)
    BY <1>4, <2>1
  <2>3. \A l \in L : l \in K \/ l.id \in lost'
    BY <1>7, <2>2 DEF DeltaLink
  <2>4. Chained(L, lost, prior) /\ lost \subseteq lost'
    BY <1>7 DEF ChainInv
  <2> HIDE DEF L, K
  <2>5. Chained(K, lost', prior')
    BY <1>1, <2>2, <2>3, <2>4, ChainShrinks
  <2>6. QED
    BY <2>5 DEF K, ChainInv
<1>8. QED
  BY <1>6, <1>7 DEF Finish, AppendTrace

\* A restart forgets the frames, whose dispatches are lost, and every chain's end.
LEMMA RestartChain ==
  ASSUME ChainInv, Restart
  PROVE  ChainInv'
<1> DEFINE L == DeltaLinks(cur, trace)
           K == DeltaLinks(cur', trace')
<1>1. /\ \A t \in Task : cur'[t].at # "trace"
      /\ trace' = trace /\ lost' = lost \cup InFlight /\ prior' = [b \in Broker |-> NoPrior]
  BY DEF Restart, Idle
<1>2. K = {DeltaLink(trace[n], trace[n].observed) : n \in DOMAIN trace}
  BY <1>1 DEF DeltaLinks
<1>3. K \subseteq L /\ \A l \in L : l \in K \/ \E t \in Task : cur[t].at = "trace" /\ l = DeltaLink(cur[t], cur[t].snap)
  BY <1>2 DEF DeltaLinks
<1>4. \A t \in Task : cur[t].at = "trace" => DeltaLink(cur[t], cur[t].snap).id \in lost'
  BY <1>1 DEF DeltaLink, InFlight
<1>5. \A l \in L : l \in K \/ l.id \in lost'
  BY <1>3, <1>4
<1>6. Chained(L, lost, prior) /\ lost \subseteq lost'
  BY <1>1 DEF ChainInv
<1> HIDE DEF L, K
<1>7. Chained(K, lost', prior')
  BY <1>1, <1>3, <1>5, <1>6, ChainShrinks
<1>8. QED
  BY <1>7 DEF K, ChainInv

LEMMA NextChain ==
  ASSUME TypeOK, AuditInv, ChainInv, [Next]_vars
  PROVE  ChainInv'
<1>1. ASSUME NEW t \in Task, Dispatch(t) \/ Proceed(t)
      PROVE  ChainInv'
  BY <1>1, DispatchChain, CheckChain, ExecuteChain, ReadPostChain, ComputeDeltaChain, FinishChain
     DEF Proceed, Conclude
<1>2. CASE Restart
  BY <1>2, RestartChain
<1>3. CASE \/ \E p \in Pipeline : WindowPasses(p)
           \/ OperatorResetBudget
           \/ OperatorSetKillSwitch
           \/ \E b \in Registered : Tick(b)
           \/ UNCHANGED vars
  <2>1. UNCHANGED <<cur, trace, prior, lost>>
    BY <1>3 DEF WindowPasses, OperatorResetBudget, OperatorSetKillSwitch, Tick, vars, ghost
  <2>2. QED
    BY <2>1 DEF ChainInv
<1>4. QED
  BY <1>1, <1>2, <1>3 DEF Next

LEMMA InitChain ==
  ASSUME Init
  PROVE  ChainInv
<1>1. DeltaLinks(cur, trace) = {}
  <2>1. DOMAIN trace = {} /\ \A t \in Task : cur[t].at # "trace"
    BY DEF Init, Idle
  <2>2. QED
    BY <2>1 DEF DeltaLinks
<1>2. \A b \in Broker : prior[b].id = 0 /\ prior[b].snap = EmptyOverlay
  BY DEF Init, NoPrior
<1>3. QED
  BY <1>1, <1>2 DEF ChainInv, Chained

LEMMA ChainSound ==
  ASSUME TypeOK, AuditInv, ChainInv
  PROVE  DeltaChainSound
<1> DEFINE L == DeltaLinks(cur, trace)
<1>1. Chained(L, lost, prior)
  BY DEF ChainInv
<1>2. ASSUME NEW n \in DOMAIN trace
      PROVE  /\ DeltaLink(trace[n], trace[n].observed) \in L
             /\ DeltaLink(trace[n], trace[n].observed).id = trace[n].id
             /\ DeltaLink(trace[n], trace[n].observed).from = trace[n].from
             /\ DeltaLink(trace[n], trace[n].observed).delta = trace[n].delta
             /\ DeltaLink(trace[n], trace[n].observed).observed = trace[n].observed
  BY DEF DeltaLinks, DeltaLink
<1>3. ASSUME NEW m \in L
      PROVE  m.observed \in Overlay /\ ObservedBy(m.id, m.observed)
  <2>1. CASE \E n \in DOMAIN trace : m = DeltaLink(trace[n], trace[n].observed)
    <3>1. PICK n \in DOMAIN trace : m = DeltaLink(trace[n], trace[n].observed)
      BY <2>1
    <3>2. trace[n] \in Record
      BY DEF TypeOK
    <3>3. QED
      BY <3>1, <3>2 DEF DeltaLink, ObservedBy, Record
  <2>2. CASE \E t \in Task : cur[t].at = "trace" /\ m = DeltaLink(cur[t], cur[t].snap)
    <3>1. PICK t \in Task : cur[t].at = "trace" /\ m = DeltaLink(cur[t], cur[t].snap)
      BY <2>2
    <3>2. cur[t] \in Frame
      BY DEF TypeOK
    <3>3. QED
      BY <3>1, <3>2 DEF DeltaLink, ObservedBy, Frame
  <2>3. QED
    BY <2>1, <2>2 DEF DeltaLinks
<1> HIDE DEF L
<1>4. ASSUME NEW n \in DOMAIN trace
      PROVE  IF trace[n].from = 0 THEN ApplyDelta(EmptyOverlay, trace[n].delta) = trace[n].observed
             ELSE \/ trace[n].from \in lost
                  \/ \E o \in Overlay : ObservedBy(trace[n].from, o)
                                        /\ ApplyDelta(o, trace[n].delta) = trace[n].observed
  <2>1. CASE trace[n].from = 0
    BY <1>1, <1>2, <2>1 DEF Chained
  <2>2. CASE trace[n].from # 0 /\ trace[n].from \notin lost
    <3>1. PICK m \in L : m.id = trace[n].from /\ ApplyDelta(m.observed, trace[n].delta) = trace[n].observed
      BY <1>1, <1>2, <2>2 DEF Chained
    <3>2. QED
      BY <1>3, <2>2, <3>1
  <2>3. QED
    BY <2>1, <2>2
<1>5. ASSUME NEW m \in DOMAIN trace, NEW n \in DOMAIN trace,
             trace[m].from = trace[n].from, trace[m].from # 0
      PROVE  m = n
  <2>1. DeltaLink(trace[m], trace[m].observed) = DeltaLink(trace[n], trace[n].observed)
    BY <1>1, <1>2, <1>5 DEF Chained
  <2>2. trace[m].id = trace[n].id
    BY <1>2, <2>1
  <2>3. QED
    BY <2>2 DEF AuditInv, AuditComplete
<1>6. QED
  BY <1>4, <1>5 DEF DeltaChainSound

\* The chain of deltas in the trace file recovers what every dispatch observed, up to
\* the records that were lost, and never forks (compute_snapshot_delta in runner.rs, and
\* the recovery promised in trace.rs).
THEOREM ChainSafety == Spec => []DeltaChainSound
<1>1. Init => AuditInv /\ ChainInv
  BY InitAudit, InitChain
<1>2. TypeOK /\ TypeOK' /\ AuditInv /\ ChainInv /\ [Next]_vars => AuditInv' /\ ChainInv'
  BY NextAudit, NextChain
<1>3. TypeOK /\ AuditInv /\ ChainInv => DeltaChainSound
  BY ChainSound
<1>4. QED
  BY <1>1, <1>2, <1>3, TypeCorrect, PTL DEF Spec

------------------------------------------------------------------------------
(***************************************************************************)
(* Proofs about what the trust budget is spent on in PipelineRunner: a     *)
(* dispatch is charged when it is surfaced and was admitted, and at no     *)
(* other time, whatever it ends with.                                      *)
(*                                                                         *)
(* A charge is paid once, between the checks and the first step, so that   *)
(* where a frame stands tells whether its dispatch is charged.  That the   *)
(* dispatches under way have distinct ids, and others than the recorded    *)
(* ones (AuditInv), keeps a charge from being another dispatch's.          *)
(***************************************************************************)

Unpaid == {"budget", "kill", "subgate", "ready", "record"}

\* The set of charged ids and the frame agree.
Agrees(f, ids) ==
  /\ f.id \in ids <=> (Surfaced(f.pl) /\ f.at \notin Unpaid /\ f.why \notin Doomed)
  /\ f.at = "record" => Surfaced(f.pl)

CurAgree(c, ids) == \A t \in Task : c[t].at # "idle" => Agrees(c[t], ids)

CallersAgree(s, ids) == \A t \in Task : \A i \in 1 .. Len(s[t]) : Agrees(s[t][i], ids)

ChargedBefore == \A k \in charged : k < nextId

ChargeInv ==
  /\ ChargedBefore
  /\ CurAgree(cur, charged)
  /\ CallersAgree(callers, charged)
  /\ ChargeMatchesOutcome

-----------------------------------------------------------------------------
\* Where the steps of a dispatch take its frame.
LEMMA RefuseEarlyAgrees ==
  ASSUME NEW f \in Frame, NEW ids, Agrees(f, ids), f.at \in Unpaid, NEW s \in Overlay, NEW why \in Doomed
  PROVE  Agrees(Refuse(f, why), ids) /\ Agrees(Refuse([f EXCEPT !.snap = s], why), ids)
BY DEF Agrees, Refuse, Doomed, Unpaid, Frame

LEMMA CheckedAgrees ==
  ASSUME NEW f \in Frame, NEW ids, Agrees(f, ids), f.at \in Unpaid, NEW a \in {"kill", "subgate", "ready"}
  PROVE  Agrees([f EXCEPT !.at = a], ids)
BY DEF Agrees, Unpaid, Frame

LEMMA ResumeAgrees ==
  ASSUME NEW f \in Frame, NEW ids, f.id \in ids <=> Surfaced(f.pl), f.why = "none", NEW steps, NEW s \in Overlay
  PROVE  /\ Agrees(Resume(f), ids)
         /\ Agrees(Resume([f EXCEPT !.todo = steps]), ids)
         /\ Agrees(Resume([f EXCEPT !.snap = s]), ids)
BY DEF Agrees, Resume, Unpaid, Doomed, Frame

LEMMA AdmitAgrees ==
  ASSUME NEW f \in Frame, NEW ids, Agrees(f, ids), f.at = "ready", f.why = "none", NEW s \in Overlay
  PROVE  Agrees(Admit([f EXCEPT !.snap = s]), ids)
<1>1. CASE Surfaced(f.pl)
  BY <1>1 DEF Agrees, Admit, Unpaid, Frame
<1>2. CASE ~Surfaced(f.pl)
  <2>1. Agrees(Resume([f EXCEPT !.snap = s]), ids)
    BY <1>2, ResumeAgrees DEF Agrees
  <2>2. [f EXCEPT !.snap = s].pl = f.pl
    BY DEF Frame
  <2>3. QED
    BY <1>2, <2>1, <2>2 DEF Admit
<1>3. QED
  BY <1>1, <1>2

LEMMA RefuseLateAgrees ==
  ASSUME NEW f \in Frame, NEW ids, f.id \in ids <=> Surfaced(f.pl), NEW why \in {"leaf", "sub"}
  PROVE  Agrees(Refuse(f, why), ids)
BY DEF Agrees, Refuse, Unpaid, Doomed, Frame

LEMMA RunningPaid ==
  ASSUME NEW f \in Frame, NEW ids, Agrees(f, ids), f.at = "run", f.why = "none"
  PROVE  f.id \in ids <=> Surfaced(f.pl)
BY DEF Agrees, Unpaid, Doomed

LEMMA NewFrameAgrees ==
  ASSUME NEW b, NEW p, NEW parent, NEW ids, nextId \notin ids
  PROVE  Agrees(NewFrame(b, p, parent), ids)
BY DEF Agrees, NewFrame, Unpaid, Doomed, Surfaced

-----------------------------------------------------------------------------
\* The task's frame goes on and nothing is charged.
LEMMA MoveCharge ==
  ASSUME TypeOK, ChargeInv, NEW t \in Task, NEW g, Goto(t, g), Agrees(g, charged),
         UNCHANGED <<callers, trace, nextId, charged>>
  PROVE  ChargeInv'
<1>1. CurAgree(cur', charged)
  BY DEF ChargeInv, CurAgree, Goto, TypeOK
<1>2. ChargedBefore' /\ ChargeMatchesOutcome'
  BY DEF ChargeInv, ChargedBefore, ChargeMatchesOutcome
<1>3. QED
  BY <1>1, <1>2 DEF ChargeInv

LEMMA CheckCharge ==
  ASSUME TypeOK, AuditInv, ChargeInv, NEW t \in Task,
         CheckBudget(t) \/ CheckKillSwitch(t) \/ CheckSubgate(t) \/ ReadOverlay(t)
  PROVE  ChargeInv'
<1> DEFINE f == cur[t]
<1>1. f.at \in {"budget", "kill", "subgate", "ready"}
  BY DEF CheckBudget, CheckKillSwitch, CheckSubgate, ReadOverlay, At
<1>2. f \in Frame /\ overlay[f.broker] \in Overlay /\ f.why = "none" /\ f.at # "idle" /\ f.at \in Unpaid
  BY <1>1, FrameFacts DEF Ending, Unpaid
<1>3. Agrees(f, charged)
  BY <1>2 DEF ChargeInv, CurAgree
<1>4. UNCHANGED <<callers, trace, nextId, charged>>
  BY DEF CheckBudget, CheckKillSwitch, CheckSubgate, ReadOverlay, ghost
<1>5. \A w \in Doomed : Agrees(Refuse(f, w), charged) /\ Agrees(Refuse([f EXCEPT !.snap = overlay[f.broker]], w), charged)
  BY <1>2, <1>3, RefuseEarlyAgrees
<1>6. \A a \in {"kill", "subgate", "ready"} : Agrees([f EXCEPT !.at = a], charged)
  BY <1>2, <1>3, CheckedAgrees
<1>7. {"budget", "kill_switch", "subgate", "param", "precondition"} \subseteq Doomed
  BY DEF Doomed
<1>8. \E g : Goto(t, g) /\ Agrees(g, charged)
  <2>1. CASE CheckBudget(t)
    BY <1>5, <1>6, <1>7, <2>1, Zenon DEF CheckBudget
  <2>2. CASE CheckKillSwitch(t)
    BY <1>5, <1>6, <1>7, <2>2, Zenon DEF CheckKillSwitch
  <2>3. CASE CheckSubgate(t)
    BY <1>5, <1>6, <1>7, <2>3, Zenon DEF CheckSubgate
  <2>4. CASE ReadOverlay(t)
    <3>1. Agrees(Admit([f EXCEPT !.snap = overlay[f.broker]]), charged)
      BY <1>2, <1>3, <2>4, AdmitAgrees DEF ReadOverlay, At
    <3>2. QED
      BY <1>5, <1>7, <2>4, <3>1, Zenon DEF ReadOverlay
  <2>5. QED
    BY <2>1, <2>2, <2>3, <2>4
<1>9. PICK g : Goto(t, g) /\ Agrees(g, charged)
  BY <1>8
<1>10. QED
  BY <1>4, <1>9, MoveCharge

LEMMA RecordCharge ==
  ASSUME TypeOK, AuditInv, ChargeInv, NEW t \in Task, RecordDispatch(t)
  PROVE  ChargeInv'
<1> DEFINE f == cur[t]
<1>1. /\ f.at = "record" /\ cur' = [cur EXCEPT ![t] = Resume(f)] /\ charged' = charged \cup {f.id}
      /\ UNCHANGED <<callers, trace, nextId>>
  BY DEF RecordDispatch, At, Goto
<1>2. f \in Frame /\ f.why = "none" /\ f.at # "idle"
  BY <1>1, FrameFacts DEF Ending
<1>3. Surfaced(f.pl)
  BY <1>1, <1>2 DEF ChargeInv, CurAgree, Agrees
<1>4. Agrees(Resume(f), charged')
  <2>1. f.id \in charged' <=> Surfaced(f.pl)
    BY <1>1, <1>3
  <2>2. EmptyOverlay \in Overlay
    BY EmptyOverlayType
  <2>3. QED
    BY <1>2, <2>1, <2>2, ResumeAgrees
<1>5. ASSUME NEW h, Agrees(h, charged), h.id # f.id
      PROVE  Agrees(h, charged')
  BY <1>1, <1>5 DEF Agrees
<1>6. CurAgree(cur', charged')
  <2> SUFFICES ASSUME NEW u \in Task, cur'[u].at # "idle" PROVE Agrees(cur'[u], charged')
    BY DEF CurAgree
  <2>1. CASE u = t
    BY <1>1, <1>4, <2>1 DEF TypeOK
  <2>2. CASE u # t
    <3>1. cur'[u] = cur[u]
      BY <1>1, <2>2 DEF TypeOK
    <3>2. Agrees(cur[u], charged) /\ cur[u].id # f.id
      BY <1>2, <2>2, <3>1, OwnId DEF ChargeInv, CurAgree
    <3>3. QED
      BY <1>5, <3>1, <3>2
  <2>3. QED
    BY <2>1, <2>2
<1>7. CallersAgree(callers', charged')
  <2> SUFFICES ASSUME NEW u \in Task, NEW i \in 1 .. Len(callers[u]) PROVE Agrees(callers[u][i], charged')
    BY <1>1 DEF CallersAgree
  <2>1. Agrees(callers[u][i], charged) /\ callers[u][i].id # f.id
    BY <1>2, OwnId DEF ChargeInv, CallersAgree
  <2>2. QED
    BY <1>5, <2>1
<1>8. \A n \in DOMAIN trace : trace[n].id # f.id
  BY <1>2, OwnId
<1>9. ChargeMatchesOutcome'
  BY <1>1, <1>8 DEF ChargeInv, ChargeMatchesOutcome
<1>10. f.id < nextId
  <2>1. f.id \in 1 .. (nextId - 1) /\ nextId \in Nat
    BY <1>2, OwnId DEF TypeOK
  <2>2. QED
    BY <2>1
<1>11. ChargedBefore'
  BY <1>1, <1>10 DEF ChargeInv, ChargedBefore
<1>12. QED
  BY <1>6, <1>7, <1>9, <1>11 DEF ChargeInv

-----------------------------------------------------------------------------
LEMMA FreshId ==
  ASSUME TypeOK, ChargeInv
  PROVE  nextId \notin charged /\ nextId \in Nat
BY DEF ChargeInv, ChargedBefore, TypeOK

LEMMA DispatchCharge ==
  ASSUME TypeOK, ChargeInv, NEW t \in Task, Dispatch(t)
  PROVE  ChargeInv'
<1>1. PICK q \in Request : cur' = [cur EXCEPT ![t] = NewFrame(q[1], q[2], 0)]
  BY DEF Dispatch, Goto
<1>2. Agrees(NewFrame(q[1], q[2], 0), charged)
  BY FreshId, NewFrameAgrees
<1>3. nextId' = nextId + 1 /\ UNCHANGED <<callers, trace, charged>>
  BY DEF Dispatch, ghost
<1>4. CurAgree(cur', charged)
  BY <1>1, <1>2 DEF ChargeInv, CurAgree, TypeOK
<1>5. CallersAgree(callers', charged) /\ ChargeMatchesOutcome'
  BY <1>3 DEF ChargeInv, CallersAgree, ChargeMatchesOutcome
<1>6. ChargedBefore'
  BY <1>3, FreshId DEF ChargeInv, ChargedBefore, TypeOK
<1>7. QED
  BY <1>3, <1>4, <1>5, <1>6 DEF ChargeInv

\* A nested dispatch begins, and its caller waits with what it paid.
LEMMA CallCharge ==
  ASSUME TypeOK, ChargeInv, NEW t \in Task, NEW b, NEW p,
         cur[t].at = "run", cur[t].why = "none",
         callers' = [callers EXCEPT ![t] = Append(@, Rest(cur[t]))],
         cur' = [cur EXCEPT ![t] = NewFrame(b, p, cur[t].id)],
         nextId' = nextId + 1, UNCHANGED <<trace, charged>>
  PROVE  ChargeInv'
<1>1. /\ \A u \in Task : callers[u] \in Seq(Frame) /\ Len(callers[u]) \in Nat
      /\ cur[t] \in Frame
      /\ \A u \in Task : callers'[u] = IF u = t THEN Append(callers[t], Rest(cur[t])) ELSE callers[u]
  BY DEF TypeOK
<1>2. Agrees(NewFrame(b, p, cur[t].id), charged)
  BY FreshId, NewFrameAgrees
<1>3. CurAgree(cur', charged)
  BY <1>2 DEF ChargeInv, CurAgree, TypeOK
<1>4. Agrees(Rest(cur[t]), charged)
  BY <1>1 DEF ChargeInv, CurAgree, Agrees, Rest, Frame
<1>5. CallersAgree(callers', charged)
  <2> SUFFICES ASSUME NEW u \in Task, NEW i \in 1 .. Len(callers'[u]) PROVE Agrees(callers'[u][i], charged)
    BY DEF CallersAgree
  <2>1. CASE u # t
    BY <1>1, <2>1 DEF ChargeInv, CallersAgree
  <2>2. CASE u = t /\ i = Len(callers[t]) + 1
    <3>1. callers'[t][i] = Rest(cur[t])
      BY <1>1, <2>2
    <3>2. QED
      BY <1>4, <2>2, <3>1
  <2>3. CASE u = t /\ i # Len(callers[t]) + 1
    <3>1. i \in 1 .. Len(callers[t]) /\ callers'[t][i] = callers[t][i]
      BY <1>1, <2>3
    <3>2. QED
      BY <2>3, <3>1 DEF ChargeInv, CallersAgree
  <2>4. QED
    BY <2>1, <2>2, <2>3
<1>6. ChargeMatchesOutcome'
  BY DEF ChargeInv, ChargeMatchesOutcome
<1>7. ChargedBefore'
  BY FreshId DEF ChargeInv, ChargedBefore, TypeOK
<1>8. QED
  BY <1>3, <1>5, <1>6, <1>7 DEF ChargeInv

LEMMA ExecuteCharge ==
  ASSUME TypeOK, AuditInv, ChargeInv, NEW t \in Task, Execute(t)
  PROVE  ChargeInv'
<1> DEFINE f == cur[t]
<1>1. f.at = "run"
  BY DEF Execute, RunLeaf, FailLeaf, CallSub, RunChoice, Kind, At
<1>2. f \in Frame /\ overlay[f.broker] \in Overlay /\ f.why = "none"
  BY <1>1, FrameFacts DEF Ending
<1>3. f.id \in charged <=> Surfaced(f.pl)
  BY <1>1, <1>2, RunningPaid DEF ChargeInv, CurAgree
<1>4. Agrees(Refuse(f, "leaf"), charged) /\ Agrees(Refuse(f, "sub"), charged)
  BY <1>2, <1>3, RefuseLateAgrees
<1>5. \A steps : Agrees(Resume([f EXCEPT !.todo = steps]), charged)
  BY <1>2, <1>3, ResumeAgrees
<1>6. CASE RunLeaf(t)
  <2>1. UNCHANGED <<callers, trace, nextId, charged>> /\ Goto(t, Resume(Rest(f)))
    BY <1>6 DEF RunLeaf
  <2>2. Agrees(Resume(Rest(f)), charged)
    BY <1>5 DEF Rest
  <2>3. QED
    BY <2>1, <2>2, MoveCharge
<1>7. CASE FailLeaf(t)
  <2>1. UNCHANGED <<callers, trace, nextId, charged>> /\ Goto(t, Refuse(f, "leaf"))
    BY <1>7 DEF FailLeaf, ghost
  <2>2. QED
    BY <1>4, <2>1, MoveCharge
<1>8. CASE CallSub(t)
  <2> DEFINE callee == Head(f.todo).callee
             b == BrokerOf[callee]
  <2>1. UNCHANGED <<trace, charged>>
    BY <1>8 DEF CallSub, ghost
  <2>2. CASE /\ callers' = [callers EXCEPT ![t] = Append(@, Rest(f))]
             /\ Goto(t, NewFrame(b, callee, f.id))
             /\ nextId' = nextId + 1
    <3>1. cur' = [cur EXCEPT ![t] = NewFrame(b, callee, cur[t].id)]
      BY <2>2 DEF Goto
    <3>2. QED
      BY <1>1, <1>2, <2>1, <2>2, <3>1, CallCharge
  <2>3. CASE Goto(t, Refuse(f, "sub")) /\ UNCHANGED <<callers, nextId>>
    BY <1>4, <2>1, <2>3, MoveCharge
  <2>4. QED
    BY <1>8, <2>2, <2>3 DEF CallSub
<1>9. CASE RunChoice(t)
  <2>1. UNCHANGED <<callers, trace, nextId, charged>>
    BY <1>9 DEF RunChoice, ghost
  <2>2. PICK steps : Goto(t, Resume([f EXCEPT !.todo = steps]))
    BY <1>9 DEF RunChoice
  <2>3. QED
    BY <1>5, <2>1, <2>2, MoveCharge
<1>10. QED
  BY <1>6, <1>7, <1>8, <1>9 DEF Execute

\* A dispatch ends: its record says what its frame did, and its caller goes on.
LEMMA FinishCharge ==
  ASSUME TypeOK, AuditInv, ChargeInv, NEW t \in Task, Finish(t)
  PROVE  ChargeInv'
<1> DEFINE f == cur[t]
           n == Len(callers[t])
<1>1. /\ callers[t] \in Seq(Frame) /\ n \in Nat /\ f.at = "trace" /\ trace \in Seq(Record)
      /\ nextId' = nextId /\ charged' = charged /\ Idle.at = "idle"
  BY DEF Finish, TypeOK, At, Idle
<1>2. /\ f.id \in charged <=> (Surfaced(f.pl) /\ f.why \notin Doomed)
  BY <1>1 DEF ChargeInv, CurAgree, Agrees, Unpaid
<1>3. ChargeMatchesOutcome'
  <2>1. CASE trace' = trace
    BY <1>1, <2>1 DEF ChargeInv, ChargeMatchesOutcome
  <2>2. CASE trace' = Append(trace, RecordOf(f))
    <3>1. /\ DOMAIN trace' = 1 .. Len(trace) + 1 /\ DOMAIN trace = 1 .. Len(trace) /\ Len(trace) \in Nat
          /\ \A m \in 1 .. Len(trace) : trace'[m] = trace[m]
          /\ trace'[Len(trace) + 1] = RecordOf(f)
      BY <1>1, <2>2
    <3>2. /\ RecordOf(f).id = f.id /\ RecordOf(f).pl = f.pl /\ RecordOf(f).why = f.why
          /\ "ok" \notin Doomed
      BY DEF RecordOf, Doomed
    <3> SUFFICES ASSUME NEW m \in DOMAIN trace'
                 PROVE  /\ trace'[m].why \in Doomed => trace'[m].id \notin charged
                        /\ Surfaced(trace'[m].pl) /\ trace'[m].why = "ok" => trace'[m].id \in charged
                        /\ ~Surfaced(trace'[m].pl) => trace'[m].id \notin charged
      BY <1>1 DEF ChargeMatchesOutcome
    <3>3. CASE m = Len(trace) + 1
      BY <1>2, <3>1, <3>2, <3>3
    <3>4. CASE m # Len(trace) + 1
      <4>1. m \in DOMAIN trace /\ trace'[m] = trace[m]
        BY <3>1, <3>4
      <4>2. QED
        BY <4>1 DEF ChargeInv, ChargeMatchesOutcome
    <3>5. QED
      BY <3>3, <3>4
  <2>3. QED
    BY <2>1, <2>2 DEF Finish, AppendTrace
<1>4. CurAgree(cur', charged) /\ CallersAgree(callers', charged)
  <2>1. CASE n = 0
    <3>1. cur' = [cur EXCEPT ![t] = Idle] /\ callers' = callers
      BY <1>1, <2>1 DEF Finish, Goto
    <3>2. QED
      BY <1>1, <3>1 DEF ChargeInv, CurAgree, TypeOK
  <2>2. CASE n > 0
    <3> DEFINE h == callers[t][n]
    <3>1. /\ cur' = [cur EXCEPT ![t] = Returned(h, f.why)]
          /\ callers' = [callers EXCEPT ![t] = SubSeq(callers[t], 1, n - 1)]
      BY <1>1, <2>2 DEF Finish, Goto
    <3>2. n \in 1 .. n /\ h \in Frame
      BY <1>1, <2>2
    <3>3. h.at = "run" /\ h.why = "none" /\ Agrees(h, charged)
      BY <3>2 DEF AuditInv, Coherent, ChargeInv, CallersAgree
    <3>4. h.id \in charged <=> Surfaced(h.pl)
      BY <3>2, <3>3, RunningPaid
    <3>5. Agrees(Returned(h, f.why), charged)
      <4>1. Agrees(Resume(h), charged)
        BY <3>2, <3>3, <3>4, ResumeAgrees, EmptyOverlayType
      <4>2. Agrees(Refuse(h, "sub"), charged)
        BY <3>2, <3>4, RefuseLateAgrees
      <4>3. QED
        BY <4>1, <4>2 DEF Returned
    <3> HIDE DEF h
    <3>6. CurAgree(cur', charged)
      BY <3>1, <3>5 DEF ChargeInv, CurAgree, TypeOK
    <3>7. CallersAgree(callers', charged)
      <4> SUFFICES ASSUME NEW u \in Task, NEW i \in 1 .. Len(callers'[u]) PROVE Agrees(callers'[u][i], charged)
        BY DEF CallersAgree
      <4>1. CASE u # t
        <5>1. callers'[u] = callers[u]
          BY <3>1, <4>1 DEF TypeOK
        <5>2. QED
          BY <5>1 DEF ChargeInv, CallersAgree
      <4>2. CASE u = t
        <5>1. callers'[t] = SubSeq(callers[t], 1, n - 1)
          BY <3>1 DEF TypeOK
        <5>2. i \in 1 .. n /\ callers'[t][i] = callers[t][i]
          BY <1>1, <2>2, <4>2, <5>1
        <5>3. QED
          BY <4>2, <5>2 DEF ChargeInv, CallersAgree
      <4>3. QED
        BY <4>1, <4>2
    <3>8. QED
      BY <3>6, <3>7
  <2>3. QED
    BY <1>1, <2>1, <2>2
<1>5. QED
  BY <1>1, <1>3, <1>4 DEF ChargeInv, ChargedBefore

LEMMA ConcludeCharge ==
  ASSUME TypeOK, AuditInv, ChargeInv, NEW t \in Task, ReadPost(t) \/ ComputeDelta(t)
  PROVE  ChargeInv'
<1> DEFINE f == cur[t]
<1>1. f.at \in {"post", "delta"} /\ UNCHANGED <<callers, trace, nextId, charged>>
  BY DEF ReadPost, ComputeDelta, At, ghost
<1>2. f \in Frame /\ f.at # "idle"
  BY <1>1 DEF TypeOK
<1>3. Agrees(f, charged)
  BY <1>2 DEF ChargeInv, CurAgree
<1>4. \A o : Agrees([f EXCEPT !.snap = o, !.at = "delta"], charged)
  BY <1>1, <1>2, <1>3 DEF Agrees, Unpaid, Frame
<1>5. \A k, d : Agrees([f EXCEPT !.from = k, !.delta = d, !.at = "trace"], charged)
  BY <1>1, <1>2, <1>3 DEF Agrees, Unpaid, Frame
<1>6. CASE ReadPost(t)
  <2>1. Goto(t, [f EXCEPT !.snap = overlay[f.broker], !.at = "delta"])
    BY <1>6 DEF ReadPost
  <2>2. QED
    BY <1>1, <1>4, <2>1, MoveCharge
<1>7. CASE ComputeDelta(t)
  <2> DEFINE g == [f EXCEPT !.from = prior[f.broker].id,
                            !.delta = Compute(prior[f.broker].snap, f.snap), !.at = "trace"]
  <2>1. Goto(t, g)
    BY <1>7 DEF ComputeDelta
  <2>2. Agrees(g, charged)
    BY <1>5
  <2>3. QED
    BY <1>1, <2>1, <2>2, MoveCharge
<1>8. QED
  BY <1>6, <1>7

-----------------------------------------------------------------------------
LEMMA NextCharge ==
  ASSUME TypeOK, AuditInv, ChargeInv, [Next]_vars
  PROVE  ChargeInv'
<1>1. ASSUME NEW t \in Task, Dispatch(t) \/ Proceed(t)
      PROVE  ChargeInv'
  BY <1>1, DispatchCharge, CheckCharge, RecordCharge, ExecuteCharge, ConcludeCharge, FinishCharge
     DEF Proceed, Check, Conclude
<1>2. CASE Restart
  <2>1. /\ \A t \in Task : cur'[t].at = "idle" /\ Len(callers'[t]) = 0
        /\ UNCHANGED <<trace, nextId, charged>>
    BY <1>2 DEF Restart, Idle
  <2>2. CurAgree(cur', charged') /\ CallersAgree(callers', charged')
    BY <2>1 DEF CurAgree, CallersAgree
  <2>3. ChargeMatchesOutcome' /\ ChargedBefore'
    BY <2>1 DEF ChargeInv, ChargeMatchesOutcome, ChargedBefore
  <2>4. QED
    BY <2>2, <2>3 DEF ChargeInv
<1>3. CASE \/ \E p \in Pipeline : WindowPasses(p)
           \/ OperatorResetBudget
           \/ OperatorSetKillSwitch
           \/ \E b \in Registered : Tick(b)
           \/ UNCHANGED vars
  <2>1. UNCHANGED <<cur, callers, trace, nextId, charged>>
    BY <1>3 DEF WindowPasses, OperatorResetBudget, OperatorSetKillSwitch, Tick, vars, ghost
  <2>2. QED
    BY <2>1 DEF ChargeInv, CurAgree, CallersAgree, ChargedBefore, ChargeMatchesOutcome
<1>4. QED
  BY <1>1, <1>2, <1>3 DEF Next

LEMMA InitCharge ==
  ASSUME Init
  PROVE  ChargeInv
BY DEF Init, Idle, ChargeInv, CurAgree, CallersAgree, ChargedBefore, ChargeMatchesOutcome

\* The trust budget is spent on admitted dispatches and on nothing else: what is refused
\* before record_dispatch costs nothing, what is surfaced and succeeds was charged at
\* every nesting level, and the rest is never charged (GovernanceComposer::record_dispatch).
THEOREM ChargeSafety == Spec => []ChargeMatchesOutcome
<1>1. Init => AuditInv /\ ChargeInv
  BY InitAudit, InitCharge
<1>2. TypeOK /\ TypeOK' /\ AuditInv /\ ChargeInv /\ [Next]_vars => AuditInv' /\ ChargeInv'
  BY NextAudit, NextCharge
<1>3. ChargeInv => ChargeMatchesOutcome
  BY DEF ChargeInv
<1>4. QED
  BY <1>1, <1>2, <1>3, TypeCorrect, PTL DEF Spec

==============================================================================
