--------------------------- MODULE PipelineRunner ----------------------------
(***************************************************************************)
(* The broker framework's pipeline runner (neurogrim-brokers, runner.rs)   *)
(* with the governance composer it consults (governance.rs) and the trace  *)
(* sink it writes (trace.rs).                                              *)
(*                                                                         *)
(* One PipelineRunner is shared by every caller: dispatch takes &self and  *)
(* is async, so the dispatches of different callers interleave at every    *)
(* shared access.  A Task is one caller; it has at most one dispatch under *)
(* way, which may nest further dispatches (sub-pipelines) on its stack.    *)
(* Each action is one access to shared state with the local computation    *)
(* that follows it.                                                        *)
(***************************************************************************)
EXTENDS Naturals, Sequences, FiniteSets, SnapshotDelta

CONSTANTS
  Task,          \* concurrent callers of dispatch
  Broker,        \* broker ids
  Registered,    \* brokers the installed registry knows
  Pipeline,      \* pipeline ids, catalogued or not
  BrokerOf,      \* the <broker_id> prefix of a pipeline id
  Catalog,       \* the catalogued pipelines' definitions
  Step,          \* every step of those pipelines, nested ones included
  Implements,    \* the leaf ops each broker implements
  Request,       \* the <<broker, pipeline>> pairs callers ask for
  Ceiling,       \* trust-budget ceiling
  Limited,       \* pipelines a registered rate-limit subgate applies to
  Limit,         \* dispatches of one such pipeline per rate-limit window
  TraceMayFail,  \* TRUE when an append to the trace file can fail
  MaxDispatch,   \* bound: no caller starts a dispatch after this many
  MaxEnv         \* bound: operator calls, ticks and restarts in a behaviour

Visibility == {"surfaced", "internal", "audit-only"}

Predicate == [op : {"exists", "=", "!="}, key : Key, val : Val]

ASSUME RunnerAssumption ==
  /\ IsFiniteSet(Task) /\ Task # {}
  /\ Broker # {} /\ Pipeline # {}
  /\ Ceiling \in Nat
  /\ Limit \in Nat
  /\ MaxDispatch \in Nat
  /\ MaxEnv \in Nat
  /\ TraceMayFail \in BOOLEAN
  /\ Registered \subseteq Broker
  /\ Request \subseteq Broker \X Pipeline
  /\ BrokerOf \in [Pipeline -> Broker]

ASSUME CatalogAssumption ==
  /\ DOMAIN Catalog \subseteq Pipeline
  /\ \A p \in DOMAIN Catalog :
       /\ Catalog[p].visibility \in Visibility
       /\ Catalog[p].bypasses \in BOOLEAN
       /\ Catalog[p].hasParams \in BOOLEAN
       /\ Catalog[p].pre \subseteq Predicate
       /\ Catalog[p].steps \in Seq(Step)
  /\ \A s \in Step :
       \/ s.kind = "leaf"
       \/ s.kind = "sub" /\ s.callee \in Pipeline
       \/ s.kind = "guard" /\ s.pred \in Predicate /\ s.inner \in Step
       \/ s.kind = "branch" /\ s.pred \in Predicate
                            /\ s.ifTrue \in Step /\ s.ifFalse \in Step

VARIABLES
  used,       \* TrustBudgetMvp.used
  armed,      \* KillSwitchMvp.armed
  hits,       \* hits of each pipeline inside the rate-limit window
  overlay,    \* the overlay each broker publishes
  prior,      \* prior_snapshots: last recorded trace id and overlay per broker
  trace,      \* the records of the trace file, in file order
  cur,        \* the innermost dispatch of each task
  callers,    \* the dispatches waiting for it, outermost first
  nextId,     \* source of fresh trace ids (Uuid::new_v4)
  env,        \* operator calls, ticks and restarts so far
  notified,   \* history: ids whose on_dispatch_complete callbacks fired
  charged,    \* history: ids that consumed a trust-budget unit
  lost,       \* history: ids whose record never reached the trace file
  slipped     \* history: dispatches charged while armed, since arming

vars == <<used, armed, hits, overlay, prior, trace, cur, callers, nextId,
          env, notified, charged, lost, slipped>>

gov   == <<used, armed, hits>>
ghost == <<notified, charged, lost, slipped>>

------------------------------------------------------------------------------
\* Where a dispatch stands.  "idle": the task has no dispatch.
Phase == {"idle", "budget", "kill", "subgate", "ready", "record", "run",
          "post", "delta", "trace"}

\* Why a dispatch ended: the DispatchError variants, "ok" for success, and
\* "none" while it is under way.
Refused == {"not_found", "budget", "kill_switch", "subgate", "param",
            "precondition", "leaf", "sub"}
Why == Refused \cup {"ok", "none"}

\* Refusals that precede record_dispatch.
Doomed == {"not_found", "budget", "kill_switch", "subgate", "param",
           "precondition"}

Delta == [added : Overlay, removed : SUBSET Key,
          changed : UNION {[S -> [from : Val, to : Val]] : S \in SUBSET Key}]

NoDelta == [added |-> EmptyOverlay, removed |-> {}, changed |-> EmptyOverlay]

Frame == [id : Nat, parent : Nat, broker : Broker, pl : Pipeline, at : Phase,
          todo : Seq(Step), snap : Overlay, why : Why, from : Nat,
          delta : Delta]

\* A TraceRecord; "observed" is a history field, the overlay the delta encodes.
Record == [id : Nat, parent : Nat, broker : Broker, pl : Pipeline,
           why : Why, from : Nat, delta : Delta, observed : Overlay]

Surfaced(p) == p \in DOMAIN Catalog /\ Catalog[p].visibility = "surfaced"
Bypasses(p) == p \in DOMAIN Catalog /\ Catalog[p].bypasses

\* evaluate_precondition over the overlay snapshot; a predicate's {param} and
\* {frame.x} placeholders are already substituted.
Holds(pred, snap) ==
  CASE pred.op = "exists" -> pred.key \in DOMAIN snap
    [] pred.op = "="      -> pred.key \in DOMAIN snap /\ snap[pred.key] = pred.val
    [] pred.op = "!="     -> pred.key \in DOMAIN snap => snap[pred.key] # pred.val

\* dispatch: a fresh trace id, then the catalog lookup.  Only a surfaced
\* pipeline goes through the governance checks.
NewFrame(b, p, parent) ==
  [id |-> nextId, parent |-> parent, broker |-> b, pl |-> p,
   at |-> CASE p \notin DOMAIN Catalog -> "post"
            [] p \in DOMAIN Catalog /\ Surfaced(p) -> "budget"
            [] OTHER -> "ready",
   todo |-> IF p \in DOMAIN Catalog THEN Catalog[p].steps ELSE <<>>,
   snap |-> EmptyOverlay,
   why |-> IF p \in DOMAIN Catalog THEN "none" ELSE "not_found",
   from |-> 0, delta |-> NoDelta]

\* execute_steps: the next step, or the end of the pipeline.
Resume(f) ==
  IF f.todo = <<>> THEN [f EXCEPT !.at = "post", !.why = "ok"]
                   ELSE [f EXCEPT !.at = "run"]

Refuse(f, why) == [f EXCEPT !.at = "post", !.why = why]

At(t, phase) == cur[t].at = phase

\* The task's frame moves on; nothing shared changes.
Goto(t, f) == cur' = [cur EXCEPT ![t] = f]

InFlight == {cur[t].id : t \in {u \in Task : cur[u].at # "idle"}}
            \cup UNION {{callers[t][i].id : i \in DOMAIN callers[t]} : t \in Task}
------------------------------------------------------------------------------
Idle == [id |-> 0, parent |-> 0, broker |-> CHOOSE b \in Broker : TRUE,
         pl |-> CHOOSE p \in Pipeline : TRUE, at |-> "idle", todo |-> <<>>,
         snap |-> EmptyOverlay, why |-> "none", from |-> 0, delta |-> NoDelta]

NoPrior == [id |-> 0, snap |-> EmptyOverlay]

Init ==
  /\ used = 0
  /\ armed = FALSE
  /\ hits = [p \in Pipeline |-> 0]
  /\ overlay = [b \in Broker |-> EmptyOverlay]
  /\ prior = [b \in Broker |-> NoPrior]
  /\ trace = <<>>
  /\ cur = [t \in Task |-> Idle]
  /\ callers = [t \in Task |-> <<>>]
  /\ nextId = 1
  /\ env = 0
  /\ notified = {} /\ charged = {} /\ lost = {} /\ slipped = 0

\* A caller dispatches a pipeline: fresh trace id and catalog lookup.
Dispatch(t) ==
  /\ At(t, "idle")
  /\ nextId <= MaxDispatch
  /\ \E r \in Request : Goto(t, NewFrame(r[1], r[2], 0))
  /\ nextId' = nextId + 1
  /\ UNCHANGED <<gov, overlay, prior, trace, callers, env, ghost>>

\* Seeded fault: the ceiling is compared with > instead of >=.
ExhaustedOffByOne == used > Ceiling

\* The comparison of TrustBudgetMvp::check.
Exhausted == used >= Ceiling

\* TrustBudgetMvp::check, the first pre-dispatch check.
CheckBudget(t) ==
  /\ At(t, "budget")
  /\ Goto(t, IF Exhausted THEN Refuse(cur[t], "budget")
                          ELSE [cur[t] EXCEPT !.at = "kill"])
  /\ UNCHANGED <<gov, overlay, prior, trace, callers, nextId, env, ghost>>

\* Seeded fault: only the outermost dispatch of a caller is refused.
HaltedOutermost(f) == armed /\ ~Bypasses(f.pl) /\ f.parent = 0

\* The kill-switch condition of pre_dispatch_checks_for.
Halted(f) == armed /\ ~Bypasses(f.pl)

\* Seeded fault: an armed switch makes the dispatch wait instead of refusing it.
CheckKillSwitchWaits(t) ==
  /\ At(t, "kill")
  /\ ~Halted(cur[t])
  /\ Goto(t, [cur[t] EXCEPT !.at = "subgate"])
  /\ UNCHANGED <<gov, overlay, prior, trace, callers, nextId, env, ghost>>

\* KillSwitchMvp::check, skipped by a pipeline that bypasses it.
CheckKillSwitch(t) ==
  /\ At(t, "kill")
  /\ Goto(t, IF Halted(cur[t]) THEN Refuse(cur[t], "kill_switch")
                               ELSE [cur[t] EXCEPT !.at = "subgate"])
  /\ UNCHANGED <<gov, overlay, prior, trace, callers, nextId, env, ghost>>

\* The registered subgates; a RateLimitSubgate keyed by pipeline records every
\* check it permits as a hit.
CheckSubgate(t) ==
  LET p == cur[t].pl IN
  /\ At(t, "subgate")
  /\ \/ /\ p \in Limited /\ hits[p] >= Limit
        /\ Goto(t, Refuse(cur[t], "subgate"))
        /\ UNCHANGED hits
     \/ /\ p \in Limited => hits[p] < Limit
        /\ hits' = IF p \in Limited THEN [hits EXCEPT ![p] = @ + 1] ELSE hits
        /\ Goto(t, [cur[t] EXCEPT !.at = "ready"])
  /\ UNCHANGED <<used, armed, overlay, prior, trace, callers, nextId, env, ghost>>

\* Seeded fault: internal and audit-only pipelines are charged too.
AdmitCharged(f) == [f EXCEPT !.at = "record"]

\* The preconditions hold: a surfaced dispatch is charged before its first step.
Admit(f) == IF Surfaced(f.pl) THEN [f EXCEPT !.at = "record"] ELSE Resume(f)

\* Parameter validation, the overlay read and the preconditions on it.
ReadOverlay(t) ==
  LET f    == cur[t]
      snap == overlay[f.broker]
      met  == \A pred \in Catalog[f.pl].pre : Holds(pred, snap)
  IN
  /\ At(t, "ready")
  /\ \/ /\ Catalog[f.pl].hasParams              \* the caller's params are invalid
        /\ Goto(t, Refuse(f, "param"))
     \/ /\ ~met
        /\ Goto(t, Refuse([f EXCEPT !.snap = snap], "precondition"))
     \/ /\ met
        /\ Goto(t, Admit([f EXCEPT !.snap = snap]))
  /\ UNCHANGED <<gov, overlay, prior, trace, callers, nextId, env, ghost>>

\* TrustBudgetMvp::consume.
Consumed(u) == u + 1

\* GovernanceComposer::record_dispatch: one fetch_add, no second look at the
\* ceiling or at the kill switch.
RecordDispatch(t) ==
  /\ At(t, "record")
  /\ used' = Consumed(used)
  /\ charged' = charged \cup {cur[t].id}
  /\ slipped' = IF armed /\ ~Bypasses(cur[t].pl) THEN slipped + 1 ELSE slipped
  /\ Goto(t, Resume(cur[t]))
  /\ UNCHANGED <<armed, hits, overlay, prior, trace, callers, nextId, env,
                 notified, lost>>

\* execute_steps returns and dispatch reads the overlay again.
ReadPost(t) ==
  /\ At(t, "post")
  /\ Goto(t, [cur[t] EXCEPT !.snap = overlay[cur[t].broker], !.at = "delta"])
  /\ UNCHANGED <<gov, overlay, prior, trace, callers, nextId, env, ghost>>

\* Seeded fault: a refused dispatch does not become the next prior snapshot.
PriorAfterSuccess(f) ==
  IF f.why = "ok"
    THEN [prior EXCEPT ![f.broker] = [id |-> f.id, snap |-> f.snap]]
    ELSE prior

\* The dispatch becomes the broker's prior snapshot, whatever its outcome.
PriorAfter(f) == [prior EXCEPT ![f.broker] = [id |-> f.id, snap |-> f.snap]]

\* compute_snapshot_delta, under the prior_snapshots lock.
ComputeDelta(t) ==
  LET f == cur[t]
      b == f.broker
  IN
  /\ At(t, "delta")
  /\ Goto(t, [f EXCEPT !.from = prior[b].id,
                       !.delta = Compute(prior[b].snap, f.snap),
                       !.at = "trace"])
  /\ prior' = PriorAfter(f)
  /\ UNCHANGED <<gov, overlay, trace, callers, nextId, env, ghost>>
------------------------------------------------------------------------------
Kind(t, kind) ==
  At(t, "run") /\ cur[t].todo # <<>> /\ Head(cur[t].todo).kind = kind

Rest(f) == [f EXCEPT !.todo = Tail(@)]

\* Arming starts a fresh count of the dispatches that slip through.
SetArmed(b) ==
  /\ armed' = b
  /\ slipped' = IF armed = b THEN slipped ELSE 0

\* Step::Leaf, an op of the broker's execute_leaf that succeeds: arming,
\* disengaging, or any other op, which may publish a new overlay.
RunLeaf(t) ==
  LET f  == cur[t]
      op == Head(f.todo).op
  IN
  /\ Kind(t, "leaf")
  /\ op \in Implements[f.broker]
  /\ \/ /\ op = "arm_kill_switch"
        /\ SetArmed(TRUE)
        /\ UNCHANGED overlay
     \/ /\ op = "disengage_kill_switch"
        /\ SetArmed(FALSE)
        /\ UNCHANGED overlay
     \/ /\ op \notin {"arm_kill_switch", "disengage_kill_switch"}
        /\ \E o \in Overlay : overlay' = [overlay EXCEPT ![f.broker] = o]
        /\ UNCHANGED <<armed, slipped>>
  /\ Goto(t, Resume(Rest(f)))
  /\ UNCHANGED <<used, hits, prior, trace, callers, nextId, env, notified,
                 charged, lost>>

\* Step::Leaf that fails: the broker does not know the op (the arm of the match
\* that returns NotFound) or the op returns an error.  The later steps are
\* abandoned.
FailLeaf(t) ==
  LET f == cur[t] IN
  /\ Kind(t, "leaf")
  /\ \/ Head(f.todo).op \notin Implements[f.broker]
     \/ Head(f.todo).op \notin {"arm_kill_switch", "disengage_kill_switch"}
  /\ Goto(t, Refuse(f, "leaf"))
  /\ UNCHANGED <<gov, overlay, prior, trace, callers, nextId, env, ghost>>

\* Step::SubPipeline: a nested dispatch, governed like any other, against the
\* callee's broker; a callee of another broker must be registered.
CallSub(t) ==
  LET f      == cur[t]
      callee == Head(f.todo).callee
      b      == BrokerOf[callee]
  IN
  /\ Kind(t, "sub")
  /\ \/ /\ b = f.broker \/ b \in Registered
        /\ callers' = [callers EXCEPT ![t] = Append(@, Rest(f))]
        /\ Goto(t, NewFrame(b, callee, f.id))
        /\ nextId' = nextId + 1
     \/ /\ b # f.broker /\ b \notin Registered
        /\ Goto(t, Refuse(f, "sub"))
        /\ UNCHANGED <<callers, nextId>>
  /\ UNCHANGED <<gov, overlay, prior, trace, env, ghost>>

\* Step::Guard and Step::Branch, decided on the snapshot read before the first
\* step, whatever the earlier steps did to the overlay.
RunChoice(t) ==
  LET f == cur[t]
      s == Head(f.todo)
      chosen ==
        CASE s.kind = "guard"  -> IF Holds(s.pred, f.snap) THEN <<s.inner>> ELSE <<>>
          [] s.kind = "branch" -> IF Holds(s.pred, f.snap) THEN <<s.ifTrue>>
                                                           ELSE <<s.ifFalse>>
  IN
  /\ Kind(t, "guard") \/ Kind(t, "branch")
  /\ Goto(t, Resume([f EXCEPT !.todo = chosen \o Tail(@)]))
  /\ UNCHANGED <<gov, overlay, prior, trace, callers, nextId, env, ghost>>

\* The caller of a nested dispatch goes on, or fails with it.
Returned(caller, why) ==
  IF why = "ok" THEN Resume(caller) ELSE Refuse(caller, "sub")

\* The record dispatch builds for success and refusal alike.
RecordOf(f) ==
  [id |-> f.id, parent |-> f.parent, broker |-> f.broker, pl |-> f.pl,
   why |-> f.why, from |-> f.from, delta |-> f.delta, observed |-> f.snap]

\* Seeded fault: only successful dispatches are recorded.
AppendTraceOnSuccess(f) ==
  /\ trace' = IF f.why = "ok" THEN Append(trace, RecordOf(f)) ELSE trace
  /\ UNCHANGED lost

\* TraceSink::append, best effort: its failure is logged and forgotten.
AppendTrace(f) ==
  \/ trace' = Append(trace, RecordOf(f)) /\ UNCHANGED lost
  \/ TraceMayFail /\ lost' = lost \cup {f.id} /\ UNCHANGED trace

\* The end of dispatch: the append to the trace file, the callbacks of a
\* success, and the return to the caller.
Finish(t) ==
  LET f == cur[t]
      n == Len(callers[t])
  IN
  /\ At(t, "trace")
  /\ AppendTrace(f)
  /\ notified' = IF f.why = "ok" THEN notified \cup {f.id} ELSE notified
  /\ \/ /\ n = 0
        /\ Goto(t, Idle)
        /\ UNCHANGED callers
     \/ /\ n > 0
        /\ Goto(t, Returned(callers[t][n], f.why))
        /\ callers' = [callers EXCEPT ![t] = SubSeq(@, 1, n - 1)]
  /\ UNCHANGED <<gov, overlay, prior, nextId, env, charged, slipped>>
------------------------------------------------------------------------------
\* Time passes and the oldest hits of a pipeline leave the window.
WindowPasses(p) ==
  /\ hits[p] > 0
  /\ \E n \in 0..(hits[p] - 1) : hits' = [hits EXCEPT ![p] = n]
  /\ UNCHANGED <<used, armed, overlay, prior, trace, cur, callers, nextId, env,
                 ghost>>

\* The operator's direct calls on the shared GovernanceComposer.
OperatorResetBudget ==
  /\ env < MaxEnv /\ env' = env + 1
  /\ used' = 0
  /\ UNCHANGED <<armed, hits, overlay, prior, trace, cur, callers, nextId, ghost>>

OperatorSetKillSwitch ==
  /\ env < MaxEnv /\ env' = env + 1
  /\ \E b \in BOOLEAN : SetArmed(b)
  /\ UNCHANGED <<used, hits, overlay, prior, trace, cur, callers, nextId,
                 notified, charged, lost>>

\* A broker's tick publishes a new overlay outside any dispatch.
Tick(b) ==
  /\ env < MaxEnv /\ env' = env + 1
  /\ \E o \in Overlay : overlay' = [overlay EXCEPT ![b] = o]
  /\ UNCHANGED <<gov, prior, trace, cur, callers, nextId, ghost>>

\* The process stops and starts again: everything but the trace file is gone,
\* the armed kill switch and the spent budget included.
Restart ==
  /\ env < MaxEnv /\ env' = env + 1
  /\ used' = 0 /\ armed' = FALSE /\ slipped' = 0
  /\ hits' = [p \in Pipeline |-> 0]
  /\ overlay' = [b \in Broker |-> EmptyOverlay]
  /\ prior' = [b \in Broker |-> NoPrior]
  /\ cur' = [t \in Task |-> Idle]
  /\ callers' = [t \in Task |-> <<>>]
  /\ lost' = lost \cup InFlight
  /\ UNCHANGED <<trace, nextId, notified, charged>>

Check(t) == CheckBudget(t) \/ CheckKillSwitch(t) \/ CheckSubgate(t)
            \/ ReadOverlay(t) \/ RecordDispatch(t)

Execute(t) == RunLeaf(t) \/ FailLeaf(t) \/ CallSub(t) \/ RunChoice(t)

Conclude(t) == ReadPost(t) \/ ComputeDelta(t) \/ Finish(t)

\* A dispatch that has begun goes on.
Proceed(t) == Check(t) \/ Execute(t) \/ Conclude(t)

Next ==
  \/ \E t \in Task : Dispatch(t) \/ Proceed(t)
  \/ \E p \in Pipeline : WindowPasses(p)
  \/ OperatorResetBudget
  \/ OperatorSetKillSwitch
  \/ \E b \in Registered : Tick(b)
  \/ Restart

Spec == Init /\ [][Next]_vars

\* The async runtime polls every spawned dispatch to completion.
FairSpec == Spec /\ \A t \in Task : WF_vars(Proceed(t))
------------------------------------------------------------------------------
\* Every variable of the runner, the frames waiting on the stacks included, has
\* its type (runner.rs, governance.rs, trace.rs).
TypeOK ==
  /\ used \in Nat
  /\ armed \in BOOLEAN
  /\ hits \in [Pipeline -> Nat]
  /\ overlay \in [Broker -> Overlay]
  /\ prior \in [Broker -> [id : Nat, snap : Overlay]]
  /\ trace \in Seq(Record)
  /\ cur \in [Task -> Frame]
  /\ callers \in [Task -> Seq(Frame)]
  /\ nextId \in Nat
  /\ env \in Nat
  /\ notified \subseteq Nat /\ charged \subseteq Nat /\ lost \subseteq Nat
  /\ slipped \in Nat

\* Tasks whose dispatch passed the budget check and is not charged yet.
Uncharged ==
  {t \in Task : /\ cur[t].at \in {"kill", "subgate", "ready", "record"}
                /\ Surfaced(cur[t].pl)}

\* Tasks whose dispatch passed the kill-switch check and is not charged yet.
Unstoppable ==
  {t \in Task : /\ cur[t].at \in {"subgate", "ready", "record"}
                /\ Surfaced(cur[t].pl) /\ ~Bypasses(cur[t].pl)}

\* The budget is checked and consumed in two steps with an await between them,
\* so concurrent dispatches can pass the check together; the overshoot is less
\* than the number of concurrent callers, however deep they nest.
BudgetOvershootBounded == used < Ceiling + Cardinality(Task)

\* Once the kill switch is armed, at most one surfaced dispatch of each caller
\* (the one already past its check) is still admitted, nested ones included.
KillSwitchLatencyBounded == slipped <= Cardinality(Task)

Traced == {trace[n].id : n \in DOMAIN trace}

\* Audit completeness: every dispatch ever started is exactly one of under way,
\* recorded once in the trace file (a refusal as well as a success), or lost
\* to a failed append or a restart.  A nested dispatch is recorded before the one
\* that called it, and its refusal refuses the caller.
AuditComplete ==
  /\ 1..(nextId - 1) = InFlight \cup Traced \cup lost
  /\ InFlight \cap Traced = {} /\ InFlight \cap lost = {} /\ Traced \cap lost = {}
  /\ \A m, n \in DOMAIN trace : trace[m].id = trace[n].id => m = n
  /\ \A m, n \in DOMAIN trace : trace[n].parent = trace[m].id =>
       n < m /\ (trace[n].why # "ok" => trace[m].why = "sub")

\* The trust budget is spent on dispatches that were admitted and on nothing
\* else: a dispatch refused before record_dispatch cost nothing, a surfaced one
\* that succeeded was charged at every nesting level, and only surfaced ones are.
ChargeMatchesOutcome ==
  \A n \in DOMAIN trace :
    LET r == trace[n] IN
    /\ r.why \in Doomed => r.id \notin charged
    /\ Surfaced(r.pl) /\ r.why = "ok" => r.id \in charged
    /\ ~Surfaced(r.pl) => r.id \notin charged

\* The overlay a dispatch's delta was computed for: in its record, or in its
\* frame while the record is not written yet.
ObservedBy(id, o) ==
  \/ \E n \in DOMAIN trace : trace[n].id = id /\ trace[n].observed = o
  \/ \E t \in Task : cur[t].at = "trace" /\ cur[t].id = id /\ cur[t].snap = o

\* One step of the walk along the delta chain recovers the overlay each record
\* observed, unless the record before it was lost; the chain of a broker never
\* forks, whatever the order in which concurrent records reach the file.
DeltaChainSound ==
  /\ \A n \in DOMAIN trace :
       LET r == trace[n] IN
       IF r.from = 0 THEN ApplyDelta(EmptyOverlay, r.delta) = r.observed
       ELSE \/ r.from \in lost
            \/ \E o \in Overlay : ObservedBy(r.from, o)
                                  /\ ApplyDelta(o, r.delta) = r.observed
  /\ \A m, n \in DOMAIN trace :
       trace[m].from = trace[n].from /\ trace[m].from # 0 => m = n

\* Every dispatch that begins ends, whatever refuses or fails on the way.
DispatchEnds == \A t \in Task : cur[t].at # "idle" ~> cur[t].at = "idle"

==============================================================================
