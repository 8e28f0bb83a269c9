-------------------------- MODULE MCPipelineRunner ---------------------------
(***************************************************************************)
(* Instances of PipelineRunner for TLC: two concurrent callers and small   *)
(* catalogs shaped like the work broker's and the sensory broker's.        *)
(***************************************************************************)
EXTENDS PipelineRunner, TLC

CONSTANTS t1, t2,                              \* callers
          work, sensors, remote,               \* brokers
          claim, plan, refresh, arm, disengage, missing, foreign \* pipelines

leaf(op) == [kind |-> "leaf", op |-> op]
sub(p)   == [kind |-> "sub", callee |-> p]

Pl(vis, byp, par, pre, steps) ==
  [visibility |-> vis, bypasses |-> byp, hasParams |-> par, pre |-> pre,
   steps |-> steps]

MCBroker == {work, sensors}
MCPipeline == {claim, plan, refresh, arm, disengage}
MCOnWork == [p \in MCPipeline |-> work]

GovSteps == {leaf("claim"), leaf("refresh"), sub(claim), sub(refresh),
             leaf("arm_kill_switch"), leaf("disengage_kill_switch")}

\* claim is charged; plan nests claim and is charged at both levels; refresh is
\* internal; arm and disengage bypass the kill switch.
GovCatalog ==
  claim :> Pl("surfaced", FALSE, FALSE, {}, <<leaf("claim")>>)
  @@ plan :> Pl("surfaced", FALSE, FALSE, {}, <<sub(claim), sub(refresh)>>)
  @@ refresh :> Pl("internal", FALSE, FALSE, {}, <<leaf("refresh")>>)
  @@ arm :> Pl("surfaced", TRUE, FALSE, {}, <<leaf("arm_kill_switch")>>)
  @@ disengage :> Pl("surfaced", TRUE, FALSE, {}, <<leaf("disengage_kill_switch")>>)

GovImplements ==
  [b \in MCBroker |-> {"claim", "refresh", "arm_kill_switch", "disengage_kill_switch"}]

GovRequest == {work} \X {claim, plan, arm, disengage}

TaskSymmetry == Permutations(Task)

\* The trace instance: overlays with one key and two values; plan runs a guarded
\* step, then calls a pipeline of a registered or of an unregistered broker.
TraceBrokerOf ==
  [p \in MCPipeline \cup {missing, foreign} |->
     CASE p = refresh -> sensors [] p = foreign -> remote [] OTHER -> work]

TraceBroker == {work, sensors, remote}

TracePipeline == DOMAIN TraceBrokerOf

pred(op, v) == [op |-> op, key |-> "k", val |-> v]

guarded == [kind |-> "guard", pred |-> pred("=", 1), inner |-> sub(claim)]
chooses == [kind |-> "branch", pred |-> pred("!=", 2),
            ifTrue |-> sub(foreign), ifFalse |-> sub(refresh)]

TraceSteps == {leaf("claim"), leaf("refresh"), leaf("arm_kill_switch"), sub(claim),
               sub(refresh), sub(foreign), guarded, chooses}

TraceCatalog ==
  claim :> Pl("surfaced", FALSE, TRUE, {pred("exists", 1)}, <<leaf("claim")>>)
  @@ plan :> Pl("surfaced", FALSE, FALSE, {}, <<guarded, chooses>>)
  @@ refresh :> Pl("audit-only", FALSE, FALSE, {}, <<leaf("refresh")>>)
  @@ arm :> Pl("surfaced", TRUE, FALSE, {}, <<leaf("arm_kill_switch")>>)

\* The sensory broker lists the arm pipeline but does not implement its op.
TraceImplements ==
  [b \in TraceBroker |-> IF b = work THEN {"claim"} ELSE {"refresh"}]

TraceRequest == {work} \X {claim, plan, missing} \cup {<<sensors, arm>>, <<sensors, refresh>>}
==============================================================================
