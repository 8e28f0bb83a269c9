---------------------------- MODULE A2ATaskProofs ----------------------------
(***************************************************************************)
(* Proofs about A2ATask, for any number of callers, clients, messages,     *)
(* invocations and faults.                                                 *)
(*                                                                         *)
(* What a caller was given is genuine because every answer held anywhere   *)
(* is, and because a task id, once handed out, never stands for another    *)
(* message (GenuineInv).  How often a handler runs is bounded because a    *)
(* start needs a message that is neither cached nor being run, or is       *)
(* counted as an overlap (RunsInv).                                        *)
(***************************************************************************)
EXTENDS A2ATask, TLAPS

\* An answer that a run of the handler for message m returned.
Genuine(a, m) == a.mid = m /\ a.run \in 1 .. runs[m]

CallGenuine(c) ==
  /\ call[c].pc \in {"running", "stored"} => Genuine(call[c].answer, MidOf[c])
  /\ At(c, "polling") =>
       /\ call[c].task < nextTask
       /\ call[c].task \in DOMAIN tasks => Genuine(tasks[call[c].task], MidOf[c])
       /\ call[c].epoch <= epoch
       /\ call[c].epoch = epoch => call[c].task \in DOMAIN tasks

GenuineInv ==
  /\ \A k \in Client : \A m \in DOMAIN cache[k] : Genuine(cache[k][m], m)
  /\ \A m \in DOMAIN idem : Genuine(idem[m], m)
  /\ \A i \in DOMAIN tasks : i < nextTask
  /\ \A c \in Caller : CallGenuine(c)
  /\ AnswerGenuine

\* The handler of m is running, or its response is cached.
Held(m) ==
  \/ m \in DOMAIN idem
  \/ \E d \in Caller : Running(d) /\ MidOf[d] = m

RunsInv ==
  \A m \in Mid : runs[m] <= (IF Held(m) THEN 1 ELSE 0) + excuses[m] + epoch

-----------------------------------------------------------------------------
(* The type invariant.                                                     *)

\* What an insertion leaves in a map.
LEMMA PutFacts ==
  ASSUME NEW S, NEW f, IsMap(f, S), NEW k \in S, NEW v \in Answer
  PROVE  /\ IsMap(Put(f, k, v), S)
         /\ DOMAIN Put(f, k, v) = DOMAIN f \cup {k}
         /\ Put(f, k, v)[k] = v
         /\ \A x \in DOMAIN f : x # k => Put(f, k, v)[x] = f[x]
BY DEF IsMap, Put

LEMMA EmptyMap == ASSUME NEW S PROVE IsMap(NoEntry, S) /\ DOMAIN NoEntry = {}
BY DEF IsMap, NoEntry

CallType == [pc : Phase, task : Nat, tries : Nat, epoch : Nat, answer : Answer]

LEMMA IdleType ==
  ASSUME NEW c \in Caller
  PROVE  Idle(c) \in CallType /\ Idle(c).pc = "idle"
BY TaskAssumption DEF Idle, CallType, Answer, Phase

\* The initial states have their types.
LEMMA InitType == Init => TypeOK
BY EmptyMap, IdleType, TaskAssumption DEF Init, TypeOK, CallType

\* What may happen to one call keeps the type of call.
LEMMA CallSteps ==
  ASSUME TypeOK, NEW c \in Caller, NEW p \in Phase
  PROVE  /\ Leave(c) => call' \in [Caller -> CallType]
         /\ Goto(c, p) => call' \in [Caller -> CallType]
BY IdleType DEF TypeOK, Leave, Goto, CallType

\* So does an acknowledgement, which adds a task.
LEMMA AcceptType ==
  ASSUME TypeOK, NEW c \in Caller, NEW a \in Answer, Accept(c, a)
  PROVE  /\ call' \in [Caller -> CallType]
         /\ IsMap(tasks', Nat)
         /\ nextTask' \in Nat
<1>1. TaskId \in Nat /\ IsMap(tasks, Nat)
  BY DEF TypeOK, TaskId
<1>a. IsMap(Put(tasks, TaskId, a), Nat)
  BY <1>1, PutFacts
<1>b. tasks' = Put(tasks, TaskId, a) /\ nextTask' = nextTask + 1
  BY DEF Accept
<1>2. [Idle(c) EXCEPT !.pc = "polling", !.task = TaskId, !.epoch = epoch] \in CallType
  BY IdleType DEF CallType, Phase, TypeOK, TaskId
<1> QED
  BY <1>1, <1>a, <1>b, <1>2 DEF Accept, TypeOK, CallType

\* Inserting an answer into the cache of one client keeps the caches maps.
LEMMA CacheType ==
  ASSUME TypeOK, NEW k \in Client, NEW m \in Mid, NEW a \in Answer,
         cache' = [cache EXCEPT ![k] = Put(@, m, a)]
  PROVE  /\ cache' = [j \in Client |-> cache'[j]]
         /\ \A j \in Client : IsMap(cache'[j], Mid)
<1>1. IsMap(Put(cache[k], m, a), Mid)
  BY PutFacts DEF TypeOK
<1>2. cache'[k] = Put(cache[k], m, a) /\ \A j \in Client : j # k => cache'[j] = cache[j]
  BY DEF TypeOK
<1>3. \A j \in Client : IsMap(cache'[j], Mid)
  BY <1>1, <1>2 DEF TypeOK
<1> QED
  BY <1>3 DEF TypeOK

\* Every step keeps the types.
LEMMA NextType == TypeOK /\ [Next]_vars => TypeOK'
<1> SUFFICES ASSUME TypeOK, [Next]_vars PROVE TypeOK'
  OBVIOUS
<1> USE DEF Phase
<1>1. ASSUME NEW c \in Caller, Invoke(c) PROVE TypeOK'
  <2>1. call' = call \/ call' \in [Caller -> CallType]
    BY <1>1, CallSteps DEF Invoke
  <2>2. given' \subseteq Mid \X Answer
    <3>1. MidOf[c] \in Mid /\ IsMap(cache[ClientOf[c]], Mid)
      BY TaskAssumption DEF TypeOK
    <3>2. CASE /\ MidOf[c] \in DOMAIN cache[ClientOf[c]]
               /\ given' = given \cup {<<MidOf[c], cache[ClientOf[c]][MidOf[c]]>>}
      <4>1. cache[ClientOf[c]][MidOf[c]] \in Answer
        BY <3>1, <3>2 DEF IsMap
      <4> QED
        BY <3>1, <3>2, <4>1 DEF TypeOK
    <3>3. CASE given' = given
      BY <3>3 DEF TypeOK
    <3> QED
      BY <1>1, <3>2, <3>3 DEF Invoke
  <2>3. bounds' \in [calls : Nat, faults : Nat]
    BY <1>1 DEF Invoke, TypeOK
  <2> QED
    BY <1>1, <2>1, <2>2, <2>3 DEF Invoke, TypeOK, CallType
<1>2. ASSUME NEW c \in Caller, PollFinds(c) PROVE TypeOK'
  <2>1. tasks[call[c].task] \in Answer /\ MidOf[c] \in Mid /\ ClientOf[c] \in Client
    BY <1>2, TaskAssumption DEF PollFinds, TypeOK, IsMap
  <2>2. /\ cache' = [j \in Client |-> cache'[j]]
        /\ \A j \in Client : IsMap(cache'[j], Mid)
    BY <1>2, <2>1, CacheType DEF PollFinds
  <2>3. given' \subseteq Mid \X Answer
    BY <1>2, <2>1 DEF PollFinds, TypeOK
  <2>4. call' \in [Caller -> CallType]
    BY <1>2, CallSteps DEF PollFinds
  <2> QED
    BY <1>2, <2>2, <2>3, <2>4 DEF PollFinds, TypeOK, CallType
<1>3. ASSUME NEW c \in Caller, PollMisses(c) PROVE TypeOK'
  <2>1. call' \in [Caller -> CallType]
    <3>1. CASE call' = [call EXCEPT ![c].tries = @ + 1]
      BY <3>1 DEF TypeOK, CallType
    <3>2. CASE Leave(c)
      BY <3>2, CallSteps
    <3> QED
      BY <1>3, <3>1, <3>2 DEF PollMisses
  <2> QED
    BY <1>3, <2>1 DEF PollMisses, TypeOK, CallType
<1>4. ASSUME NEW c \in Caller, Replay(c) PROVE TypeOK'
  <2>1. idem[MidOf[c]] \in Answer
    BY <1>4 DEF Replay, TypeOK, IsMap
  <2>2. /\ call' \in [Caller -> CallType]
        /\ IsMap(tasks', Nat)
        /\ nextTask' \in Nat
    BY <1>4, <2>1, AcceptType DEF Replay
  <2> QED
    BY <1>4, <2>2 DEF Replay, TypeOK, CallType
<1>5. ASSUME NEW c \in Caller, Reject(c) PROVE TypeOK'
  BY <1>5, CallSteps DEF Reject, TypeOK, CallType
<1>6. ASSUME NEW c \in Caller, Run(c) PROVE TypeOK'
  <2>1. MidOf[c] \in Mid /\ [mid |-> MidOf[c], run |-> runs[MidOf[c]] + 1] \in Answer
    BY TaskAssumption DEF TypeOK, Answer
  <2>2. call' \in [Caller -> CallType]
    <3>1. call' = [call EXCEPT ![c] = [call[c] EXCEPT !.pc = "running",
                     !.answer = [mid |-> MidOf[c], run |-> runs[MidOf[c]] + 1]]]
      BY <1>6, Zenon DEF Run, TypeOK
    <3> QED
      BY <3>1, <2>1 DEF TypeOK, CallType
  <2>3. runs' \in [Mid -> Nat] /\ excuses' \in [Mid -> Nat]
    BY <1>6, <2>1 DEF Run, TypeOK
  <2> QED
    BY <1>6, <2>2, <2>3 DEF Run, TypeOK, CallType
<1>7. ASSUME NEW c \in Caller, Fail(c) PROVE TypeOK'
  BY <1>7, CallSteps, TaskAssumption DEF Fail, Fault, TypeOK, CallType
<1>8. ASSUME NEW c \in Caller, Remember(c) PROVE TypeOK'
  <2>1. MidOf[c] \in Mid /\ call[c].answer \in Answer
    BY TaskAssumption DEF TypeOK
  <2>2. IsMap(Put(idem, MidOf[c], call[c].answer), Mid)
    BY <2>1, PutFacts DEF TypeOK
  <2>3. idem' = Put(idem, MidOf[c], call[c].answer)
    BY <1>8 DEF Remember
  <2>4. call' \in [Caller -> CallType]
    BY <1>8, CallSteps DEF Remember
  <2> QED
    BY <1>8, <2>2, <2>3, <2>4 DEF Remember, TypeOK, CallType
<1>9. ASSUME NEW c \in Caller, Acknowledge(c) PROVE TypeOK'
  <2>1. call[c].answer \in Answer
    BY DEF TypeOK
  <2>2. /\ call' \in [Caller -> CallType]
        /\ IsMap(tasks', Nat)
        /\ nextTask' \in Nat
    BY <1>9, <2>1, AcceptType DEF Acknowledge
  <2> QED
    BY <1>9, <2>2 DEF Acknowledge, TypeOK, CallType
<1>10. ASSUME NEW c \in Caller, HangUp(c) PROVE TypeOK'
  BY <1>10, CallSteps, TaskAssumption DEF HangUp, Fault, TypeOK, CallType
<1>11. ASSUME RestartServer PROVE TypeOK'
  <2>1. call' \in [Caller -> CallType]
    BY <1>11, IdleType DEF RestartServer, TypeOK, CallType
  <2> QED
    BY <1>11, <2>1, EmptyMap DEF RestartServer, Fault, TypeOK, CallType
<1>12. ASSUME NEW k \in Client, RestartClient(k) PROVE TypeOK'
  <2>1. call' \in [Caller -> CallType]
    BY <1>12, IdleType DEF RestartClient, TypeOK, CallType
  <2>2. /\ cache' = [j \in Client |-> cache'[j]]
        /\ \A j \in Client : IsMap(cache'[j], Mid)
    <3>1. /\ cache'[k] = NoEntry
          /\ \A j \in Client : j # k => cache'[j] = cache[j]
      BY <1>12 DEF RestartClient, TypeOK
    <3>2. \A j \in Client : IsMap(cache'[j], Mid)
      BY <3>1, EmptyMap DEF TypeOK
    <3> QED
      BY <1>12, <3>2 DEF RestartClient, TypeOK
  <2>3. excuses' \in [Mid -> Nat]
    BY <1>12 DEF RestartClient, TypeOK
  <2> QED
    BY <1>12, <2>1, <2>2, <2>3 DEF RestartClient, Fault, TypeOK, CallType
<1>13. CASE UNCHANGED vars
  BY <1>13 DEF vars, TypeOK
<1> QED
  BY <1>1, <1>2, <1>3, <1>4, <1>5, <1>6, <1>7, <1>8, <1>9, <1>10, <1>11, <1>12, <1>13
     DEF Next, Advance, Serve

\* Every variable keeps its type (client.rs, server.rs).
THEOREM TaskTypes == Spec => []TypeOK
<1> QED
  BY InitType, NextType, PTL DEF Spec

-----------------------------------------------------------------------------
(* How often a handler runs.                                               *)

\* A step that starts no handler, and forgets neither a response nor a handler
\* under way, keeps the bound.
LEMMA RunsKept ==
  ASSUME TypeOK, RunsInv, runs' = runs, excuses' = excuses, epoch' = epoch,
         \A m \in Mid : Held(m) => Held(m)'
  PROVE  RunsInv'
<1> SUFFICES ASSUME NEW m \in Mid
             PROVE  runs[m] <= (IF Held(m)' THEN 1 ELSE 0) + excuses[m] + epoch
  BY DEF RunsInv
<1>1. runs[m] <= (IF Held(m) THEN 1 ELSE 0) + excuses[m] + epoch
  BY DEF RunsInv
<1>2. runs[m] \in Nat /\ excuses[m] \in Nat /\ epoch \in Nat
  BY DEF TypeOK
<1>3. Held(m) => Held(m)'
  OBVIOUS
<1> QED
  BY <1>1, <1>2, <1>3

\* A step of a caller that does not leave a running handler ends no handler.
LEMMA StillRunning ==
  ASSUME TypeOK, NEW c \in Caller, ~Running(c),
         \A d \in Caller : d # c => call'[d] = call[d],
         DOMAIN idem' = DOMAIN idem
  PROVE  \A m \in Mid : Held(m) => Held(m)'
BY DEF Held, Running, At

\* A step that excuses the message of the one handler it ends keeps the bound.
LEMMA EndExcused ==
  ASSUME TypeOK, RunsInv, NEW c \in Caller, Running(c),
         \A d \in Caller : d # c => call'[d] = call[d],
         idem' = idem, runs' = runs, epoch' = epoch,
         excuses' = [excuses EXCEPT ![MidOf[c]] = @ + 1]
  PROVE  RunsInv'
<1> SUFFICES ASSUME NEW m \in Mid
             PROVE  runs[m] <= (IF Held(m)' THEN 1 ELSE 0) + excuses'[m] + epoch
  BY DEF RunsInv
<1>1. runs[m] <= (IF Held(m) THEN 1 ELSE 0) + excuses[m] + epoch
  BY DEF RunsInv
<1>2. runs[m] \in Nat /\ excuses[m] \in Nat /\ epoch \in Nat
  BY DEF TypeOK
<1>3. CASE m = MidOf[c]
  <2>1. excuses'[m] = excuses[m] + 1
    BY <1>3 DEF TypeOK
  <2> QED
    BY <1>1, <1>2, <2>1
<1>4. CASE m # MidOf[c]
  <2>1. excuses'[m] = excuses[m]
    BY <1>4 DEF TypeOK
  <2>2. Held(m) => Held(m)'
    BY <1>4 DEF Held, Running, At
  <2> QED
    BY <1>1, <1>2, <2>1, <2>2
<1> QED
  BY <1>3, <1>4

\* A handler starts: its message was not held, or the start is an overlap.
LEMMA RunRuns ==
  ASSUME TypeOK, RunsInv, NEW c \in Caller, Run(c)
  PROVE  RunsInv'
<1> SUFFICES ASSUME NEW m \in Mid
             PROVE  runs'[m] <= (IF Held(m)' THEN 1 ELSE 0) + excuses'[m] + epoch'
  BY DEF RunsInv
<1>1. runs[m] <= (IF Held(m) THEN 1 ELSE 0) + excuses[m] + epoch
  BY DEF RunsInv
<1>2. runs[m] \in Nat /\ excuses[m] \in Nat /\ epoch \in Nat /\ epoch' = epoch
  BY DEF TypeOK, Run
<1>3. CASE m = MidOf[c]
  <2>1. runs'[m] = runs[m] + 1
    BY <1>3 DEF Run, TypeOK
  <2>2. excuses'[m] = IF Overlaps(c) THEN excuses[m] + 1 ELSE excuses[m]
    BY <1>3 DEF Run, TypeOK
  <2>3. Held(m) <=> Overlaps(c)
    BY <1>3 DEF Held, Overlaps, Run
  <2>4. Held(m)'
    <3>1. call'[c].pc = "running"
      BY DEF Run, TypeOK
    <3> QED
      BY <3>1, <1>3 DEF Held, Running, At
  <2> QED
    BY <1>1, <1>2, <2>1, <2>2, <2>3, <2>4
<1>4. CASE m # MidOf[c]
  <2>1. runs'[m] = runs[m] /\ excuses'[m] = excuses[m]
    BY <1>4 DEF Run, TypeOK
  <2>2. Held(m) => Held(m)'
    <3>1. \A d \in Caller : d # c => call'[d] = call[d]
      BY DEF Run, TypeOK
    <3>2. idem' = idem
      BY DEF Run
    <3> QED
      BY <3>1, <3>2, <1>4 DEF Held, Running, At
  <2> QED
    BY <1>1, <1>2, <2>1, <2>2
<1> QED
  BY <1>3, <1>4

\* A restarted server has forgotten everything, and counts the restart.
LEMMA RestartServerRuns ==
  ASSUME TypeOK, RunsInv, RestartServer
  PROVE  RunsInv'
<1> SUFFICES ASSUME NEW m \in Mid
             PROVE  runs[m] <= (IF Held(m)' THEN 1 ELSE 0) + excuses[m] + (epoch + 1)
  BY DEF RunsInv, RestartServer
<1>1. runs[m] <= (IF Held(m) THEN 1 ELSE 0) + excuses[m] + epoch
  BY DEF RunsInv
<1>2. runs[m] \in Nat /\ excuses[m] \in Nat /\ epoch \in Nat
  BY DEF TypeOK
<1> QED
  BY <1>1, <1>2

\* A restarted client has dropped its posts, which is counted for the messages
\* whose handlers were under way.
LEMMA RestartClientRuns ==
  ASSUME TypeOK, RunsInv, NEW k \in Client, RestartClient(k)
  PROVE  RunsInv'
<1> DEFINE Dropped(m) == \E c \in Caller : ClientOf[c] = k /\ Running(c) /\ MidOf[c] = m
<1> SUFFICES ASSUME NEW m \in Mid
             PROVE  runs[m] <= (IF Held(m)' THEN 1 ELSE 0) + excuses'[m] + epoch
  BY DEF RunsInv, RestartClient
<1>1. runs[m] <= (IF Held(m) THEN 1 ELSE 0) + excuses[m] + epoch
  BY DEF RunsInv
<1>2. runs[m] \in Nat /\ excuses[m] \in Nat /\ epoch \in Nat
  BY DEF TypeOK
<1>3. excuses'[m] = IF Dropped(m) THEN excuses[m] + 1 ELSE excuses[m]
  BY DEF RestartClient
<1>4. ~Dropped(m) => (Held(m) => Held(m)')
  <2>1. idem' = idem /\ \A c \in Caller : ClientOf[c] # k => call'[c] = call[c]
    BY DEF RestartClient, TypeOK
  <2> QED
    BY <2>1 DEF Held, Running, At
<1> QED
  BY <1>1, <1>2, <1>3, <1>4

\* Every step keeps the bound.
LEMMA NextRuns == TypeOK /\ RunsInv /\ [Next]_vars => RunsInv'
<1> SUFFICES ASSUME TypeOK, RunsInv, [Next]_vars PROVE RunsInv'
  OBVIOUS
<1>1. ASSUME NEW c \in Caller, ~Running(c), runs' = runs, excuses' = excuses,
             epoch' = epoch, DOMAIN idem' = DOMAIN idem,
             \A d \in Caller : d # c => call'[d] = call[d]
      PROVE  RunsInv'
  BY <1>1, StillRunning, RunsKept
<1>2. ASSUME NEW c \in Caller,
             \/ Invoke(c) \/ PollFinds(c) \/ PollMisses(c)
             \/ Replay(c) \/ Reject(c) \/ Acknowledge(c)
      PROVE  RunsInv'
  <2>1. ~Running(c)
    BY <1>2 DEF Invoke, PollFinds, PollMisses, Replay, Reject, Acknowledge, Running, At
  <2>2. runs' = runs /\ excuses' = excuses /\ epoch' = epoch /\ idem' = idem
    BY <1>2 DEF Invoke, PollFinds, PollMisses, Replay, Reject, Acknowledge
  <2>3. \A d \in Caller : d # c => call'[d] = call[d]
    BY <1>2 DEF Invoke, PollFinds, PollMisses, Replay, Reject, Acknowledge,
                Goto, Leave, Accept, TypeOK
  <2> QED
    BY <1>1, <2>1, <2>2, <2>3
<1>3. ASSUME NEW c \in Caller, Run(c) PROVE RunsInv'
  BY <1>3, RunRuns
<1>4. ASSUME NEW c \in Caller, Fail(c) PROVE RunsInv'
  BY <1>4, EndExcused DEF Fail, Leave, TypeOK
<1>5. ASSUME NEW c \in Caller, Remember(c) PROVE RunsInv'
  <2>1. runs' = runs /\ excuses' = excuses /\ epoch' = epoch
    BY <1>5 DEF Remember
  <2>2. DOMAIN idem' = DOMAIN idem \cup {MidOf[c]}
    BY <1>5 DEF Remember, Put
  <2>3. \A d \in Caller : d # c => call'[d] = call[d]
    BY <1>5 DEF Remember, Goto, TypeOK
  <2>4. \A m \in Mid : Held(m) => Held(m)'
    BY <2>2, <2>3 DEF Held, Running, At
  <2> QED
    BY <2>1, <2>4, RunsKept
<1>6. ASSUME NEW c \in Caller, HangUp(c) PROVE RunsInv'
  <2>1. runs' = runs /\ epoch' = epoch /\ idem' = idem
    BY <1>6 DEF HangUp
  <2>2. \A d \in Caller : d # c => call'[d] = call[d]
    BY <1>6 DEF HangUp, Leave, TypeOK
  <2>3. CASE Running(c)
    <3>1. excuses' = [excuses EXCEPT ![MidOf[c]] = @ + 1]
      BY <1>6, <2>3 DEF HangUp
    <3> QED
      BY <2>1, <2>2, <2>3, <3>1, EndExcused
  <2>4. CASE ~Running(c)
    <3>1. excuses' = excuses
      BY <1>6, <2>4 DEF HangUp, TypeOK
    <3> QED
      BY <1>1, <2>1, <2>2, <2>4, <3>1
  <2> QED
    BY <2>3, <2>4
<1>7. CASE RestartServer
  BY <1>7, RestartServerRuns
<1>8. ASSUME NEW k \in Client, RestartClient(k) PROVE RunsInv'
  BY <1>8, RestartClientRuns
<1>9. CASE UNCHANGED vars
  BY <1>9 DEF vars, RunsInv, Held, Running, At
<1> QED
  BY <1>2, <1>3, <1>4, <1>5, <1>6, <1>7, <1>8, <1>9 DEF Next, Advance, Serve

\* A handler runs once for its message, and once more at most for each start
\* that overlapped another, each run that failed or was dropped, and each
\* restart of the server (post_task).
THEOREM RunsBounded == Spec => []RunsExcused
<1>1. Init => RunsInv
  BY DEF Init, RunsInv, Held
<1>2. TypeOK /\ RunsInv => RunsExcused
  <2> SUFFICES ASSUME TypeOK, RunsInv, NEW m \in Mid
               PROVE  runs[m] <= 1 + excuses[m] + epoch
    BY DEF RunsExcused
  <2>1. runs[m] \in Nat /\ excuses[m] \in Nat /\ epoch \in Nat
    BY DEF TypeOK
  <2>2. runs[m] <= (IF Held(m) THEN 1 ELSE 0) + excuses[m] + epoch
    BY DEF RunsInv
  <2> QED
    BY <2>1, <2>2
<1> QED
  BY <1>1, <1>2, NextRuns, InitType, NextType, PTL DEF Spec

-----------------------------------------------------------------------------
(* Whose answers callers get.                                              *)

\* What is genuine stays so: runs are only ever added.
LEMMA StaysGenuine ==
  ASSUME TypeOK, TypeOK', \A m \in Mid : runs[m] <= runs'[m],
         NEW m \in Mid, NEW a \in Answer, Genuine(a, m)
  PROVE  Genuine(a, m)'
BY DEF Genuine, TypeOK, Answer

\* Every step leaves or adds runs.
LEMMA RunsGrow ==
  TypeOK /\ [Next]_vars => \A m \in Mid : runs[m] <= runs'[m]
<1> SUFFICES ASSUME TypeOK, [Next]_vars PROVE \A m \in Mid : runs[m] <= runs'[m]
  OBVIOUS
<1>1. runs' = runs \/ \E c \in Caller : Run(c)
  BY DEF Next, Advance, Serve, Invoke, PollFinds, PollMisses, Replay, Reject, Fail,
         Remember, Acknowledge, HangUp, RestartServer, RestartClient, vars
<1>2. CASE runs' = runs
  BY <1>2 DEF TypeOK
<1>3. ASSUME NEW c \in Caller, Run(c) PROVE \A m \in Mid : runs[m] <= runs'[m]
  BY <1>3, TaskAssumption DEF Run, TypeOK
<1> QED
  BY <1>1, <1>2, <1>3

\* The task store only gains entries, under ids not handed out before.
TasksKept ==
  /\ epoch' = epoch
  /\ nextTask <= nextTask'
  /\ DOMAIN tasks \subseteq DOMAIN tasks'
  /\ \A i \in DOMAIN tasks' : i < nextTask => i \in DOMAIN tasks /\ tasks'[i] = tasks[i]

\* A call that a step leaves alone stays genuine.
LEMMA CallKept ==
  ASSUME TypeOK, TypeOK', \A m \in Mid : runs[m] <= runs'[m], TasksKept,
         NEW d \in Caller, CallGenuine(d),
         call'[d].pc = call[d].pc, call'[d].task = call[d].task,
         call'[d].epoch = call[d].epoch, call'[d].answer = call[d].answer
  PROVE  CallGenuine(d)'
<1>1. MidOf[d] \in Mid /\ call[d].answer \in Answer /\ call[d].task \in Nat
      /\ nextTask \in Nat /\ nextTask' \in Nat
  BY TaskAssumption DEF TypeOK
<1>2. CASE At(d, "polling")
  <2>1. call[d].task < nextTask /\ call[d].task < nextTask'
    BY <1>1, <1>2 DEF CallGenuine, TasksKept
  <2>2. ASSUME call[d].task \in DOMAIN tasks' 
        PROVE  /\ tasks'[call[d].task].mid = MidOf[d]
               /\ tasks'[call[d].task].run \in 1 .. runs'[MidOf[d]]
    <3>1. call[d].task \in DOMAIN tasks /\ tasks'[call[d].task] = tasks[call[d].task]
      BY <2>1, <2>2 DEF TasksKept
    <3>2. Genuine(tasks[call[d].task], MidOf[d]) /\ tasks[call[d].task] \in Answer
      BY <1>2, <3>1 DEF CallGenuine, TypeOK, IsMap
    <3>3. runs[MidOf[d]] <= runs'[MidOf[d]] /\ runs[MidOf[d]] \in Nat /\ runs'[MidOf[d]] \in Nat
      BY <1>1 DEF TypeOK
    <3> QED
      BY <3>1, <3>2, <3>3 DEF Genuine, Answer
  <2>3. call[d].epoch <= epoch' /\ (call[d].epoch = epoch' => call[d].task \in DOMAIN tasks')
    BY <1>2 DEF CallGenuine, TasksKept
  <2> QED
    BY <1>2, <2>1, <2>2, <2>3 DEF CallGenuine, Genuine, At
<1>3. CASE ~At(d, "polling")
  <2>1. call[d].pc \in {"running", "stored"} => Genuine(call[d].answer, MidOf[d])'
    BY <1>1, StaysGenuine DEF CallGenuine
  <2> QED
    BY <1>3, <2>1 DEF CallGenuine, At
<1> QED
  BY <1>2, <1>3

\* An acknowledged answer, if genuine, is stored under an id that no other call
\* holds.
LEMMA AcceptGenuine ==
  ASSUME TypeOK, TypeOK', GenuineInv, NEW c \in Caller, NEW a \in Answer,
         Genuine(a, MidOf[c]), Accept(c, a), runs' = runs, epoch' = epoch
  PROVE  /\ \A i \in DOMAIN tasks' : i < nextTask'
         /\ \A d \in Caller : CallGenuine(d)'
<1>1. nextTask \in Nat /\ nextTask' = nextTask + 1 /\ tasks' = Put(tasks, nextTask, a)
  BY DEF Accept, TypeOK, TaskId
<1>2. /\ DOMAIN tasks' = DOMAIN tasks \cup {nextTask}
      /\ tasks'[nextTask] = a
      /\ \A i \in DOMAIN tasks : i # nextTask => tasks'[i] = tasks[i]
  <2>1. IsMap(tasks, Nat)
    BY DEF TypeOK
  <2>2. /\ DOMAIN Put(tasks, nextTask, a) = DOMAIN tasks \cup {nextTask}
        /\ Put(tasks, nextTask, a)[nextTask] = a
        /\ \A i \in DOMAIN tasks : i # nextTask => Put(tasks, nextTask, a)[i] = tasks[i]
    BY <2>1 DEF Put
  <2> QED
    BY <1>1, <2>2
<1>3. \A i \in DOMAIN tasks : i \in Nat /\ i < nextTask
  BY DEF GenuineInv, TypeOK, IsMap
<1>4. \A i \in DOMAIN tasks' : i < nextTask'
  BY <1>1, <1>2, <1>3
<1>5. TasksKept
  BY <1>1, <1>2, <1>3 DEF TasksKept
<1>6. ASSUME NEW d \in Caller, d # c PROVE CallGenuine(d)'
  <2>1. call'[d] = call[d]
    BY <1>6 DEF Accept, TypeOK
  <2>2. CallGenuine(d) /\ \A m \in Mid : runs[m] <= runs'[m]
    BY DEF GenuineInv, TypeOK
  <2> QED
    BY <1>5, <2>1, <2>2, CallKept
<1>7. CallGenuine(c)'
  <2>1. call'[c].pc = "polling" /\ call'[c].task = nextTask /\ call'[c].epoch = epoch
    BY DEF Accept, TypeOK, TaskId, Idle
  <2>2. Genuine(a, MidOf[c])'
    BY DEF Genuine
  <2>3. nextTask < nextTask' /\ nextTask \in DOMAIN tasks' /\ epoch' <= epoch'
    BY <1>1, <1>2 DEF TypeOK
  <2> QED
    BY <1>2, <2>1, <2>2, <2>3 DEF CallGenuine, At
<1> QED
  BY <1>4, <1>6, <1>7

\* Genuine by the runs there are after the step.
Later(a, m) == a.mid = m /\ a.run \in 1 .. runs'[m]

\* What a step may do to the maps and to the answers given: keep an entry, drop
\* it, or add one that is genuine.
LEMMA GenuineKept ==
  ASSUME TypeOK, TypeOK', GenuineInv, \A m \in Mid : runs[m] <= runs'[m],
         \A k \in Client : \A m \in DOMAIN cache'[k] :
           (m \in DOMAIN cache[k] /\ cache'[k][m] = cache[k][m]) \/ Later(cache'[k][m], m),
         \A m \in DOMAIN idem' :
           (m \in DOMAIN idem /\ idem'[m] = idem[m]) \/ Later(idem'[m], m),
         \A g \in given' : g \in given \/ Later(g[2], g[1]),
         \A i \in DOMAIN tasks' : i < nextTask',
         \A c \in Caller : CallGenuine(c)'
  PROVE  GenuineInv'
<1>1. ASSUME NEW m \in Mid, NEW a \in Answer, Genuine(a, m) PROVE Later(a, m)
  BY <1>1 DEF Genuine, Later, TypeOK, Answer
<1>2. ASSUME NEW k \in Client, NEW m \in DOMAIN cache'[k] PROVE Later(cache'[k][m], m)
  <2>1. CASE m \in DOMAIN cache[k] /\ cache'[k][m] = cache[k][m]
    <3>1. m \in Mid /\ cache[k][m] \in Answer
      BY <2>1 DEF TypeOK, IsMap
    <3>2. Genuine(cache[k][m], m)
      BY <2>1 DEF GenuineInv
    <3> QED
      BY <1>1, <2>1, <3>1, <3>2
  <2> QED
    BY <2>1
<1>3. ASSUME NEW m \in DOMAIN idem' PROVE Later(idem'[m], m)
  <2>1. CASE m \in DOMAIN idem /\ idem'[m] = idem[m]
    <3>1. m \in Mid /\ idem[m] \in Answer
      BY <2>1 DEF TypeOK, IsMap
    <3>2. Genuine(idem[m], m)
      BY <2>1 DEF GenuineInv
    <3> QED
      BY <1>1, <2>1, <3>1, <3>2
  <2> QED
    BY <2>1
<1>4. ASSUME NEW g \in given' PROVE Later(g[2], g[1])
  <2>1. CASE g \in given
    <3>1. g[1] \in Mid /\ g[2] \in Answer
      BY <2>1 DEF TypeOK
    <3>2. Genuine(g[2], g[1])
      BY <2>1 DEF GenuineInv, AnswerGenuine, Genuine
    <3> QED
      BY <1>1, <3>1, <3>2
  <2> QED
    BY <2>1
<1>5. AnswerGenuine'
  BY <1>4 DEF AnswerGenuine, Later
<1> QED
  BY <1>2, <1>3, <1>5 DEF GenuineInv, Genuine, Later

\* A call that ends is idle, and holds nothing.
LEMMA IdleGenuine ==
  ASSUME NEW c \in Caller, call'[c].pc = "idle" \/ call'[c].pc = "posting"
  PROVE  CallGenuine(c)'
BY DEF CallGenuine, At

\* A step that leaves the task store alone and lets one call go idle or post.
LEMMA CallEnds ==
  ASSUME TypeOK, TypeOK', GenuineInv, runs' = runs, epoch' = epoch,
         tasks' = tasks, nextTask' = nextTask, NEW c \in Caller,
         call' = call \/ Leave(c) \/ Goto(c, "posting")
  PROVE  /\ \A i \in DOMAIN tasks' : i < nextTask'
         /\ \A d \in Caller : CallGenuine(d)'
<1>1. TasksKept /\ \A m \in Mid : runs[m] <= runs'[m]
  BY DEF TasksKept, TypeOK
<1>2. ASSUME NEW d \in Caller, call'[d] = call[d] PROVE CallGenuine(d)'
  BY <1>1, <1>2, CallKept DEF GenuineInv
<1>3. ASSUME NEW d \in Caller, d # c PROVE call'[d] = call[d]
  BY <1>3 DEF Leave, Goto, TypeOK
<1>4. call'[c] = call[c] \/ call'[c].pc = "idle" \/ call'[c].pc = "posting"
  BY IdleType DEF Leave, Goto, TypeOK
<1>5. \A d \in Caller : CallGenuine(d)'
  BY <1>2, <1>3, <1>4, IdleGenuine
<1> QED
  BY <1>5 DEF GenuineInv

\* Every step keeps answers genuine.
LEMMA NextGenuine == TypeOK /\ TypeOK' /\ GenuineInv /\ [Next]_vars => GenuineInv'
<1> SUFFICES ASSUME TypeOK, TypeOK', GenuineInv, [Next]_vars PROVE GenuineInv'
  OBVIOUS
<1>0. \A m \in Mid : runs[m] <= runs'[m]
  BY RunsGrow
<1>1. ASSUME NEW c \in Caller, Invoke(c) PROVE GenuineInv'
  <2>1. /\ \A i \in DOMAIN tasks' : i < nextTask'
        /\ \A d \in Caller : CallGenuine(d)'
    BY <1>1, CallEnds DEF Invoke
  <2>2. \A g \in given' : g \in given \/ Later(g[2], g[1])
    <3>1. CASE /\ MidOf[c] \in DOMAIN cache[ClientOf[c]]
               /\ given' = given \cup {<<MidOf[c], cache[ClientOf[c]][MidOf[c]]>>}
      <4>1. Genuine(cache[ClientOf[c]][MidOf[c]], MidOf[c])
        BY <3>1, TaskAssumption DEF GenuineInv
      <4>2. Later(cache[ClientOf[c]][MidOf[c]], MidOf[c])
        BY <1>1, <4>1 DEF Invoke, Genuine, Later
      <4> QED
        BY <3>1, <4>2
    <3> QED
      BY <1>1, <3>1 DEF Invoke
  <2> QED
    BY <1>0, <1>1, <2>1, <2>2, GenuineKept DEF Invoke
<1>2. ASSUME NEW c \in Caller, PollFinds(c) PROVE GenuineInv'
  <2> DEFINE a == tasks[call[c].task]
  <2>1. /\ \A i \in DOMAIN tasks' : i < nextTask'
        /\ \A d \in Caller : CallGenuine(d)'
    BY <1>2, CallEnds DEF PollFinds
  <2>2. Later(a, MidOf[c]) /\ a \in Answer
    <3>1. Genuine(a, MidOf[c])
      BY <1>2 DEF PollFinds, GenuineInv, CallGenuine
    <3>2. a \in Answer
      BY <1>2 DEF PollFinds, TypeOK, IsMap
    <3> QED
      BY <1>2, <3>1, <3>2 DEF PollFinds, Genuine, Later
  <2>3. \A g \in given' : g \in given \/ Later(g[2], g[1])
    <3>1. given' = given \cup {<<MidOf[c], a>>}
      BY <1>2 DEF PollFinds
    <3> QED
      BY <2>2, <3>1
  <2>4. ASSUME NEW k \in Client, NEW m \in DOMAIN cache'[k]
        PROVE  \/ m \in DOMAIN cache[k] /\ cache'[k][m] = cache[k][m]
               \/ Later(cache'[k][m], m)
    <3>1. CASE k = ClientOf[c]
      <4>1. cache'[k] = Put(cache[k], MidOf[c], a)
        BY <1>2, <3>1 DEF PollFinds, TypeOK
      <4>2. \/ m = MidOf[c] /\ cache'[k][m] = a
            \/ m \in DOMAIN cache[k] /\ cache'[k][m] = cache[k][m]
        BY <4>1, <2>4 DEF Put
      <4> QED
        BY <2>2, <4>2
    <3>2. CASE k # ClientOf[c]
      <4>1. cache'[k] = cache[k]
        BY <1>2, <3>2 DEF PollFinds, TypeOK
      <4> QED
        BY <4>1, <2>4
    <3> QED
      BY <3>1, <3>2
  <2> QED
    BY <1>0, <1>2, <2>1, <2>3, <2>4, GenuineKept DEF PollFinds
<1>3. ASSUME NEW c \in Caller, Reject(c) \/ Fail(c) \/ HangUp(c) PROVE GenuineInv'
  <2>1. /\ \A i \in DOMAIN tasks' : i < nextTask'
        /\ \A d \in Caller : CallGenuine(d)'
    BY <1>3, CallEnds DEF Reject, Fail, HangUp
  <2>2. cache' = cache /\ idem' = idem /\ given' = given
    BY <1>3 DEF Reject, Fail, HangUp
  <2> QED
    BY <1>0, <2>1, <2>2, GenuineKept
<1>4. ASSUME NEW c \in Caller, PollMisses(c) PROVE GenuineInv'
  <2>1. /\ cache' = cache /\ idem' = idem /\ given' = given /\ tasks' = tasks
        /\ nextTask' = nextTask /\ epoch' = epoch /\ runs' = runs
    BY <1>4 DEF PollMisses
  <2>2. TasksKept
    BY <2>1 DEF TasksKept, TypeOK
  <2>3. ASSUME NEW d \in Caller PROVE CallGenuine(d)'
    <3>1. CASE Leave(c)
      BY <2>1, <3>1, CallEnds
    <3>2. CASE call' = [call EXCEPT ![c].tries = @ + 1]
      <4>1. /\ call'[d].pc = call[d].pc /\ call'[d].task = call[d].task
            /\ call'[d].epoch = call[d].epoch /\ call'[d].answer = call[d].answer
        BY <3>2 DEF TypeOK
      <4> QED
        BY <1>0, <2>2, <4>1, CallKept DEF GenuineInv
    <3> QED
      BY <1>4, <3>1, <3>2 DEF PollMisses
  <2>4. \A i \in DOMAIN tasks' : i < nextTask'
    BY <2>1 DEF GenuineInv
  <2> QED
    BY <1>0, <2>1, <2>3, <2>4, GenuineKept
<1>5. ASSUME NEW c \in Caller, Replay(c) PROVE GenuineInv'
  <2>1. Genuine(idem[MidOf[c]], MidOf[c]) /\ idem[MidOf[c]] \in Answer
    BY <1>5 DEF Replay, GenuineInv, TypeOK, IsMap
  <2>2. /\ \A i \in DOMAIN tasks' : i < nextTask'
        /\ \A d \in Caller : CallGenuine(d)'
    BY <1>5, <2>1, AcceptGenuine DEF Replay
  <2> QED
    BY <1>0, <1>5, <2>2, GenuineKept DEF Replay
<1>6. ASSUME NEW c \in Caller, Run(c) PROVE GenuineInv'
  <2>1. /\ cache' = cache /\ idem' = idem /\ given' = given /\ tasks' = tasks
        /\ nextTask' = nextTask /\ epoch' = epoch
    BY <1>6 DEF Run
  <2>2. TasksKept
    BY <2>1 DEF TasksKept, TypeOK
  <2>3. ASSUME NEW d \in Caller, d # c PROVE CallGenuine(d)'
    <3>1. call'[d] = call[d]
      BY <1>6, <2>3 DEF Run, TypeOK
    <3> QED
      BY <1>0, <2>2, <3>1, CallKept DEF GenuineInv
  <2>4. CallGenuine(c)'
    <3>1. MidOf[c] \in Mid /\ runs'[MidOf[c]] = runs[MidOf[c]] + 1 /\ runs[MidOf[c]] \in Nat
      BY <1>6, TaskAssumption DEF Run, TypeOK
    <3>2. call'[c].pc = "running"
          /\ call'[c].answer = [mid |-> MidOf[c], run |-> runs[MidOf[c]] + 1]
      BY <1>6 DEF Run, TypeOK
    <3> QED
      BY <3>1, <3>2 DEF CallGenuine, Genuine, At
  <2>5. \A i \in DOMAIN tasks' : i < nextTask'
    BY <2>1 DEF GenuineInv
  <2> QED
    BY <1>0, <2>1, <2>3, <2>4, <2>5, GenuineKept
<1>7. ASSUME NEW c \in Caller, Remember(c) PROVE GenuineInv'
  <2>1. /\ cache' = cache /\ given' = given /\ tasks' = tasks
        /\ nextTask' = nextTask /\ epoch' = epoch /\ runs' = runs
    BY <1>7 DEF Remember
  <2>2. TasksKept
    BY <2>1 DEF TasksKept, TypeOK
  <2>3. ASSUME NEW d \in Caller, d # c PROVE CallGenuine(d)'
    <3>1. call'[d] = call[d]
      BY <1>7, <2>3 DEF Remember, Goto, TypeOK
    <3> QED
      BY <1>0, <2>2, <3>1, CallKept DEF GenuineInv
  <2>4. Later(call[c].answer, MidOf[c])
    BY <1>7, <2>1 DEF Remember, Running, At, GenuineInv, CallGenuine, Genuine, Later
  <2>5. CallGenuine(c)'
    <3>1. call'[c].pc = "stored" /\ call'[c].answer = call[c].answer
      BY <1>7 DEF Remember, Goto, TypeOK
    <3> QED
      BY <2>4, <3>1 DEF CallGenuine, Genuine, Later, At
  <2>6. ASSUME NEW m \in DOMAIN idem'
        PROVE  (m \in DOMAIN idem /\ idem'[m] = idem[m]) \/ Later(idem'[m], m)
    <3>1. \/ m = MidOf[c] /\ idem'[m] = call[c].answer
          \/ m \in DOMAIN idem /\ idem'[m] = idem[m]
      BY <1>7, <2>6 DEF Remember, Put
    <3> QED
      BY <2>4, <3>1
  <2>7. \A i \in DOMAIN tasks' : i < nextTask'
    BY <2>1 DEF GenuineInv
  <2> QED
    BY <1>0, <2>1, <2>3, <2>5, <2>6, <2>7, GenuineKept
<1>8. ASSUME NEW c \in Caller, Acknowledge(c) PROVE GenuineInv'
  <2>1. Genuine(call[c].answer, MidOf[c]) /\ call[c].answer \in Answer
    BY <1>8 DEF Acknowledge, GenuineInv, CallGenuine, TypeOK, At
  <2>2. /\ \A i \in DOMAIN tasks' : i < nextTask'
        /\ \A d \in Caller : CallGenuine(d)'
    BY <1>8, <2>1, AcceptGenuine DEF Acknowledge
  <2> QED
    BY <1>0, <1>8, <2>2, GenuineKept DEF Acknowledge
<1>9. CASE RestartServer
  <2>1. /\ DOMAIN tasks' = {} /\ DOMAIN idem' = {}
        /\ nextTask' = nextTask /\ epoch' = epoch + 1 /\ runs' = runs
        /\ cache' = cache /\ given' = given
    BY <1>9, EmptyMap DEF RestartServer
  <2>2. ASSUME NEW d \in Caller PROVE CallGenuine(d)'
    <3>1. CASE call[d].pc \in {"running", "stored"}
      <4>1. call'[d].pc = "idle"
        BY <1>9, <3>1, IdleType DEF RestartServer
      <4> QED
        BY <4>1, IdleGenuine
    <3>2. CASE call[d].pc \notin {"running", "stored"}
      <4>1. call'[d] = call[d] /\ epoch \in Nat /\ call[d].epoch \in Nat
        BY <1>9, <3>2 DEF RestartServer, TypeOK
      <4>2. At(d, "polling") => call[d].task < nextTask /\ call[d].epoch <= epoch
        BY DEF GenuineInv, CallGenuine
      <4> QED
        BY <2>1, <3>2, <4>1, <4>2 DEF CallGenuine, At
    <3> QED
      BY <3>1, <3>2
  <2> QED
    BY <1>0, <2>1, <2>2, GenuineKept
<1>10. ASSUME NEW k \in Client, RestartClient(k) PROVE GenuineInv'
  <2>1. /\ given' = given /\ idem' = idem /\ tasks' = tasks
        /\ nextTask' = nextTask /\ epoch' = epoch /\ runs' = runs
    BY <1>10 DEF RestartClient
  <2>2. TasksKept
    BY <2>1 DEF TasksKept, TypeOK
  <2>3. ASSUME NEW d \in Caller PROVE CallGenuine(d)'
    <3>1. CASE ClientOf[d] = k
      <4>1. call'[d].pc = "idle"
        BY <1>10, <3>1, IdleType DEF RestartClient
      <4> QED
        BY <4>1, IdleGenuine
    <3>2. CASE ClientOf[d] # k
      <4>1. call'[d] = call[d]
        BY <1>10, <3>2 DEF RestartClient, TypeOK
      <4> QED
        BY <1>0, <2>2, <4>1, CallKept DEF GenuineInv
    <3> QED
      BY <3>1, <3>2
  <2>4. ASSUME NEW j \in Client, NEW m \in DOMAIN cache'[j]
        PROVE  m \in DOMAIN cache[j] /\ cache'[j][m] = cache[j][m]
    <3>1. cache'[j] = IF j = k THEN NoEntry ELSE cache[j]
      BY <1>10 DEF RestartClient, TypeOK
    <3> QED
      BY <2>4, <3>1, EmptyMap
  <2>5. \A i \in DOMAIN tasks' : i < nextTask'
    BY <2>1 DEF GenuineInv
  <2> QED
    BY <1>0, <2>1, <2>3, <2>4, <2>5, GenuineKept
<1>11. CASE UNCHANGED vars
  BY <1>11 DEF vars, GenuineInv, Genuine, CallGenuine, AnswerGenuine, At
<1> QED
  BY <1>1, <1>2, <1>3, <1>4, <1>5, <1>6, <1>7, <1>8, <1>9, <1>10, <1>11
     DEF Next, Advance, Serve

\* The initial states hold no answer.
LEMMA InitGenuine == Init => GenuineInv
<1> SUFFICES ASSUME Init PROVE GenuineInv
  OBVIOUS
<1>1. DOMAIN idem = {} /\ DOMAIN tasks = {} /\ given = {}
      /\ \A k \in Client : DOMAIN cache[k] = {}
  BY EmptyMap DEF Init
<1>2. \A c \in Caller : call[c].pc = "idle"
  BY IdleType DEF Init
<1> QED
  BY <1>1, <1>2 DEF GenuineInv, CallGenuine, AnswerGenuine, At

\* A caller is only ever given what a run of the handler for its own message
\* returned (PollFinds, post_task).
THEOREM AnswersGenuine == Spec => []AnswerGenuine
<1>1. GenuineInv => AnswerGenuine
  BY DEF GenuineInv
<1> QED
  BY <1>1, InitGenuine, NextGenuine, InitType, NextType, PTL DEF Spec

\* A post that was accepted can be polled until the server restarts, and what is
\* polled answers its message (post_task).
THEOREM AcceptedStay == Spec => []AcceptedPollable
<1>1. GenuineInv => AcceptedPollable
  BY DEF GenuineInv, CallGenuine, AcceptedPollable, Genuine
<1> QED
  BY <1>1, InitGenuine, NextGenuine, InitType, NextType, PTL DEF Spec
==============================================================================
