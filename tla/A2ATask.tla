------------------------------- MODULE A2ATask -------------------------------
(***************************************************************************)
(* Task invocation between two Brains (neurogrim-a2a): TaskClient::invoke  *)
(* posts an envelope, polls for the answer and caches it by message id;    *)
(* TaskServer runs the handler inside the POST, caches the response by     *)
(* message id and stores it under a task id.  Both keep everything in      *)
(* memory.  Callers repeat message ids, overlap, hang up and time out.     *)
(*                                                                         *)
(* An answer is the run of the handler that returned it.                   *)
(***************************************************************************)
EXTENDS Naturals

CONSTANTS
  Caller,        \* tasks that call invoke, again and again
  Client,        \* TaskClients, shared by their clones
  ClientOf,      \* the client of each caller
  Mid,           \* message ids
  MidOf,         \* the message id each caller's envelope carries
  Unacceptable,  \* those whose envelope is answered with 400 or 405
  MaxAttempts,   \* POLL_MAX_ATTEMPTS
  MaxCalls,      \* bound: how many invocations begin
  MaxFaults      \* bound: failures, hang-ups, restarts

ASSUME TaskAssumption ==
  /\ ClientOf \in [Caller -> Client]
  /\ MidOf \in [Caller -> Mid]
  /\ Unacceptable \subseteq Mid
  /\ MaxAttempts \in Nat \ {0}
  /\ MaxCalls \in Nat
  /\ MaxFaults \in Nat

VARIABLES
  call,      \* per caller, where its invocation is and what it holds
  cache,     \* per client, its idempotency cache: message id to answer
  idem,      \* the server's: message id to answer
  tasks,     \* the server's task store: task id to answer
  nextTask,  \* source of fresh task ids (Uuid::new_v4)
  epoch,     \* how often the server has restarted
  bounds,    \* invocations and faults so far
  runs,      \* history: per message id, how often its handler was started
  excuses,   \* history: ... the starts that overlapped another, runs that
             \* failed or were dropped
  given      \* history: the answers callers were given, with their message ids

vars == <<call, cache, idem, tasks, nextTask, epoch, bounds, runs, excuses, given>>

Phase == {"idle", "posting", "running", "stored", "polling"}

Answer == [mid : Mid, run : Nat]

NoEntry == [x \in {} |-> x]

\* HashMap::insert.
Put(f, k, v) == [x \in DOMAIN f \cup {k} |-> IF x = k THEN v ELSE f[x]]

Idle(c) == [pc |-> "idle", task |-> 0, tries |-> 0, epoch |-> 0,
            answer |-> [mid |-> MidOf[c], run |-> 0]]

At(c, pc) == call[c].pc = pc

Goto(c, pc) == call' = [call EXCEPT ![c].pc = pc]

Leave(c) == call' = [call EXCEPT ![c] = Idle(c)]

Fault == bounds.faults < MaxFaults /\ bounds' = [bounds EXCEPT !.faults = @ + 1]

Init ==
  /\ call = [c \in Caller |-> Idle(c)]
  /\ cache = [k \in Client |-> NoEntry]
  /\ idem = NoEntry
  /\ tasks = NoEntry
  /\ nextTask = 1
  /\ epoch = 0
  /\ bounds = [calls |-> 0, faults |-> 0]
  /\ runs = [m \in Mid |-> 0]
  /\ excuses = [m \in Mid |-> 0]
  /\ given = {}

-----------------------------------------------------------------------------
(* The client.                                                             *)

\* invoke looks in its cache, and posts what it does not find.
Invoke(c) ==
  LET known == cache[ClientOf[c]] IN
  /\ At(c, "idle")
  /\ bounds.calls < MaxCalls
  /\ bounds' = [bounds EXCEPT !.calls = @ + 1]
  /\ \/ /\ MidOf[c] \in DOMAIN known
        /\ given' = given \cup {<<MidOf[c], known[MidOf[c]]>>}
        /\ UNCHANGED call
     \/ /\ MidOf[c] \notin DOMAIN known
        /\ Goto(c, "posting")
        /\ UNCHANGED given
  /\ UNCHANGED <<cache, idem, tasks, nextTask, epoch, runs, excuses>>

\* A poll finds the task: its answer is cached and returned.  That it replies
\* to the message posted is not checked (validate_response only warns).
PollFinds(c) ==
  /\ At(c, "polling")
  /\ call[c].task \in DOMAIN tasks
  /\ cache' = [cache EXCEPT ![ClientOf[c]] = Put(@, MidOf[c], tasks[call[c].task])]
  /\ given' = given \cup {<<MidOf[c], tasks[call[c].task]>>}
  /\ Leave(c)
  /\ UNCHANGED <<idem, tasks, nextTask, epoch, bounds, runs, excuses>>

\* Seeded fault: the poll loop has no ceiling.
PollMissesForever(c) ==
  /\ At(c, "polling")
  /\ call[c].task \notin DOMAIN tasks
  /\ UNCHANGED vars

\* A 404 stands for a task that is not complete as well as for an unknown one;
\* after the last attempt the invocation times out.
PollMisses(c) ==
  /\ At(c, "polling")
  /\ call[c].task \notin DOMAIN tasks
  /\ \/ /\ call[c].tries + 1 < MaxAttempts
        /\ call' = [call EXCEPT ![c].tries = @ + 1]
     \/ /\ call[c].tries + 1 >= MaxAttempts
        /\ Leave(c)
  /\ UNCHANGED <<cache, idem, tasks, nextTask, epoch, bounds, runs, excuses, given>>

-----------------------------------------------------------------------------
(* The server: post_task.                                                  *)

\* Seeded fault: task ids are numbers that start over with the server.
TaskIdCounted == IF DOMAIN tasks = {} THEN 1
                 ELSE 1 + CHOOSE i \in DOMAIN tasks : \A j \in DOMAIN tasks : j <= i

TaskId == nextTask

\* The answer gets a task id, a fresh one, which is sent back with the 202.
Accept(c, answer) ==
  /\ tasks' = Put(tasks, TaskId, answer)
  /\ nextTask' = nextTask + 1
  /\ call' = [call EXCEPT ![c] = [Idle(c) EXCEPT !.pc = "polling", !.task = TaskId,
                                                 !.epoch = epoch]]

\* Seeded fault: a replay is acknowledged with an id of its own and not stored.
ReplayUnstored(c) ==
  /\ At(c, "posting")
  /\ MidOf[c] \in DOMAIN idem
  /\ nextTask' = nextTask + 1
  /\ call' = [call EXCEPT ![c] = [Idle(c) EXCEPT !.pc = "polling", !.task = TaskId,
                                                 !.epoch = epoch]]
  /\ UNCHANGED <<cache, idem, tasks, epoch, bounds, runs, excuses, given>>

\* The message id is known: its answer is stored under a fresh task id, while
\* the read lock on the idempotency cache is held.
Replay(c) ==
  /\ At(c, "posting")
  /\ MidOf[c] \in DOMAIN idem
  /\ Accept(c, idem[MidOf[c]])
  /\ UNCHANGED <<cache, idem, epoch, bounds, runs, excuses, given>>

\* Unsupported schema_version, or a message type without a handler.
Reject(c) ==
  /\ At(c, "posting")
  /\ MidOf[c] \notin DOMAIN idem
  /\ MidOf[c] \in Unacceptable
  /\ Leave(c)
  /\ UNCHANGED <<cache, idem, tasks, nextTask, epoch, bounds, runs, excuses, given>>

Running(c) == At(c, "running")

\* Another post of the same message has passed the check and is not cached yet.
Overlaps(c) == \E d \in Caller : Running(d) /\ MidOf[d] = MidOf[c]

\* The message id is not known: the handler starts.
Run(c) ==
  LET m == MidOf[c] IN
  /\ At(c, "posting")
  /\ m \notin DOMAIN idem
  /\ m \notin Unacceptable
  /\ runs' = [runs EXCEPT ![m] = @ + 1]
  /\ excuses' = [excuses EXCEPT ![m] = IF Overlaps(c) THEN @ + 1 ELSE @]
  /\ call' = [call EXCEPT ![c].pc = "running",
                          ![c].answer = [mid |-> m, run |-> runs[m] + 1]]
  /\ UNCHANGED <<cache, idem, tasks, nextTask, epoch, bounds, given>>

\* The handler fails: a 500, and nothing is cached.
Fail(c) ==
  /\ Running(c)
  /\ Fault
  /\ excuses' = [excuses EXCEPT ![MidOf[c]] = @ + 1]
  /\ Leave(c)
  /\ UNCHANGED <<cache, idem, tasks, nextTask, epoch, runs, given>>

\* Seeded fault: the response is not cached.
RememberNothing(c) ==
  /\ Running(c)
  /\ Goto(c, "stored")
  /\ UNCHANGED <<cache, idem, tasks, nextTask, epoch, bounds, runs, excuses, given>>

\* The handler returns and its response is cached, over that of an overlapping
\* run if there is one.
Remember(c) ==
  /\ Running(c)
  /\ idem' = Put(idem, MidOf[c], call[c].answer)
  /\ Goto(c, "stored")
  /\ UNCHANGED <<cache, tasks, nextTask, epoch, bounds, runs, excuses, given>>

Acknowledge(c) ==
  /\ At(c, "stored")
  /\ Accept(c, call[c].answer)
  /\ UNCHANGED <<cache, idem, epoch, bounds, runs, excuses, given>>

-----------------------------------------------------------------------------
(* Faults.                                                                 *)

\* A request or its reply is lost, or the caller gives up: the invocation ends
\* with a transport error, and a handler under way is dropped with its request.
HangUp(c) ==
  /\ ~At(c, "idle")
  /\ Fault
  /\ excuses' = [excuses EXCEPT ![MidOf[c]] = IF Running(c) THEN @ + 1 ELSE @]
  /\ Leave(c)
  /\ UNCHANGED <<cache, idem, tasks, nextTask, epoch, runs, given>>

\* The server restarts: its maps are gone, and the posts it was serving.
RestartServer ==
  /\ Fault
  /\ idem' = NoEntry
  /\ tasks' = NoEntry
  /\ epoch' = epoch + 1
  /\ call' = [c \in Caller |->
                IF call[c].pc \in {"running", "stored"} THEN Idle(c) ELSE call[c]]
  /\ UNCHANGED <<cache, nextTask, runs, excuses, given>>

\* A client's process restarts: its cache is gone, and its invocations.
RestartClient(k) ==
  LET ended == {c \in Caller : ClientOf[c] = k} IN
  /\ Fault
  /\ cache' = [cache EXCEPT ![k] = NoEntry]
  /\ call' = [c \in Caller |-> IF c \in ended THEN Idle(c) ELSE call[c]]
  /\ excuses' = [m \in Mid |-> IF \E c \in ended : Running(c) /\ MidOf[c] = m
                               THEN excuses[m] + 1 ELSE excuses[m]]
  /\ UNCHANGED <<idem, tasks, nextTask, epoch, runs, given>>

-----------------------------------------------------------------------------
Serve(c) == Replay(c) \/ Reject(c) \/ Run(c) \/ Remember(c) \/ Acknowledge(c)

Advance(c) == Serve(c) \/ PollFinds(c) \/ PollMisses(c)

Next ==
  \/ \E c \in Caller : Invoke(c) \/ Advance(c) \/ Fail(c) \/ HangUp(c)
  \/ RestartServer
  \/ \E k \in Client : RestartClient(k)

Spec == Init /\ [][Next]_vars

\* The server polls its requests, handlers return or fail, and the poll loop
\* wakes up from its sleep.
FairSpec == Spec /\ \A c \in Caller : WF_vars(Advance(c))

-----------------------------------------------------------------------------
(* Properties.                                                             *)

\* A map from some members of S to answers.
IsMap(f, S) ==
  /\ DOMAIN f \subseteq S
  /\ f = [x \in DOMAIN f |-> f[x]]
  /\ \A x \in DOMAIN f : f[x] \in Answer

\* Every variable has its type (client.rs, server.rs).
TypeOK ==
  /\ call \in [Caller -> [pc : Phase, task : Nat, tries : Nat, epoch : Nat,
                          answer : Answer]]
  /\ cache = [k \in Client |-> cache[k]]
  /\ \A k \in Client : IsMap(cache[k], Mid)
  /\ IsMap(idem, Mid)
  /\ IsMap(tasks, Nat)
  /\ nextTask \in Nat
  /\ epoch \in Nat
  /\ bounds \in [calls : Nat, faults : Nat]
  /\ runs \in [Mid -> Nat]
  /\ excuses \in [Mid -> Nat]
  /\ given \subseteq Mid \X Answer

\* A caller is only ever given what a run of the handler for its own message
\* returned, replays, overlaps and restarts included, although the client does
\* not look at reply_to (PollFinds): no task id is used twice.
AnswerGenuine ==
  \A g \in given : g[2].mid = g[1] /\ g[2].run \in 1 .. runs[g[1]]

\* A post that was accepted can be polled until the server restarts, and what
\* is polled answers its message (post_task).
AcceptedPollable ==
  \A c \in Caller : At(c, "polling") /\ call[c].epoch = epoch =>
    /\ call[c].task \in DOMAIN tasks
    /\ tasks[call[c].task].mid = MidOf[c]

\* The handler of a message runs once, and once more at most for each start that
\* overlapped another, each run that failed or was dropped, and each restart of
\* the server: however often the message is posted, nothing else repeats it.
RunsExcused == \A m \in Mid : runs[m] <= 1 + excuses[m] + epoch

\* Every invocation ends, with an answer, an error or a timeout (invoke).
InvocationEnds == \A c \in Caller : ~At(c, "idle") ~> At(c, "idle")
==============================================================================
