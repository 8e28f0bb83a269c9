------------------------------ MODULE Services -------------------------------
(***************************************************************************)
(* The dashboard's service lifecycle (neurogrim-dashboard, services.rs and *)
(* the start and stop handlers of routes.rs).  A start checks the registry *)
(* of handles, finds a port, probes it, spawns a child and inserts its     *)
(* handle under the peer's name; a readiness watcher then polls the child  *)
(* and the port, and removes the handle when it gives up.  A stop removes  *)
(* the handle and kills the child.  Outcomes go to the service log, whose  *)
(* first write in a project copies the legacy log.                         *)
(*                                                                         *)
(* Children outlive a restart of the dashboard, their handles do not.  The *)
(* disk does not fail: a log write that fails loses its entry.             *)
(***************************************************************************)
EXTENDS Naturals, Sequences, FiniteSets

CONSTANTS
  Peer,
  Port,      \* the range ports are allocated from
  NoPort,
  Request,   \* requests under way at once
  MaxSpawns, \* bound: children spawned
  MaxPolls,  \* polls of a watcher before its timeout
  MaxCrashes \* bound: restarts of the dashboard

ASSUME ServicesAssumption ==
  /\ Peer # {}
  /\ NoPort \notin Port
  /\ {MaxSpawns, MaxPolls, MaxCrashes} \subseteq Nat

VARIABLES
  handles, \* the registry: per peer, the child tracked, or 0
  ports,   \* per peer, its ports.json
  req,     \* per request, where it is and what it holds
  proc,    \* per child: its peer, its port, whether it runs
  watch,   \* per child, its readiness watcher
  ledger,  \* the service log: its file exists, copies of the legacy log in it
  log,     \* the entries this session wrote to it: kind and child
  born,    \* children of this session of the dashboard
  crashes,
  cut      \* history: a crash hit a first write before it had migrated

serviceVars == <<handles, ports, req, proc, watch, ledger, log, born, crashes, cut>>

Pid == 1 .. MaxSpawns

NoRequest == [pc |-> "idle", peer |-> CHOOSE p \in Peer : TRUE, port |-> NoPort, pid |-> 0, kind |-> "none"]

NoWatch == [pc |-> "off", polls |-> 0, kind |-> "none"]

Spawned == DOMAIN proc

Live(k) == proc[k].st \in {"starting", "bound"}

\* try_bind fails: somebody listens.
Bound(q) == \E k \in Spawned : proc[k].st = "bound" /\ proc[k].port = q

At(r, pc) == req[r].pc = pc

Goto(r, pc) == req' = [req EXCEPT ![r].pc = pc]

Done(r) == req' = [req EXCEPT ![r] = NoRequest]

WatchAt(k, pc) == k \in Spawned /\ watch[k].pc = pc

WatchGoto(k, pc) == watch' = [watch EXCEPT ![k].pc = pc]

ServicesInit ==
  /\ handles = [p \in Peer |-> 0]
  /\ ports = [p \in Peer |-> NoPort]
  /\ req = [r \in Request |-> NoRequest]
  /\ proc = <<>>
  /\ watch = [k \in Pid |-> NoWatch]
  /\ ledger = [exists |-> FALSE, copies |-> 0]
  /\ log = {}
  /\ born = {}
  /\ crashes = 0
  /\ cut = FALSE

-----------------------------------------------------------------------------
\* The service log.

\* Seeded fault: the database is opened before its file is looked for.
WriteStepOpened(pc, next, kind, k) ==
  /\ pc = "log" /\ next = "idle"
  /\ ledger' = [ledger EXCEPT !.exists = TRUE]
  /\ log' = log \cup {<<kind, k>>}

\* append_service_event: with the file there, an entry is appended.  Without it, the
\* migration is decided on, then opening the database creates the file, and then the
\* legacy log is copied and the entry appended.
WriteStep(pc, next, kind, k) ==
  \/ /\ pc = "log" /\ ledger.exists /\ next = "idle"
     /\ log' = log \cup {<<kind, k>>}
     /\ UNCHANGED ledger
  \/ /\ pc = "log" /\ ~ledger.exists /\ next = "open"
     /\ UNCHANGED <<ledger, log>>
  \/ /\ pc = "open" /\ next = "migrate"
     /\ ledger' = [ledger EXCEPT !.exists = TRUE]
     /\ UNCHANGED log
  \/ /\ pc = "migrate" /\ next = "idle"
     /\ ledger' = [ledger EXCEPT !.copies = @ + 1]
     /\ log' = log \cup {<<kind, k>>}

Writing == {"log", "open", "migrate"}

RequestWrite(r) ==
  /\ \E next \in Writing \cup {"idle"} :
       /\ WriteStep(req[r].pc, next, req[r].kind, req[r].pid)
       /\ IF next = "idle" THEN Done(r) ELSE Goto(r, next)
  /\ UNCHANGED <<handles, ports, proc, watch, born, crashes, cut>>

WatchWrite(k) ==
  /\ \E next \in Writing \cup {"idle"} :
       /\ WriteStep(watch[k].pc, next, watch[k].kind, k)
       /\ watch' = IF next = "idle" THEN [watch EXCEPT ![k] = NoWatch]
                   ELSE [watch EXCEPT ![k].pc = next]
  /\ UNCHANGED <<handles, ports, req, proc, born, crashes, cut>>

-----------------------------------------------------------------------------
\* brain_peer_start.

\* A peer that is tracked is answered with 409.
StartCheck(r) ==
  /\ At(r, "idle")
  /\ Len(proc) < MaxSpawns
  /\ \E p \in Peer :
       /\ handles[p] = 0
       /\ req' = [req EXCEPT ![r] = [NoRequest EXCEPT !.pc = "port", !.peer = p]]
  /\ UNCHANGED <<handles, ports, proc, watch, ledger, log, born, crashes, cut>>

\* read_ports, or allocate's choice of a free port ...
StartPort(r) ==
  /\ At(r, "port")
  /\ LET q == ports[req[r].peer]
     IN \/ q # NoPort /\ req' = [req EXCEPT ![r].pc = "probe", ![r].port = q]
        \/ /\ q = NoPort
           /\ \E f \in Port : ~Bound(f) /\ req' = [req EXCEPT ![r].pc = "save", ![r].port = f]
  /\ UNCHANGED <<handles, ports, proc, watch, ledger, log, born, crashes, cut>>

\* ... which save_ports renames over the peer's file.
StartSave(r) ==
  /\ At(r, "save")
  /\ ports' = [ports EXCEPT ![req[r].peer] = req[r].port]
  /\ Goto(r, "probe")
  /\ UNCHANGED <<handles, proc, watch, ledger, log, born, crashes, cut>>

StartProbe(r) ==
  /\ At(r, "probe")
  /\ req' = IF Bound(req[r].port) THEN [req EXCEPT ![r].pc = "log", ![r].kind = "failed"]
            ELSE [req EXCEPT ![r].pc = "spawn"]
  /\ UNCHANGED <<handles, ports, proc, watch, ledger, log, born, crashes, cut>>

\* The child's log file cannot be made, or the child not be spawned: nothing is logged.
StartFail(r) ==
  /\ At(r, "spawn")
  /\ Done(r)
  /\ UNCHANGED <<handles, ports, proc, watch, ledger, log, born, crashes, cut>>

StartSpawn(r) ==
  /\ At(r, "spawn")
  /\ Len(proc) < MaxSpawns
  /\ LET k == Len(proc) + 1
     IN /\ proc' = Append(proc, [peer |-> req[r].peer, port |-> req[r].port, st |-> "starting"])
        /\ req' = [req EXCEPT ![r].pc = "insert", ![r].pid = k]
        /\ born' = born \cup {k}
  /\ UNCHANGED <<handles, ports, watch, ledger, log, crashes, cut>>

\* ServiceRegistry::insert overwrites; the watcher is spawned and the request answered.
StartInsert(r) ==
  /\ At(r, "insert")
  /\ handles' = [handles EXCEPT ![req[r].peer] = req[r].pid]
  /\ watch' = [watch EXCEPT ![req[r].pid].pc = "poll"]
  /\ Done(r)
  /\ UNCHANGED <<ports, proc, ledger, log, born, crashes, cut>>

-----------------------------------------------------------------------------
\* run_readiness_watcher, for child k.

WatchPoll(k) ==
  /\ WatchAt(k, "poll")
  /\ IF Live(k) THEN WatchGoto(k, "probe") /\ UNCHANGED proc
     ELSE WatchGoto(k, "remove") /\ proc' = [proc EXCEPT ![k].st = "reaped"]
  /\ UNCHANGED <<handles, ports, req, ledger, log, born, crashes, cut>>

\* The child exited during startup: whatever the peer's name stands for is removed.
WatchRemove(k) ==
  /\ WatchAt(k, "remove")
  /\ handles' = [handles EXCEPT ![proc[k].peer] = 0]
  /\ watch' = [watch EXCEPT ![k].pc = "log", ![k].kind = "failed"]
  /\ UNCHANGED <<ports, req, proc, ledger, log, born, crashes, cut>>

\* Seeded fault: the timeout is never reached.
WatchProbeForever(k) ==
  /\ WatchAt(k, "probe")
  /\ IF Bound(proc[k].port)
     THEN watch' = [watch EXCEPT ![k].pc = "log", ![k].kind = "started"]
     ELSE WatchGoto(k, "poll")
  /\ UNCHANGED <<handles, ports, req, proc, ledger, log, born, crashes, cut>>

\* Somebody listens on the port, or it is time to poll again, or too late.
WatchProbe(k) ==
  /\ WatchAt(k, "probe")
  /\ \/ /\ Bound(proc[k].port)
        /\ watch' = [watch EXCEPT ![k].pc = "log", ![k].kind = "started"]
     \/ /\ ~Bound(proc[k].port) /\ watch[k].polls < MaxPolls
        /\ watch' = [watch EXCEPT ![k].pc = "poll", ![k].polls = @ + 1]
     \/ ~Bound(proc[k].port) /\ WatchGoto(k, "timeout")
  /\ UNCHANGED <<handles, ports, req, proc, ledger, log, born, crashes, cut>>

\* Seeded fault: the timeout forgets the child and lets it run.
WatchTimeoutSpares(k) ==
  /\ WatchAt(k, "timeout")
  /\ handles' = [handles EXCEPT ![proc[k].peer] = 0]
  /\ watch' = [watch EXCEPT ![k].pc = "log", ![k].kind = "failed"]
  /\ UNCHANGED <<ports, req, proc, ledger, log, born, crashes, cut>>

\* The timeout removes whatever the peer's name stands for, and kills that.
WatchTimeout(k) ==
  /\ WatchAt(k, "timeout")
  /\ LET t == handles[proc[k].peer]
     IN /\ handles' = [handles EXCEPT ![proc[k].peer] = 0]
        /\ proc' = IF t # 0 /\ Live(t) THEN [proc EXCEPT ![t].st = "exited"] ELSE proc
  /\ watch' = [watch EXCEPT ![k].pc = "log", ![k].kind = "failed"]
  /\ UNCHANGED <<ports, req, ledger, log, born, crashes, cut>>

Watch(k) == WatchPoll(k) \/ WatchRemove(k) \/ WatchProbe(k) \/ WatchTimeout(k) \/ WatchWrite(k)

-----------------------------------------------------------------------------
\* brain_peer_stop.

\* A peer that is not tracked is answered with 409.
StopRemove(r) ==
  /\ At(r, "idle")
  /\ \E p \in Peer :
       /\ handles[p] # 0
       /\ req' = [req EXCEPT ![r] = [NoRequest EXCEPT !.pc = "kill", !.peer = p, !.pid = handles[p]]]
       /\ handles' = [handles EXCEPT ![p] = 0]
  /\ UNCHANGED <<ports, proc, watch, ledger, log, born, crashes, cut>>

\* Seeded fault: the child is killed after the answer and its log entry.
StopKillLater(r) ==
  /\ At(r, "kill")
  /\ LET k == req[r].pid
     IN req' = [req EXCEPT ![r].pc = "log",
                  ![r].kind = IF proc[k].st = "reaped" THEN "failed" ELSE "stopped"]
  /\ UNCHANGED <<handles, ports, proc, watch, ledger, log, born, crashes, cut>>

\* Child::kill waits for the child; it fails for one that a watcher has reaped.
StopKill(r) ==
  /\ At(r, "kill")
  /\ LET k == req[r].pid
     IN /\ req' = [req EXCEPT ![r].pc = "log",
                     ![r].kind = IF proc[k].st = "reaped" THEN "failed" ELSE "stopped"]
        /\ proc' = [proc EXCEPT ![k].st = "reaped"]
  /\ UNCHANGED <<handles, ports, watch, ledger, log, born, crashes, cut>>

-----------------------------------------------------------------------------
\* Children and the dashboard's process.

Bind(k) ==
  /\ k \in Spawned /\ proc[k].st = "starting"
  /\ ~Bound(proc[k].port)
  /\ proc' = [proc EXCEPT ![k].st = "bound"]
  /\ UNCHANGED <<handles, ports, req, watch, ledger, log, born, crashes, cut>>

\* A child ends, because it could not bind or for a reason of its own.
Exit(k) ==
  /\ k \in Spawned /\ Live(k)
  /\ proc' = [proc EXCEPT ![k].st = "exited"]
  /\ UNCHANGED <<handles, ports, req, watch, ledger, log, born, crashes, cut>>

\* The dashboard restarts; nothing kills the children, and init reaps the dead.
Crash ==
  /\ crashes < MaxCrashes
  /\ crashes' = crashes + 1
  /\ handles' = [p \in Peer |-> 0]
  /\ req' = [r \in Request |-> NoRequest]
  /\ watch' = [k \in Pid |-> NoWatch]
  /\ born' = {}
  /\ log' = {}
  /\ proc' = [k \in Spawned |-> IF Live(k) THEN proc[k] ELSE [proc[k] EXCEPT !.st = "reaped"]]
  /\ cut' = (cut \/ (ledger.exists /\ ledger.copies = 0))
  /\ UNCHANGED <<ports, ledger>>

Start(r) ==
  \/ StartCheck(r) \/ StartPort(r) \/ StartSave(r) \/ StartProbe(r)
  \/ StartFail(r) \/ StartSpawn(r) \/ StartInsert(r)

Stop(r) == StopRemove(r) \/ StopKill(r)

ServicesNext ==
  \/ \E r \in Request : Start(r) \/ Stop(r) \/ RequestWrite(r)
  \/ \E k \in Pid : Watch(k) \/ Bind(k) \/ Exit(k)
  \/ Crash

\* The watchers are tasks of the runtime; requests are answered once begun, which no
\* property needs.
ServicesSpec == ServicesInit /\ [][ServicesNext]_serviceVars /\ \A k \in Pid : WF_serviceVars(Watch(k))

-----------------------------------------------------------------------------
ServicesTypeOK ==
  /\ handles \in [Peer -> {0} \cup Spawned]
  /\ ports \in [Peer -> Port \cup {NoPort}]
  /\ proc \in Seq([peer : Peer, port : Port, st : {"starting", "bound", "exited", "reaped"}])
  /\ Len(proc) <= MaxSpawns
  /\ ledger \in [exists : BOOLEAN, copies : Nat]
  /\ log \subseteq {"started", "failed", "stopped"} \X ({0} \cup Spawned)
  /\ born \subseteq Spawned

\* A child that the service log calls stopped has ended, whoever else held its handle
\* (routes.rs, brain_peer_stop).
StoppedIsDead == \A k \in Pid : <<"stopped", k>> \in log => ~Live(k)

InHand(k) == \E r \in Request : req[r].pid = k /\ req[r].pc \in {"insert", "kill"}

\* A child that is the only one this session spawned for its peer is tracked while it
\* runs, or in the hands of the request that starts or stops it: its handle is only
\* lost to another child of the same name (routes.rs, run_readiness_watcher).
SoleSpawnTracked ==
  \A k \in born :
    Live(k) /\ (\A j \in born : proc[j].peer = proc[k].peer => j = k)
      => handles[proc[k].peer] = k \/ InHand(k)

\* Once the service log exists and no first write is under way, it holds the legacy
\* log, unless the dashboard ended within the first write (services.rs,
\* append_service_event).
HistoryKept ==
  ledger.exists /\ (\A r \in Request : ~At(r, "migrate")) /\ (\A k \in Pid : watch[k].pc # "migrate")
    => ledger.copies > 0 \/ cut

Resolved ==
  \A k \in born :
    \/ \E r \in Request : At(r, "insert") /\ req[r].pid = k
    \/ {<<"started", k>>, <<"failed", k>>} \cap log # {}

\* Every child that was inserted comes to an entry in the log, started or failed, unless
\* the dashboard restarts: its watcher ends, if only by the timeout (routes.rs,
\* run_readiness_watcher).
StartupResolved == <>[]Resolved

\* services.rs calls the registry "every service currently running under the
\* dashboard's supervision": what this session spawned and runs is tracked while no
\* request or watcher is under way.
EveryRunningTracked ==
  (\A r \in Request : At(r, "idle")) /\ (\A k \in Pid : watch[k].pc = "off") =>
    \A k \in born : Live(k) => handles[proc[k].peer] = k
=============================================================================
