---------------------------- MODULE SensorBroker -----------------------------
(***************************************************************************)
(* A sensor wrapped as a broker (neurogrim-brokers, sensory.rs) and the    *)
(* sensory queue's enforcer in front of it (sensory_queue.rs): run-sensor  *)
(* analyses the project, passes the enforcer if one is wired, and publishes*)
(* the envelope.  Runs overlap; neither the run count nor the published    *)
(* envelope is behind a lock.                                              *)
(*                                                                         *)
(* An envelope is the number of the run that made it; 0 is the Null of a   *)
(* broker that has not run.  An admission is its instant and which one of  *)
(* that instant it is; the window, whose order nothing looks at, is a set. *)
(***************************************************************************)
EXTENDS Naturals, Sequences, FiniteSets, BrokerClients

CONSTANTS
  Window,    \* RateLimitConfig.window, in ticks of the clock
  MaxWrites, \* RateLimitConfig.max_writes_per_window
  MaxClock   \* bound: ticks

ASSUME SensorAssumption ==
  /\ Window \in Nat \ {0}
  /\ MaxWrites \in Nat
  /\ MaxClock \in Nat

VARIABLES
  enforced,  \* whether an enforcer is wired (extension-loaded sensors)
  clock,     \* Instant::now
  window,    \* SlidingWindow.write_timestamps
  sense,     \* the published overlay: envelope and run_count
  run,       \* per client, its run_sensor leaf
  nextRun,   \* source of fresh run numbers
  fit,       \* history: envelopes that satisfy cmdb-envelope-v1
  admitted,  \* history: the admissions
  overtaken  \* history: admissions with an instant older than an earlier one's

sensorVars == <<enforced, clock, window, sense, run, nextRun, fit, admitted, overtaken>>

NoRun == [pc |-> "idle", env |-> 0, now |-> 0, count |-> 0]

RunAt(c, pc) == run[c].pc = pc

RunTo(c, pc) == run' = [run EXCEPT ![c].pc = pc]

SensorBoot ==
  /\ window' = {}
  /\ sense' = [env |-> 0, count |-> 0]
  /\ run' = [c \in Client |-> NoRun]
  /\ admitted' = {}
  /\ overtaken' = 0
  /\ UNCHANGED <<enforced, clock, nextRun, fit>>

SensorInit ==
  /\ enforced \in BOOLEAN
  /\ clock = 0
  /\ window = {}
  /\ sense = [env |-> 0, count |-> 0]
  /\ run = [c \in Client |-> NoRun]
  /\ nextRun = 1
  /\ fit = {}
  /\ admitted = {}
  /\ overtaken = 0

StartRun(c) ==
  /\ RunAt(c, "idle")
  /\ RunTo(c, "analyze")
  /\ UNCHANGED <<enforced, clock, window, sense, nextRun, fit, admitted, overtaken>>

\* Sensor::analyze returns an envelope, which satisfies the schema or not.
Analyze(c) ==
  /\ RunAt(c, "analyze")
  /\ run' = [run EXCEPT ![c].env = nextRun,
                        ![c].pc = IF enforced THEN "instant" ELSE "load"]
  /\ nextRun' = nextRun + 1
  /\ fit' \in IF enforced THEN {fit, fit \cup {nextRun}} ELSE {fit}
  /\ UNCHANGED <<enforced, clock, window, sense, admitted, overtaken>>

\* ... or fails.
FailAnalyze(c) ==
  /\ RunAt(c, "analyze")
  /\ run' = [run EXCEPT ![c] = NoRun]
  /\ UNCHANGED <<enforced, clock, window, sense, nextRun, fit, admitted, overtaken>>

\* enforce takes the instant before it locks the windows.
TakeInstant(c) ==
  /\ RunAt(c, "instant")
  /\ run' = [run EXCEPT ![c].now = clock, ![c].pc = "enforce"]
  /\ UNCHANGED <<enforced, clock, window, sense, nextRun, fit, admitted, overtaken>>

Recent(now) == {a \in window : a.at + Window > now}

\* Seeded fault: a slot is free until the window is past its limit.
HasRoomLate(now) == Cardinality(Recent(now)) <= MaxWrites

HasRoom(now) == Cardinality(Recent(now)) < MaxWrites

Admission(now) == [at |-> now, nth |-> Cardinality({a \in admitted : a.at = now}) + 1]

Validates(env) == env \in fit

\* enforce under the lock: try_write prunes the window and takes a slot if one is
\* free; the schema is checked afterwards, and a refused payload keeps its slot.
Enforce(c) ==
  LET now == run[c].now IN
  /\ RunAt(c, "enforce")
  /\ HasRoom(now)
  /\ window' = Recent(now) \cup {Admission(now)}
  /\ admitted' = admitted \cup {Admission(now)}
  /\ overtaken' = IF \E a \in admitted : a.at > now
                  THEN overtaken + 1 ELSE overtaken
  /\ run' = IF Validates(run[c].env) THEN [run EXCEPT ![c].pc = "load"]
                                     ELSE [run EXCEPT ![c] = NoRun]
  /\ UNCHANGED <<enforced, clock, sense, nextRun, fit>>

RefuseWrite(c) ==
  LET now == run[c].now IN
  /\ RunAt(c, "enforce")
  /\ ~HasRoom(now)
  /\ window' = Recent(now)
  /\ run' = [run EXCEPT ![c] = NoRun]
  /\ UNCHANGED <<enforced, clock, sense, nextRun, fit, admitted, overtaken>>

\* The overlay is loaded for its run count ...
LoadOverlay(c) ==
  /\ RunAt(c, "load")
  /\ run' = [run EXCEPT ![c].count = sense.count, ![c].pc = "swap"]
  /\ UNCHANGED <<enforced, clock, window, sense, nextRun, fit, admitted, overtaken>>

\* ... and the new one stored.
SwapOverlay(c) ==
  /\ RunAt(c, "swap")
  /\ sense' = [env |-> run[c].env, count |-> run[c].count + 1]
  /\ RunTo(c, "end")
  /\ UNCHANGED <<enforced, clock, window, nextRun, fit, admitted, overtaken>>

\* The dispatch has succeeded and returns to its caller.
EndRun(c) ==
  /\ RunAt(c, "end")
  /\ run' = [run EXCEPT ![c] = NoRun]
  /\ UNCHANGED <<enforced, clock, window, sense, nextRun, fit, admitted, overtaken>>

SensorStep(c) ==
  \/ Analyze(c) \/ FailAnalyze(c)
  \/ TakeInstant(c) \/ Enforce(c) \/ RefuseWrite(c)
  \/ LoadOverlay(c) \/ SwapOverlay(c)

ClockTicks ==
  /\ clock < MaxClock
  /\ clock' = clock + 1
  /\ UNCHANGED <<enforced, window, sense, run, nextRun, fit, admitted, overtaken>>

-----------------------------------------------------------------------------

SensorTypeOK ==
  /\ enforced \in BOOLEAN
  /\ clock \in 0..MaxClock
  /\ window \subseteq admitted
  /\ sense \in [env : Nat, count : Nat]
  /\ run \in [Client -> [pc : {"idle", "analyze", "instant", "enforce", "load", "swap", "end"},
                         env : Nat, now : 0..MaxClock, count : Nat]]
  /\ nextRun \in Nat \ {0}
  /\ fit \subseteq 1..nextRun - 1
  /\ admitted \subseteq [at : 0..MaxClock, nth : Nat \ {0}]
  /\ overtaken \in Nat

AdmittedUpTo(t) == {a \in admitted : a.at <= t /\ a.at + Window > t}

(* The sliding window holds: between any two instants less than Window apart at  *)
(* most MaxWrites writes were admitted, and one more for each admission whose    *)
(* instant, taken before the lock, a later one had overtaken                     *)
(* (sensory_queue.rs:175-189).                                                   *)
WritesPerWindow ==
  \A t \in 0..MaxClock :
    Cardinality(AdmittedUpTo(t)) <= MaxWrites + overtaken
==============================================================================
