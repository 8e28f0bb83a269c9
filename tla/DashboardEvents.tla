--------------------------- MODULE DashboardEvents ---------------------------
(***************************************************************************)
(* The dashboard's file watcher (neurogrim-dashboard, events.rs) and its   *)
(* broadcast channel of 64 events.  A change below .claude reaches the     *)
(* watcher's unbounded queue, is classified, and is sent to every task     *)
(* subscribed to the channel.  A receiver that is more than the channel's  *)
(* capacity behind gets an error instead of an event, and the background   *)
(* tasks, which loop while they receive an event, end there.               *)
(*                                                                         *)
(* The events told apart are the change of queue-config.yaml and any other.*)
(***************************************************************************)
EXTENDS Naturals, Sequences

CONSTANTS
  Capacity, \* of the broadcast channels
  MaxEvents \* bound: changes of files

ASSUME EventsAssumption == Capacity \in Nat \ {0} /\ MaxEvents \in Nat

VARIABLES
  changes, \* the watcher's queue: files that changed
  events   \* everything sent on the broadcast channel

eventVars == <<changes, events>>

EventsInit == changes = <<>> /\ events = <<>>

\* classify_event: what a changed file tells the dashboard, if anything.
Meaning ==
  [f \in {"queue-config", "registry", "cmdb", "scratch"} |->
     CASE f = "queue-config" -> <<"QueueConfigChanged">>
       [] f = "registry" -> <<"RegistryChanged">>
       [] f = "cmdb" -> <<"ScoreChanged">>
       [] f = "scratch" -> <<>>]

\* A file below .claude changes; the operating system tells the watcher.
FileChanged(f) ==
  /\ Len(changes) + Len(events) < MaxEvents
  /\ changes' = Append(changes, f)
  /\ UNCHANGED events

\* The watcher's task takes a change from its queue and broadcasts what it means.
Forward ==
  /\ changes # <<>>
  /\ changes' = Tail(changes)
  /\ events' = events \o Meaning[Head(changes)]

\* A receiver that has taken n messages of a channel has lost one unread.
Lagged(channel, n) == Len(channel) - n > Capacity

\* recv: the next message of a channel.
Unread(channel, n) == n < Len(channel) /\ ~Lagged(channel, n)
==============================================================================
