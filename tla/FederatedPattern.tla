---------------------------- MODULE FederatedPattern ----------------------------
(***************************************************************************)
(* Federated patterns between Brains (neurogrim-a2a, federated_pattern.rs, *)
(* and the emit command of neurogrim-cli that drives it).                  *)
(*                                                                         *)
(* An emission takes one of the peer's permits, waits until the interval   *)
(* since the peer's last grant has passed, posts the message and gives the *)
(* permit back.  The receiver checks a message's structure, its own hash   *)
(* among the origins and the hops, then the sliding window of its          *)
(* originator, and last the kind of pattern.                               *)
(*                                                                         *)
(* Tasks share one limiter, as its documentation asks ("once per Brain     *)
(* instance"); the command is the case of one task.  Foreign messages are  *)
(* those of other Brains, relayed or newer ones included.  The ledger rows *)
(* the callers write are left out.                                         *)
(***************************************************************************)
EXTENDS Integers, Sequences, FiniteSets

CONSTANTS
  Task,        \* emissions under way at once
  Peer,
  Foreign,     \* originators other than this Brain
  Self,        \* this Brain's opaque hash
  MaxInflight, \* permits of a peer
  MinInterval, \* between the grants of a peer
  RecvMax,     \* messages of an originator in a window
  RecvWindow,
  MaxEmits,    \* bound: emissions
  MaxForeign,  \* bound: foreign messages
  MaxClock     \* bound: the clock

ASSUME FederatedAssumption ==
  /\ IsFiniteSet(Task)
  /\ Peer # {}
  /\ Self \notin Foreign
  /\ {MaxInflight, MinInterval, RecvMax} \subseteq Nat \ {0}
  /\ {RecvWindow, MaxEmits, MaxForeign, MaxClock} \subseteq Nat

VARIABLES
  clock,
  task,    \* per task, its emission
  permits, \* per peer, free permits
  last,    \* per peer, when its last permit was granted
  wire,    \* per peer, messages of this Brain posted and not yet handled
  window,  \* per receiver and originator, the receipts it counts
  emits,
  foreign,
  grants,  \* history: per peer, when each grant was made
  admits,  \* history: per receiver and originator, when each message was admitted
  drops    \* history: per rate drop, how many admissions lay within the window

vars == <<clock, task, permits, last, wire, window, emits, foreign, grants, admits, drops>>

Origin == Foreign \cup {Self}

Never == -1

Idle == [pc |-> "idle", peer |-> CHOOSE p \in Peer : TRUE, wake |-> 0]

At(t, pc) == task[t].pc = pc

Goto(t, pc) == task' = [task EXCEPT ![t].pc = pc]

Init ==
  /\ clock = 0
  /\ task = [t \in Task |-> Idle]
  /\ permits = [p \in Peer |-> MaxInflight]
  /\ last = [p \in Peer |-> Never]
  /\ wire = [p \in Peer |-> 0]
  /\ window = [p \in Peer |-> [o \in Origin |-> <<>>]]
  /\ emits = 0
  /\ foreign = 0
  /\ grants = [p \in Peer |-> <<>>]
  /\ admits = [p \in Peer |-> [o \in Origin |-> <<>>]]
  /\ drops = {}

-----------------------------------------------------------------------------
\* The sender.

\* A pass of the command's loop over its targets.  The opt-in and the payload's checks
\* hold of the cards and the payload the command builds.
Begin(t) ==
  /\ At(t, "idle")
  /\ emits < MaxEmits
  /\ emits' = emits + 1
  /\ \E p \in Peer : task' = [task EXCEPT ![t] = [Idle EXCEPT !.pc = "permit", !.peer = p]]
  /\ UNCHANGED <<clock, permits, last, wire, window, foreign, grants, admits, drops>>

\* last_emit_at becomes the present, and the emission goes on to send.
Grant(t) ==
  LET p == task[t].peer IN
  /\ last' = [last EXCEPT ![p] = clock]
  /\ grants' = [grants EXCEPT ![p] = Append(@, clock)]
  /\ Goto(t, "send")

Soon(p) == last[p] # Never /\ clock - last[p] < MinInterval

\* acquire_emit_permit: a permit of the peer's semaphore, and then a grant at once or
\* the rest of the interval as the time to sleep.  The lock on the last grant is held
\* across no await.
Acquire(t) ==
  LET p == task[t].peer IN
  /\ At(t, "permit")
  /\ permits[p] > 0
  /\ permits' = [permits EXCEPT ![p] = @ - 1]
  /\ \/ ~Soon(p) /\ Grant(t)
     \/ /\ Soon(p)
        /\ task' = [task EXCEPT ![t].pc = "sleep", ![t].wake = last[p] + MinInterval]
        /\ UNCHANGED <<last, grants>>
  /\ UNCHANGED <<clock, wire, window, emits, foreign, admits, drops>>

\* Seeded fault: the grant after a sleep is not recorded.
StampUnrecorded(t) ==
  LET p == task[t].peer IN
  /\ At(t, "sleep")
  /\ clock >= task[t].wake
  /\ grants' = [grants EXCEPT ![p] = Append(@, clock)]
  /\ Goto(t, "send")
  /\ UNCHANGED <<clock, permits, last, wire, window, emits, foreign, admits, drops>>

\* The sleep is over; the last grant is not looked at again.
Stamp(t) ==
  /\ At(t, "sleep")
  /\ clock >= task[t].wake
  /\ Grant(t)
  /\ UNCHANGED <<clock, permits, wire, window, emits, foreign, admits, drops>>

\* post_task: the peer gets the message, whether or not its answer comes back, or not.
Send(t) ==
  /\ At(t, "send")
  /\ Goto(t, "release")
  /\ \/ UNCHANGED wire
     \/ wire' = [wire EXCEPT ![task[t].peer] = @ + 1]
  /\ UNCHANGED <<clock, permits, last, window, emits, foreign, grants, admits, drops>>

\* Seeded fault: the permit is lost.
ReleaseLost(t) ==
  /\ At(t, "release")
  /\ task' = [task EXCEPT ![t] = Idle]
  /\ UNCHANGED <<clock, permits, last, wire, window, emits, foreign, grants, admits, drops>>

\* The permit is dropped with the call, after an error as after an answer.
Release(t) ==
  /\ At(t, "release")
  /\ permits' = [permits EXCEPT ![task[t].peer] = @ + 1]
  /\ task' = [task EXCEPT ![t] = Idle]
  /\ UNCHANGED <<clock, last, wire, window, emits, foreign, grants, admits, drops>>

-----------------------------------------------------------------------------
\* The receiver.

\* The receipts without those at the front that are older than the window.
Slide(receipts) ==
  LET stale == {n \in DOMAIN receipts : \A i \in 1 .. n : receipts[i] < clock - RecvWindow}
  IN  SubSeq(receipts, Cardinality(stale) + 1, Len(receipts))

\* Admissions that lie within the window that ends now.
Within(p, o) == Cardinality({i \in DOMAIN admits[p][o] : admits[p][o][i] >= clock - RecvWindow})

\* Seeded fault: a receipt that is dropped stays in the window.
AdmitCounting(p, o) ==
  LET kept == Append(Slide(window[p][o]), clock) IN
  /\ window' = [window EXCEPT ![p][o] = kept]
  /\ IF Len(kept) > RecvMax
     THEN /\ drops' = drops \cup {[peer |-> p, origin |-> o, within |-> Within(p, o)]}
          /\ UNCHANGED admits
     ELSE /\ admits' = [admits EXCEPT ![p][o] = Append(@, clock)]
          /\ UNCHANGED drops

\* admit_receipt: the receipt counts, unless the window is full without it.
Admit(p, o) ==
  LET kept == Slide(window[p][o]) IN
  \/ /\ Len(kept) + 1 > RecvMax
     /\ window' = [window EXCEPT ![p][o] = kept]
     /\ drops' = drops \cup {[peer |-> p, origin |-> o, within |-> Within(p, o)]}
     /\ UNCHANGED admits
  \/ /\ Len(kept) + 1 <= RecvMax
     /\ window' = [window EXCEPT ![p][o] = Append(kept, clock)]
     /\ admits' = [admits EXCEPT ![p][o] = Append(@, clock)]
     /\ UNCHANGED drops

\* A message of this Brain: its payload passes every check but the window's.
Receive(p) ==
  /\ wire[p] > 0
  /\ wire' = [wire EXCEPT ![p] = @ - 1]
  /\ Admit(p, Self)
  /\ UNCHANGED <<clock, task, permits, last, emits, foreign, grants>>

\* A payload that cannot be parsed or lacks a field, one that went round, one that went
\* too far: dropped before the window.
Refused == {"malformed", "looped", "far"}

\* A kind or a severity not known yet is dropped only after the window, and counts there
\* like a good message.
Counted == {"good", "newer"}

\* Another Brain's message, or this Brain's relayed.
ReceiveForeign(p) ==
  /\ foreign < MaxForeign
  /\ foreign' = foreign + 1
  /\ \E o \in Origin, kind \in Refused \cup Counted :
       \/ kind \in Refused /\ UNCHANGED <<window, admits, drops>>
       \/ kind \in Counted /\ Admit(p, o)
  /\ UNCHANGED <<clock, task, permits, last, wire, emits, grants>>

\* The clock runs past its bound only for those who sleep.
Tick ==
  /\ clock < MaxClock \/ \E t \in Task : At(t, "sleep") /\ clock < task[t].wake
  /\ clock' = clock + 1
  /\ UNCHANGED <<task, permits, last, wire, window, emits, foreign, grants, admits, drops>>

Emission(t) == Acquire(t) \/ Stamp(t) \/ Send(t) \/ Release(t)

Next ==
  \/ \E t \in Task : Begin(t) \/ Emission(t)
  \/ \E p \in Peer : Receive(p) \/ ReceiveForeign(p)
  \/ Tick

\* A task is polled once the await it stands at is ready: the permit, the end of the
\* sleep, the answer.  Time passes.  No emission has to begin.
Fairness ==
  /\ WF_vars(Tick)
  /\ \A t \in Task : WF_vars(Emission(t))

Spec == Init /\ [][Next]_vars /\ Fairness

-----------------------------------------------------------------------------
\* The limiter keeps the pace it can: in any stretch as long as the interval, a peer is
\* granted no more permits than there are, though sleepers do not look at the last grant
\* again and may be granted together.
GrantsPerInterval ==
  \A p \in Peer : \A i \in DOMAIN grants[p] :
    Cardinality({j \in DOMAIN grants[p] : grants[p][j] - grants[p][i] \in 0 .. MinInterval - 1}) <= MaxInflight

\* The receiver's quota is exact: no window holds more admissions of an originator than
\* RecvMax, and a message was dropped for the rate only when that many of them lay
\* within the window, so that drops never prolong a lockout.
QuotaExact ==
  /\ \A p \in Peer, o \in Origin : \A i \in DOMAIN admits[p][o] :
       Cardinality({j \in DOMAIN admits[p][o] : admits[p][o][j] - admits[p][o][i] \in 0 .. RecvWindow}) <= RecvMax
  /\ \A d \in drops : d.within >= RecvMax

\* An emission ends, whatever its sending comes to: permits come back, sleepers wake.
EmissionEnds == \A t \in Task : ~At(t, "idle") ~> At(t, "idle")

=============================================================================
