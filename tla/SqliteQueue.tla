----------------------------- MODULE SqliteQueue -----------------------------
(***************************************************************************)
(* One SQLite topic (SqliteBackend in neurogrim-core/src/queue_backend.rs) *)
(* with the consumers its trait is written for: members of consumer groups *)
(* that read what their group has not acked, handle it and ack it, and a   *)
(* reader that resumes from its own offset.  Each method holds the         *)
(* connection's mutex and is one transaction; what a message says is left  *)
(* out, a row is its offset.                                               *)
(***************************************************************************)
EXTENDS Integers, Sequences, FiniteSets

CONSTANTS
  Group,       \* consumer groups
  Member,      \* consumer processes
  GroupOf,     \* the group of each
  Limit,       \* how many messages a read returns at most
  MaxRows,     \* bound: how many messages are published
  MaxFaults    \* bound: how many times a member dies or fails a message

ASSUME SqliteAssumption ==
  /\ IsFiniteSet(Member)
  /\ GroupOf \in [Member -> Group]
  /\ Limit \in Nat \ {0}
  /\ MaxRows \in Nat
  /\ MaxFaults \in Nat

VARIABLES
  top,         \* the last AUTOINCREMENT offset: the rows are 1 .. top
  acks,        \* the acks table: per group, the acked offsets
  batch,       \* per member, what its last read returned and it has not acked
  stage,       \* per member, whether the first of its batch is handled
  count,       \* per group and offset, how often the group handled the message
  reader,      \* the resuming reader: its next offset and what it was given
  faults       \* how many times a member died or failed a message

vars == <<top, acks, batch, stage, count, reader, faults>>

Rows == 1 .. top

Init ==
  /\ top = 0
  /\ acks = [g \in Group |-> {}]
  /\ batch = [w \in Member |-> <<>>]
  /\ stage = [w \in Member |-> "read"]
  /\ count = [g \in Group |-> [o \in 1 .. MaxRows |-> 0]]
  /\ reader = [next |-> 0, given |-> {}]
  /\ faults = 0

\* append: INSERT, whose rowid is the offset.
Publish ==
  /\ top < MaxRows
  /\ top' = top + 1
  /\ UNCHANGED <<acks, batch, stage, count, reader, faults>>

\* The pages of the first n of the offsets in S, in ascending order; there is one.
First(S, n) ==
  {page \in [1 .. (IF Cardinality(S) < n THEN Cardinality(S) ELSE n) -> S] :
     /\ \A i, j \in DOMAIN page : i < j => page[i] < page[j]
     /\ \A i \in DOMAIN page : \A o \in S : o < page[i] => \E j \in DOMAIN page : page[j] = o}

\* Seeded fault: everything up to MAX(offset) taken for acked.
UnackedAboveLast(g) == {o \in Rows : \A p \in acks[g] : o > p}

Unacked(g) == {o \in Rows : o \notin acks[g]}

\* read_unacked: the rows are not claimed, another member may be given the same.
ReadUnacked(w) ==
  /\ batch[w] = <<>>
  /\ Unacked(GroupOf[w]) # {}
  /\ \E page \in First(Unacked(GroupOf[w]), Limit) : batch' = [batch EXCEPT ![w] = page]
  /\ stage' = [stage EXCEPT ![w] = "read"]
  /\ UNCHANGED <<top, acks, count, reader, faults>>

HandleFirst(w) ==
  /\ batch[w] # <<>>
  /\ stage[w] = "read"
  /\ count' = [count EXCEPT ![GroupOf[w]][Head(batch[w])] = @ + 1]
  /\ stage' = [stage EXCEPT ![w] = "handled"]
  /\ UNCHANGED <<top, acks, batch, reader, faults>>

\* Seeded faults: an ack settles the offsets before it as well, or is lost.
AckUpTo(g, o) == /\ o \in Rows
                 /\ acks' = [acks EXCEPT ![g] = @ \cup 1 .. o]
AckIgnored(g, o) == /\ o \in Rows
                    /\ acks' = acks

\* ack: refused for an offset with no row, otherwise INSERT OR IGNORE.
Ack(g, o) == /\ o \in Rows
             /\ acks' = [acks EXCEPT ![g] = @ \cup {o}]

AckFirst(w) ==
  /\ batch[w] # <<>>
  /\ stage[w] = "handled"
  /\ Ack(GroupOf[w], Head(batch[w]))
  /\ batch' = [batch EXCEPT ![w] = Tail(@)]
  /\ stage' = [stage EXCEPT ![w] = "read"]
  /\ UNCHANGED <<top, count, reader, faults>>

\* A member fails to handle a message: it leaves it unacked and goes on.
SkipFirst(w) ==
  /\ batch[w] # <<>>
  /\ stage[w] = "read"
  /\ faults < MaxFaults
  /\ faults' = faults + 1
  /\ batch' = [batch EXCEPT ![w] = Tail(@)]
  /\ UNCHANGED <<top, acks, stage, count, reader>>

\* A member dies with its batch and starts over.
CrashMember(w) ==
  /\ batch[w] # <<>>
  /\ faults < MaxFaults
  /\ faults' = faults + 1
  /\ batch' = [batch EXCEPT ![w] = <<>>]
  /\ stage' = [stage EXCEPT ![w] = "read"]
  /\ UNCHANGED <<top, acks, count, reader>>

\* Seeded fault: WHERE offset > since.
FromAfter(since) == {o \in Rows : o > since}

\* read_from: WHERE offset >= since ORDER BY offset LIMIT; the reader goes on
\* one past the last offset it was given.
From(since) == {o \in Rows : o >= since}

ReadOn ==
  /\ \E page \in First(From(reader.next), Limit) :
       /\ page # <<>>
       /\ reader' = [next  |-> page[Len(page)] + 1,
                     given |-> reader.given \cup {page[i] : i \in DOMAIN page}]
  /\ UNCHANGED <<top, acks, batch, stage, count, faults>>

Work(w) == ReadUnacked(w) \/ HandleFirst(w) \/ AckFirst(w)

Next == Publish \/ ReadOn \/ \E w \in Member : Work(w) \/ SkipFirst(w) \/ CrashMember(w)

Spec == Init /\ [][Next]_vars

\* A live consumer keeps taking its next step.
FairSpec == Spec /\ \A w \in Member : WF_vars(Work(w))

-----------------------------------------------------------------------------
(* Properties. *)

\* Every variable has its type, and what a member holds is a row (queue_backend.rs).
TypeOK ==
  /\ top \in 0 .. MaxRows
  /\ acks \in [Group -> SUBSET Rows]
  /\ batch \in [Member -> Seq(Rows)]
  /\ stage \in [Member -> {"read", "handled"}]
  /\ count \in [Group -> [1 .. MaxRows -> Nat]]
  /\ reader \in [next : Nat, given : SUBSET Rows]
  /\ faults \in 0 .. MaxFaults

\* The members of a group handle a message at most once each, and once more for
\* each time a member died: an acked message is not handed out again.
HandledBounded ==
  \A g \in Group, o \in 1 .. MaxRows :
    count[g][o] <= Cardinality({w \in Member : GroupOf[w] = g}) + faults

\* The reader that goes on after the last offset it was given misses no row.
ReaderMissesNothing == \A o \in Rows : o < reader.next => o \in reader.given

\* The topic keeps the promise of AtLeastOnce: a group's acks settle only what
\* the group has handled, offsets have no gaps, nothing is taken back.
Promise == INSTANCE AtLeastOnce WITH
  handled <- [g \in Group |-> {o \in 1 .. MaxRows : count[g][o] > 0}],
  settled <- acks
KeepsPromise == Promise!LogSpec

\* Every message is acked by every group in the end, whatever batches overlap,
\* members die and messages fail, as long as the group's members keep working.
EventuallyAcked ==
  \A g \in Group, o \in 1 .. MaxRows : (o \in Rows) ~> (o \in acks[g])

==============================================================================
