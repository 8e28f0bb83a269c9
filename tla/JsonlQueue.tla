----------------------------- MODULE JsonlQueue -----------------------------
(***************************************************************************)
(* One JSONL topic of the event log (neurogrim-core/src/queue.rs): several *)
(* processes append to the file without a lock, readers parse it from      *)
(* their own offset, and an operator's `queue compact` rewrites it through *)
(* a temporary file and a rename.  The file is the inode the topic's name  *)
(* points to: a line appended through a descriptor of a file that was      *)
(* renamed over is gone.                                                   *)
(***************************************************************************)
EXTENDS Integers, Sequences, FiniteSets

CONSTANTS
  Msgs,           \* the messages ever appended, each by one append call
  Expirable,      \* those with an expires_at
  MaxMessages,    \* RetentionPolicy::max_messages of the compactions
  Compactions,    \* bound: how many compactions are started
  Crashes         \* bound: how many writers or compactions are cut off

ASSUME QueueAssumption ==
  /\ Expirable \subseteq Msgs
  /\ MaxMessages \in Nat
  /\ Compactions \in Nat
  /\ Crashes \in Nat

VARIABLES
  file,       \* the live file: finished lines, and the text after the last newline
  inode,      \* which file the topic's name points to, 0 while there is none
  archive,    \* the lines of <topic>.archive.jsonl
  writer,     \* per message, the progress of its append call
  comp,       \* the compaction under way
  expired,    \* the messages compactions found past their expires_at
  old,        \* the messages compactions found older than max_days
  consumer,   \* a reader that resumes: its next offset and what it was delivered
  budget,     \* what is left of the two bounds
  history     \* ghost: what happened to appends, read by the properties only

vars == <<file, inode, archive, writer, comp, expired, old, consumer, budget, history>>

\* What `raw.lines()` yields: every finished line, and the open one if it has text.
Lines(f) == IF f.open = <<>> THEN f.lines ELSE Append(f.lines, f.open)

\* A line parses when it holds the text of exactly one message; an empty line
\* is skipped, and a line two appends ran into is malformed.
Parses(line)  == Len(line) = 1
Garbled(line) == Len(line) > 1

\* The elements of s at the positions I, in their order, as a loop over s collects
\* them (SelectSeq, by the rank of a position: a form proofs can reason about).
Rank(I, i)   == Cardinality({j \in I : j <= i})
Nth(I, k)    == CHOOSE i \in I : Rank(I, i) = k
Select(s, I) == [k \in 1 .. Cardinality(I) |-> s[Nth(I, k)]]

Good(f) == {i \in DOMAIN Lines(f) : Parses(Lines(f)[i])}
Bad(f)  == {i \in DOMAIN Lines(f) : Garbled(Lines(f)[i])}

Entries(f)   == LET good == Select(Lines(f), Good(f))
                IN  [k \in DOMAIN good |-> good[k][1]]
Malformed(f) == Select(Lines(f), Bad(f))

Elems(s)   == {s[i] : i \in DOMAIN s}
Garbage(f) == UNION {Elems(line) : line \in Elems(Malformed(f))}
Live(f)    == Elems(Entries(f))

Idle == [pc |-> "idle", archiving |-> <<>>, kept |-> <<>>, garbled |-> <<>>]

Init ==
  /\ file = [lines |-> <<>>, open |-> <<>>]
  /\ inode = 0
  /\ archive = <<>>
  /\ writer = [m \in Msgs |-> [pc |-> "new", inode |-> 0]]
  /\ comp = Idle
  /\ expired = {}
  /\ old = {}
  /\ consumer = [cursor |-> 0, delivered |-> <<>>]
  /\ budget = [compactions |-> Compactions, crashes |-> Crashes]
  /\ history = [overlapped |-> {}, met |-> {}, torn |-> {},
                dropped |-> {}]

-----------------------------------------------------------------------------
(* Appending: queue::append opens the file in append mode, and writeln! on  *)
(* the unbuffered file is a write of the text and another of the newline.   *)

Busy(m) == writer[m].pc \in {"opened", "written"}

\* The appends m runs together with: all of them meet.
Meeting(m) == LET others == {n \in Msgs : Busy(n)}
              IN  IF others = {} THEN {} ELSE others \cup {m}

Created == IF inode = 0 THEN 1 ELSE inode

OpenFile(m) ==
  /\ writer[m].pc = "new"
  /\ inode' = Created
  /\ writer' = [writer EXCEPT ![m].pc = "opened", ![m].inode = Created]
  /\ history' = [history EXCEPT !.met = @ \cup Meeting(m)]
  /\ UNCHANGED <<file, archive, comp, expired, old, consumer, budget>>

\* O_APPEND: the write goes to the end of the descriptor's file, whatever
\* others wrote since; it reaches the topic only if the name still points there.
Reaches(m) == writer[m].inode = inode

TextAtEnd(f, m) == [f EXCEPT !.open = Append(@, m)]

\* Seeded fault: write! where the code says writeln!.
NewlineForgotten(f) == f

NewlineAtEnd(f) == [lines |-> Append(f.lines, f.open), open |-> <<>>]

WriteText(m) ==
  /\ writer[m].pc = "opened"
  /\ writer' = [writer EXCEPT ![m].pc = "written"]
  /\ file' = IF Reaches(m) THEN TextAtEnd(file, m) ELSE file
  /\ history' = [history EXCEPT
       !.overlapped = IF Reaches(m) /\ comp.pc = "idle" THEN @ ELSE @ \cup {m}]
  /\ UNCHANGED <<inode, archive, comp, expired, old, consumer, budget>>

WriteNewline(m) ==
  /\ writer[m].pc = "written"
  /\ writer' = [writer EXCEPT ![m].pc = "done"]
  /\ file' = IF Reaches(m) THEN NewlineAtEnd(file) ELSE file
  /\ UNCHANGED <<inode, archive, comp, expired, old, consumer, budget, history>>

\* The writing process dies, or its write fails, between two steps of the append.
CutOffWriter(m) ==
  /\ Busy(m)
  /\ budget.crashes > 0
  /\ writer' = [writer EXCEPT ![m].pc = "cut"]
  /\ budget' = [budget EXCEPT !.crashes = @ - 1]
  /\ history' = [history EXCEPT !.torn = @ \cup {m}]
  /\ UNCHANGED <<file, inode, archive, comp, expired, old, consumer>>

-----------------------------------------------------------------------------
(* Compaction. *)

\* The oldest entries beyond the cap.
Excess(s) == SubSeq(s, 1, Len(s) - MaxMessages)

\* Seeded fault: the cap keeps one of the entries it archives.
WithinOffByOne(s) == IF Len(s) > MaxMessages
                     THEN SubSeq(s, Len(s) - MaxMessages, Len(s)) ELSE s

Within(s) == IF Len(s) > MaxMessages
             THEN SubSeq(s, Len(s) - MaxMessages + 1, Len(s)) ELSE s

\* Read the file, drop what has expired by now, and split the rest: what is
\* older than max_days goes to the archive, then the excess over max_messages.
Young(f, gone, aging) == {i \in DOMAIN Entries(f) : Entries(f)[i] \notin gone \cup aging}
Aged(f, gone, aging)  == {i \in DOMAIN Entries(f) : Entries(f)[i] \in aging \ gone}

Split(f, gone, aging) ==
  LET young == Select(Entries(f), Young(f, gone, aging))
  IN  [pc        |-> "archive",
       archiving |-> Select(Entries(f), Aged(f, gone, aging)) \o Excess(young),
       kept      |-> Within(young),
       garbled   |-> Malformed(f)]

\* Whatever has reached its expires_at or the age of max_days when `now` is read.
ReadForCompact ==
  /\ comp.pc = "idle"
  /\ budget.compactions > 0
  /\ inode > 0
  /\ \E gone \in SUBSET (Expirable \cap Live(file)), aging \in SUBSET Live(file) :
       /\ expired' = expired \cup gone
       /\ old' = old \cup aging
  /\ comp' = Split(file, expired', old')
  /\ budget' = [budget EXCEPT !.compactions = @ - 1]
  /\ history' = [history EXCEPT !.dropped = @ \cup (Live(file) \cap expired')]
  /\ UNCHANGED <<file, inode, archive, writer, consumer>>

ArchiveLine ==
  /\ comp.pc = "archive"
  /\ comp.archiving # <<>>
  /\ archive' = Append(archive, Head(comp.archiving))
  /\ comp' = [comp EXCEPT !.archiving = Tail(@)]
  /\ UNCHANGED <<file, inode, writer, expired, old, consumer, budget, history>>

\* write_trimmed fills the temporary file, which nobody else opens, and renames
\* it: malformed lines first, then what is kept, each with its newline.
Trimmed(c) == [lines |-> c.garbled \o [i \in DOMAIN c.kept |-> <<c.kept[i]>>],
               open  |-> <<>>]

\* Seeded fault: the live file is replaced before the archive is complete.
RenameEarly ==
  /\ comp.pc = "archive"
  /\ file' = Trimmed(comp)
  /\ inode' = inode + 1
  /\ comp' = Idle
  /\ UNCHANGED <<archive, writer, expired, old, consumer, budget, history>>

Rename ==
  /\ comp.pc = "archive"
  /\ comp.archiving = <<>>
  /\ file' = Trimmed(comp)
  /\ inode' = inode + 1
  /\ comp' = Idle
  /\ UNCHANGED <<archive, writer, expired, old, consumer, budget, history>>

\* The compacting process dies, or a write of it fails and `?` returns.
CutOffCompaction ==
  /\ comp.pc # "idle"
  /\ budget.crashes > 0
  /\ comp' = Idle
  /\ budget' = [budget EXCEPT !.crashes = @ - 1]
  /\ UNCHANGED <<file, inode, archive, writer, expired, old, consumer, history>>

-----------------------------------------------------------------------------
(* Reading: read_from parses the file afresh and skips since_offset entries; *)
(* the consumer keeps the offset after the last one for its next call.       *)

\* Seeded fault: the offset of the last entry instead of the one after it.
ReadFromLast(f, since) == SubSeq(Entries(f), IF since = 0 THEN 1 ELSE since, Len(Entries(f)))

ReadFrom(f, since) == SubSeq(Entries(f), since + 1, Len(Entries(f)))

Poll ==
  /\ ReadFrom(file, consumer.cursor) # <<>>
  /\ consumer' = [cursor    |-> Len(Entries(file)),
                  delivered |-> consumer.delivered \o ReadFrom(file, consumer.cursor)]
  /\ UNCHANGED <<file, inode, archive, writer, comp, expired, old, budget, history>>

-----------------------------------------------------------------------------
Appending == \E m \in Msgs :
  OpenFile(m) \/ WriteText(m) \/ WriteNewline(m) \/ CutOffWriter(m)
Compacting == ReadForCompact \/ ArchiveLine \/ Rename \/ CutOffCompaction

Next == Appending \/ Compacting \/ Poll

Spec == Init /\ [][Next]_vars

-----------------------------------------------------------------------------
(* Properties. *)

Progress == {"new", "opened", "written", "done", "cut"}

\* Every variable has its type: a line is a sequence of the texts written to it,
\* in the live file and in what a compaction is about to write (queue.rs).
TypeOK ==
  /\ file \in [lines : Seq(Seq(Msgs)), open : Seq(Msgs)]
  /\ inode \in 0 .. Compactions + 1
  /\ archive \in Seq(Msgs)
  /\ writer \in [Msgs -> [pc : Progress, inode : Nat]]
  /\ comp \in [pc : {"idle", "archive"}, archiving : Seq(Msgs), kept : Seq(Msgs),
               garbled : Seq(Seq(Msgs))]
  /\ expired \subseteq Expirable
  /\ old \subseteq Msgs
  /\ consumer \in [cursor : Nat, delivered : Seq(Msgs)]
  /\ budget \in [compactions : 0 .. Compactions, crashes : 0 .. Crashes]
  /\ history \in [overlapped : SUBSET Msgs, met : SUBSET Msgs,
                  torn : SUBSET Msgs, dropped : SUBSET Msgs]

\* Compaction loses nothing it should keep: a message whose append returned is
\* in the live file or in the archive, was dropped because it had expired, is in
\* a malformed line the compactions preserve, or was written while one ran.
\* (compact archives before it renames, so a crash in between loses nothing.)
SettledKept ==
  \A m \in Msgs : writer[m].pc = "done" =>
    \/ m \in Live(file) \cup Elems(archive) \cup Garbage(file)
    \/ m \in history.dropped \cup history.overlapped

\* A malformed line comes only of appends that ran together or were cut off: at
\* most one of the messages in it was appended on its own.
DamageContained ==
  \A line \in Elems(Malformed(file)) :
    \A m, n \in Elems(line) \ (history.met \cup history.torn) : m = n

\* Each compaction that is cut off may leave one further copy of a message in
\* the archive; the others archive what they take out of the live file, once.
ArchivedOnce ==
  \A m \in Msgs :
    Cardinality({i \in DOMAIN archive : archive[i] = m}) <= 1 + Crashes - budget.crashes

\* A consumer that resumes after the last offset it was given is given no message
\* twice, whatever compactions and malformed lines did to the offsets meanwhile.
DeliveredOnce ==
  \A i, j \in DOMAIN consumer.delivered :
    consumer.delivered[i] = consumer.delivered[j] => i = j
=============================================================================
