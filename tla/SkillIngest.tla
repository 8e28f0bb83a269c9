----------------------------- MODULE SkillIngest -----------------------------
(***************************************************************************)
(* The skill-invocation topic as a view of the invocation ledger           *)
(* (neurogrim-core/src/skill_invocations.rs).  A shell hook appends lines  *)
(* to the ledger; whoever reads the view first calls ingest_and_open,      *)
(* which appends to the table the lines it takes for new: the ones after   *)
(* as many non-empty lines as the table has rows.                          *)
(*                                                                         *)
(* A ledger line is its position among the non-empty lines, a row the      *)
(* position of the line it was made from.                                  *)
(***************************************************************************)
EXTENDS Integers, Sequences

CONSTANTS
  Ingester,    \* processes and requests that call ingest_and_open
  MayGarble,   \* TRUE when the ledger can hold a line that is not JSON
  MaxLines,    \* bound: how many lines the hook writes
  MaxFaults    \* bound: failed appends and crashes

ASSUME IngestAssumption ==
  /\ MayGarble \in BOOLEAN
  /\ MaxLines \in Nat
  /\ MaxFaults \in Nat

VARIABLES
  ledger,      \* how many lines the ledger has
  garbled,     \* the ones that do not parse
  rows,        \* the table
  pc,          \* per ingester: idle, about to count the rows, or in the loop
  snap,        \* per ingester, the lines of the text it read
  already,     \* per ingester, already_ingested
  seen,        \* per ingester, seen_non_empty
  faults       \* the faults so far

vars == <<ledger, garbled, rows, pc, snap, already, seen, faults>>

Init ==
  /\ ledger = 0
  /\ garbled = {}
  /\ rows = <<>>
  /\ pc = [i \in Ingester |-> "idle"]
  /\ snap = [i \in Ingester |-> 0]
  /\ already = [i \in Ingester |-> 0]
  /\ seen = [i \in Ingester |-> 0]
  /\ faults = 0

\* The hook appends a line; it parses, or does not.
Hook ==
  /\ ledger < MaxLines
  /\ ledger' = ledger + 1
  /\ garbled' \in {garbled} \cup (IF MayGarble THEN {garbled \cup {ledger + 1}} ELSE {})
  /\ UNCHANGED <<rows, pc, snap, already, seen, faults>>

\* The table is opened and the ledger's text is read.
ReadLedger(i) ==
  /\ pc[i] = "idle"
  /\ pc' = [pc EXCEPT ![i] = "count"]
  /\ snap' = [snap EXCEPT ![i] = ledger]
  /\ UNCHANGED <<ledger, garbled, rows, already, seen, faults>>

\* Seeded fault: the watermark is one past the rows.
WatermarkPast == Len(rows) + 1

Watermark == Len(rows)

CountRows(i) ==
  /\ pc[i] = "count"
  /\ pc' = [pc EXCEPT ![i] = "loop"]
  /\ already' = [already EXCEPT ![i] = Watermark]
  /\ seen' = [seen EXCEPT ![i] = 0]
  /\ UNCHANGED <<ledger, garbled, rows, snap, faults>>

Inserts(i) == seen[i] + 1 > already[i] /\ seen[i] + 1 \notin garbled

\* The next line is skipped, or appended to the table.
NextLine(i) ==
  /\ pc[i] = "loop"
  /\ seen[i] < snap[i]
  /\ seen' = [seen EXCEPT ![i] = @ + 1]
  /\ rows' = IF Inserts(i) THEN Append(rows, seen[i] + 1) ELSE rows
  /\ UNCHANGED <<ledger, garbled, pc, snap, already, faults>>

\* Seeded fault: a failed append is skipped instead of ending the loop.
FailAppendOn(i) ==
  /\ pc[i] = "loop"
  /\ seen[i] < snap[i]
  /\ Inserts(i)
  /\ faults < MaxFaults
  /\ faults' = faults + 1
  /\ seen' = [seen EXCEPT ![i] = @ + 1]
  /\ UNCHANGED <<ledger, garbled, rows, pc, snap, already>>

\* backend.append fails and the loop breaks.
FailAppend(i) ==
  /\ pc[i] = "loop"
  /\ seen[i] < snap[i]
  /\ Inserts(i)
  /\ faults < MaxFaults
  /\ faults' = faults + 1
  /\ pc' = [pc EXCEPT ![i] = "idle"]
  /\ UNCHANGED <<ledger, garbled, rows, snap, already, seen>>

Crash(i) ==
  /\ pc[i] # "idle"
  /\ faults < MaxFaults
  /\ faults' = faults + 1
  /\ pc' = [pc EXCEPT ![i] = "idle"]
  /\ UNCHANGED <<ledger, garbled, rows, snap, already, seen>>

Return(i) ==
  /\ pc[i] = "loop"
  /\ seen[i] = snap[i]
  /\ pc' = [pc EXCEPT ![i] = "idle"]
  /\ UNCHANGED <<ledger, garbled, rows, snap, already, seen, faults>>

Ingest(i) ==
  ReadLedger(i) \/ CountRows(i) \/ NextLine(i) \/ FailAppend(i) \/ Crash(i) \/ Return(i)

Next == Hook \/ \E i \in Ingester : Ingest(i)

Spec == Init /\ [][Next]_vars

-----------------------------------------------------------------------------
(* Properties. *)

InTable(p) == \E k \in DOMAIN rows : rows[k] = p

\* Every variable has its type (skill_invocations.rs).
TypeOK ==
  /\ ledger \in Nat
  /\ garbled \subseteq 1 .. ledger
  /\ rows \in Seq(Nat)
  /\ pc \in [Ingester -> {"idle", "count", "loop"}]
  /\ snap \in [Ingester -> Nat]
  /\ already \in [Ingester -> Nat]
  /\ seen \in [Ingester -> Nat]
  /\ faults \in Nat

\* When an ingest returns, every line of the text it read that parses is in the
\* table, whatever lines were malformed and whichever ingest before it failed or
\* died: counting rows against lines never skips one.
NothingLost ==
  \A i \in Ingester : pc[i] = "loop" /\ seen[i] = snap[i] =>
    \A p \in (1 .. snap[i]) \ garbled : InTable(p)

\* The table never has more rows than the ledger has lines: with more, the lines
\* to come would be taken for old ones.
NeverAhead == Len(rows) <= ledger

\* While every line parses, the table is exactly a prefix of the ledger: nothing
\* twice and nothing out of order, faults included.
ExactPrefix == garbled = {} => \A k \in DOMAIN rows : rows[k] = k
==============================================================================
