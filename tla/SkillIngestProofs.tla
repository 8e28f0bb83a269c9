-------------------------- MODULE SkillIngestProofs --------------------------
(***************************************************************************)
(* With one ingester at a time, the row count is a sound watermark: proofs *)
(* for any number of lines and faults, malformed lines included.           *)
(*                                                                         *)
(* The three properties are not inductive: what they say of the end of the *)
(* loop rests on how far the table covers the ledger in the middle of it.  *)
(* Inv says that it covers the ledger up to Reach(i), the further of the   *)
(* watermark and the line the loop is at, and never has more rows.         *)
(***************************************************************************)
EXTENDS SkillIngest, TLAPS

OneIngester == \A i, j \in Ingester : i = j

Reach(i) == IF already[i] > seen[i] THEN already[i] ELSE seen[i]

Covers(n) == \A p \in 1 .. n : p \in garbled \/ InTable(p)

\* Outside the loop: the table covers as much of the ledger as it has rows.
AtRest(n) == Len(rows) <= n /\ Covers(Len(rows))

Inv ==
  /\ TypeOK
  /\ \A i \in Ingester :
       /\ snap[i] <= ledger
       /\ pc[i] = "idle" => AtRest(ledger)
       /\ pc[i] = "count" => AtRest(snap[i])
       /\ pc[i] = "loop" =>
            /\ already[i] <= snap[i] /\ seen[i] <= snap[i]
            /\ Len(rows) <= Reach(i)
            /\ Covers(Reach(i))
            /\ garbled = {} => Len(rows) = Reach(i)
  /\ ExactPrefix
  /\ Ingester = {} => rows = <<>>

\* The initial states satisfy the invariant.
LEMMA InitInv == Init => Inv
BY DEF Init, Inv, TypeOK, AtRest, Covers, ExactPrefix, InTable, Reach

\* Appending a row keeps what the table covers and adds its line.
LEMMA AppendRow ==
  ASSUME rows \in Seq(Nat), NEW p \in Nat, rows' = Append(rows, p)
  PROVE  /\ rows' \in Seq(Nat) /\ DOMAIN rows = 1 .. Len(rows)
         /\ Len(rows') = Len(rows) + 1 /\ DOMAIN rows' = 1 .. Len(rows) + 1
         /\ \A k \in 1 .. Len(rows) : rows'[k] = rows[k]
         /\ rows'[Len(rows) + 1] = p
OBVIOUS

\* Inv survives the hook: a new line is beyond everything Inv speaks of.
LEMMA HookInv == Inv /\ Hook => Inv'
<1> SUFFICES ASSUME Inv, Hook PROVE Inv'
  OBVIOUS
<1> USE DEF Inv
<1>1. /\ ledger' = ledger + 1
      /\ garbled' = garbled \/ garbled' = garbled \cup {ledger + 1}
      /\ UNCHANGED <<rows, pc, snap, already, seen, faults>>
  BY DEF Hook
<1>2. garbled \subseteq garbled' /\ (garbled' = {} => garbled = {})
  BY <1>1
<1>3. \A n \in Nat : Covers(n) => Covers(n)'
  BY <1>1, <1>2 DEF Covers, InTable
<1>4. TypeOK'
  <2>1. ledger \in Nat /\ garbled \subseteq 1 .. ledger
    BY DEF TypeOK
  <2>2. ledger' \in Nat /\ ledger' = ledger + 1
    BY <1>1, <2>1
  <2>3. ASSUME NEW p \in garbled' PROVE p \in 1 .. ledger'
    <3>1. p \in garbled \/ p = ledger + 1
      BY <1>1, <2>3
    <3>2. CASE p \in garbled
      BY <3>2, <2>1, <2>2
    <3>3. CASE p = ledger + 1
      BY <3>3, <2>1, <2>2
    <3> QED
      BY <3>1, <3>2, <3>3
  <2> QED
    BY <1>1, <2>2, <2>3 DEF TypeOK
<1>5. ASSUME NEW i \in Ingester
      PROVE  /\ (snap[i] <= ledger)'
             /\ (pc[i] = "idle" => AtRest(ledger))'
             /\ (pc[i] = "count" => AtRest(snap[i]))'
             /\ (pc[i] = "loop" =>
                  /\ already[i] <= snap[i] /\ seen[i] <= snap[i]
                  /\ Len(rows) <= Reach(i)
                  /\ Covers(Reach(i))
                  /\ garbled = {} => Len(rows) = Reach(i))'
  <2>1. Len(rows) \in Nat /\ Reach(i) \in Nat /\ ledger \in Nat /\ snap[i] \in Nat
    BY DEF TypeOK, Reach
  <2>2. Reach(i)' = Reach(i) /\ pc'[i] = pc[i] /\ Len(rows)' = Len(rows)
    BY <1>1 DEF Reach
  <2> QED
    BY <1>1, <1>2, <1>3, <2>1, <2>2 DEF AtRest, Covers, InTable
<1>6. ExactPrefix'
  BY <1>1, <1>2 DEF ExactPrefix
<1> QED
  BY <1>1, <1>4, <1>5, <1>6

\* Inv survives the steps of the ingester that append no row.
LEMMA QuietInv ==
  ASSUME OneIngester, Inv, NEW i \in Ingester,
         ReadLedger(i) \/ CountRows(i) \/ FailAppend(i) \/ Crash(i) \/ Return(i)
  PROVE  Inv'
<1> USE DEF Inv
<1>1. UNCHANGED <<ledger, garbled, rows>>
  BY DEF ReadLedger, CountRows, FailAppend, Crash, Return
<1>2. \A j \in Ingester : j = i
  BY DEF OneIngester
<1>3. TypeOK'
  <2>1. /\ pc' \in [Ingester -> {"idle", "count", "loop"}]
        /\ snap' \in [Ingester -> Nat]
    BY DEF TypeOK, ReadLedger, CountRows, FailAppend, Crash, Return
  <2>2. already' \in [Ingester -> Nat] /\ seen' \in [Ingester -> Nat]
    <3>1. Len(rows) \in Nat /\ 0 \in Nat
      BY DEF TypeOK
    <3>2. CASE CountRows(i)
      BY <3>1, <3>2 DEF TypeOK, CountRows, Watermark
    <3>3. CASE ~CountRows(i)
      BY <3>3 DEF TypeOK, ReadLedger, FailAppend, Crash, Return
    <3> QED
      BY <3>2, <3>3
  <2>3. faults' \in Nat
    <3>1. faults' = faults \/ faults' = faults + 1
      BY DEF ReadLedger, CountRows, FailAppend, Crash, Return
    <3> QED
      BY <3>1 DEF TypeOK
  <2> QED
    BY <1>1, <2>1, <2>2, <2>3 DEF TypeOK
<1>4. \A n \in Nat : Covers(n)' <=> Covers(n)
  BY <1>1 DEF Covers, InTable
<1>5. Len(rows) \in Nat /\ ledger \in Nat /\ snap[i] \in Nat /\ already[i] \in Nat /\ seen[i] \in Nat
  BY DEF TypeOK
<1>6. ExactPrefix'
  BY <1>1 DEF ExactPrefix
<1>7. CASE ReadLedger(i)
  <2>1. pc'[i] = "count" /\ snap'[i] = ledger /\ AtRest(ledger)
    BY <1>7 DEF ReadLedger, TypeOK
  <2> QED
    BY <1>1, <1>2, <1>3, <1>4, <1>5, <1>6, <2>1 DEF AtRest
<1>8. CASE CountRows(i)
  <2>1. /\ pc'[i] = "loop" /\ snap'[i] = snap[i]
        /\ already'[i] = Len(rows) /\ seen'[i] = 0 /\ AtRest(snap[i])
    BY <1>8 DEF CountRows, TypeOK, Watermark
  <2>2. Reach(i)' = Len(rows)
    BY <2>1, <1>5 DEF Reach
  <2> QED
    BY <1>1, <1>2, <1>3, <1>4, <1>5, <1>6, <2>1, <2>2 DEF AtRest
<1>9. CASE FailAppend(i) \/ Crash(i) \/ Return(i)
  <2>1. pc'[i] = "idle" /\ snap'[i] = snap[i] /\ pc[i] # "idle"
    BY <1>9 DEF FailAppend, Crash, Return, TypeOK
  <2>2. pc[i] = "count" \/ pc[i] = "loop"
    BY <2>1 DEF TypeOK
  <2>3. AtRest(ledger)
    <3>1. CASE pc[i] = "count"
      BY <3>1, <1>5 DEF AtRest
    <3>2. CASE pc[i] = "loop"
      <4>1. Reach(i) \in Nat /\ Reach(i) <= ledger
        BY <3>2, <1>5 DEF Reach
      <4> QED
        BY <3>2, <4>1, <1>5 DEF AtRest, Covers
    <3> QED
      BY <2>2, <3>1, <3>2
  <2> QED
    BY <1>1, <1>2, <1>3, <1>4, <1>5, <1>6, <2>1, <2>3 DEF AtRest
<1> QED
  BY <1>7, <1>8, <1>9

\* Inv survives a step of the loop.
LEMMA NextLineInv ==
  ASSUME OneIngester, Inv, NEW i \in Ingester, NextLine(i)
  PROVE  Inv'
<1> USE DEF Inv
<1> DEFINE line == seen[i] + 1
<1>1. /\ pc[i] = "loop" /\ pc' = pc /\ snap' = snap /\ already' = already
      /\ ledger' = ledger /\ garbled' = garbled
      /\ faults' = faults
      /\ seen[i] < snap[i] /\ seen' = [seen EXCEPT ![i] = @ + 1]
      /\ rows' = IF Inserts(i) THEN Append(rows, line) ELSE rows
  BY DEF NextLine
<1>2. \A j \in Ingester : j = i
  BY DEF OneIngester
<1>3. /\ rows \in Seq(Nat) /\ Len(rows) \in Nat /\ ledger \in Nat /\ snap[i] \in Nat
      /\ already[i] \in Nat /\ seen[i] \in Nat /\ seen'[i] = line
  BY <1>1 DEF TypeOK
<1>4. TypeOK'
  BY <1>1, <1>3 DEF TypeOK
<1>5. Reach(i)' = IF already[i] > line THEN already[i] ELSE line
  BY <1>1, <1>3 DEF Reach
<1>6. /\ Len(rows') <= Reach(i)'
      /\ Covers(Reach(i))'
      /\ garbled = {} => Len(rows') = Reach(i)'
      /\ ExactPrefix'
  <2>1. CASE Inserts(i)
    <3>0. rows' = Append(rows, line) /\ line \in Nat
      BY <2>1, <1>1, <1>3
    <3>1. already[i] <= seen[i] /\ Reach(i) = seen[i] /\ Reach(i)' = line /\ line \in Nat
      BY <2>1, <1>3, <1>5 DEF Inserts, Reach
    <3>2. /\ DOMAIN rows = 1 .. Len(rows)
          /\ Len(rows') = Len(rows) + 1 /\ DOMAIN rows' = 1 .. Len(rows) + 1
          /\ \A k \in 1 .. Len(rows) : rows'[k] = rows[k]
          /\ rows'[Len(rows) + 1] = line
      BY <1>3, <3>0, AppendRow
    <3>3. Covers(Reach(i))'
      <4>1. ASSUME NEW p \in 1 .. line, p \notin garbled
            PROVE  \E k \in DOMAIN rows' : rows'[k] = p
        <5>1. CASE p = line
          BY <5>1, <3>2, <1>3
        <5>2. CASE p # line
          <6>1. p \in 1 .. Reach(i)
            BY <5>2, <3>1, <1>3
          <6>2. PICK k \in DOMAIN rows : rows[k] = p
            BY <6>1, <4>1, <1>1 DEF Covers, InTable
          <6> QED
            BY <6>2, <3>2, <1>3
        <5> QED
          BY <5>1, <5>2
      <4> QED
        BY <4>1, <3>1, <1>1 DEF Covers, InTable
    <3>4. ExactPrefix'
      <4>1. SUFFICES ASSUME garbled = {}, NEW k \in DOMAIN rows' PROVE rows'[k] = k
        BY <1>1 DEF ExactPrefix
      <4>2. Len(rows) = seen[i]
        BY <4>1, <1>1, <3>1
      <4>3. DOMAIN rows' = 1 .. Len(rows) + 1
        BY <1>1, <1>3, <2>1
      <4>4. CASE k = Len(rows) + 1
        BY <4>2, <4>4, <3>2
      <4>5. CASE k \in 1 .. Len(rows)
        BY <4>1, <4>5, <3>2, <1>3 DEF ExactPrefix
      <4> QED
        BY <4>3, <4>4, <4>5, <1>3
    <3> QED
      BY <1>1, <1>3, <3>1, <3>2, <3>3, <3>4
  <2>2. CASE ~Inserts(i)
    <3>1. rows' = rows /\ (already[i] >= line \/ line \in garbled)
      BY <2>2, <1>1, <1>3 DEF Inserts
    <3>2. CASE already[i] >= line
      <4>1. Reach(i) = already[i] /\ Reach(i)' = already[i]
        BY <3>2, <1>3, <1>5 DEF Reach
      <4> QED
        BY <4>1, <3>1, <1>1 DEF Covers, InTable, ExactPrefix
    <3>3. CASE line \in garbled /\ already[i] < line
      <4>1. Reach(i) = seen[i] /\ Reach(i)' = line
        BY <3>3, <1>3, <1>5 DEF Reach
      <4>2. Covers(Reach(i))'
        <5>1. \A p \in 1 .. line : p \in 1 .. seen[i] \/ p = line
          BY <1>3
        <5> QED
          BY <5>1, <4>1, <3>1, <3>3, <1>1 DEF Covers, InTable
      <4> QED
        BY <4>1, <4>2, <3>1, <3>3, <1>1, <1>3 DEF ExactPrefix
    <3> QED
      BY <3>1, <3>2, <3>3, <1>3
  <2> QED
    BY <2>1, <2>2
<1> QED
  BY <1>1, <1>2, <1>3, <1>4, <1>6

LEMMA NextInv == ASSUME OneIngester, Inv, [Next]_vars PROVE Inv'
<1>1. CASE Hook
  BY <1>1, HookInv
<1>2. ASSUME NEW i \in Ingester, Ingest(i) PROVE Inv'
  BY <1>2, QuietInv, NextLineInv DEF Ingest
<1>3. CASE UNCHANGED vars
  BY <1>3 DEF vars, Inv, TypeOK, AtRest, Covers, InTable, Reach, ExactPrefix
<1> QED
  BY <1>1, <1>2, <1>3 DEF Next

\* What Inv gives a reader of the table.
LEMMA InvImplies == ASSUME Inv PROVE NothingLost /\ NeverAhead /\ ExactPrefix
<1> USE DEF Inv
<1>1. NothingLost
  <2>1. SUFFICES ASSUME NEW i \in Ingester, pc[i] = "loop", seen[i] = snap[i],
                        NEW p \in (1 .. snap[i]) \ garbled
                 PROVE  InTable(p)
    BY DEF NothingLost
  <2>2. Reach(i) = snap[i]
    BY <2>1 DEF Reach, TypeOK
  <2> QED
    BY <2>1, <2>2 DEF Covers
<1>2. NeverAhead
  <2>1. CASE Ingester = {}
    BY <2>1 DEF NeverAhead, TypeOK
  <2>2. ASSUME NEW i \in Ingester PROVE Len(rows) <= ledger
    <3>1. Len(rows) \in Nat /\ ledger \in Nat /\ snap[i] \in Nat /\ snap[i] <= ledger
      BY DEF TypeOK
    <3>2. already[i] \in Nat /\ seen[i] \in Nat /\ pc[i] \in {"idle", "count", "loop"}
      BY DEF TypeOK
    <3> QED
      BY <3>1, <3>2 DEF AtRest, Reach
  <2> QED
    BY <2>1, <2>2 DEF NeverAhead
<1> QED
  BY <1>1, <1>2

\* With one ingester at a time, an ingest that returns has lost no line that
\* parses (ingest_and_open), for every ledger and every fault.
THEOREM WatermarkSound == OneIngester /\ Spec => []NothingLost
<1> SUFFICES ASSUME OneIngester PROVE Spec => []NothingLost
  OBVIOUS
<1>1. Inv /\ [Next]_vars => Inv'
  BY NextInv
<1>2. Inv => NothingLost
  BY InvImplies
<1> QED
  BY InitInv, <1>1, <1>2, PTL DEF Spec

\* ... the table never has more rows than the ledger has lines ...
THEOREM TableNeverAhead == OneIngester /\ Spec => []NeverAhead
<1> SUFFICES ASSUME OneIngester PROVE Spec => []NeverAhead
  OBVIOUS
<1>1. Inv /\ [Next]_vars => Inv'
  BY NextInv
<1>2. Inv => NeverAhead
  BY InvImplies
<1> QED
  BY InitInv, <1>1, <1>2, PTL DEF Spec

\* ... and as long as every line parses the table is a prefix of the ledger.
THEOREM TableIsPrefix == OneIngester /\ Spec => []ExactPrefix
<1> SUFFICES ASSUME OneIngester PROVE Spec => []ExactPrefix
  OBVIOUS
<1>1. Inv /\ [Next]_vars => Inv'
  BY NextInv
<1>2. Inv => ExactPrefix
  BY InvImplies
<1> QED
  BY InitInv, <1>1, <1>2, PTL DEF Spec
==============================================================================
