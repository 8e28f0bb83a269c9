-------------------------- MODULE SqliteQueueProofs --------------------------
(***************************************************************************)
(* Proofs about a SQLite topic: it implements AtLeastOnce, its resuming    *)
(* reader misses no row, and a group handles a message a bounded number of *)
(* times, for any groups, members, page size, messages and faults.         *)
(***************************************************************************)
EXTENDS SqliteQueue, FiniteSetTheorems, TLAPS

Elements(s) == {s[i] : i \in DOMAIN s}

Distinct(s) == \A i, j \in DOMAIN s : s[i] = s[j] => i = j

Members(g) == {w \in Member : GroupOf[w] = g}

\* The member may handle the offset once more without a fault: it holds it and has not
\* handled it, or will be given it.
MayHandle(w, o) ==
  IF o \in Elements(batch[w]) THEN o = Head(batch[w]) => stage[w] = "read"
                              ELSE o \notin acks[GroupOf[w]]

Pending(g, o) == {w \in Members(g) : MayHandle(w, o)}

HandledRoom ==
  \A g \in Group, o \in 1 .. MaxRows :
    count[g][o] + Cardinality(Pending(g, o)) <= Cardinality(Members(g)) + faults

\* What a member is about to ack, it has handled.
HandledFirst ==
  \A w \in Member :
    batch[w] # <<>> /\ stage[w] = "handled" => count[GroupOf[w]][Head(batch[w])] > 0

ReaderBehind == reader.next <= top + 1

TopicInv ==
  /\ TypeOK
  /\ \A w \in Member : Distinct(batch[w])
  /\ HandledFirst
  /\ ReaderBehind
  /\ ReaderMissesNothing

-----------------------------------------------------------------------------
\* A page is a sequence of offsets, without repetition and without a gap.
LEMMA PageFacts ==
  ASSUME NEW k \in Nat, NEW S \in SUBSET (1 .. k), NEW page \in First(S, Limit)
  PROVE  /\ page \in Seq(S) /\ Distinct(page)
         /\ \A i \in DOMAIN page : \A o \in S : o < page[i] => \E j \in DOMAIN page : page[j] = o
<1>0. IsFiniteSet(1 .. k)
  BY FS_Interval
<1>1. IsFiniteSet(S)
  BY <1>0, FS_Subset
<1>2. Cardinality(S) \in Nat /\ Limit \in Nat
  BY <1>1, FS_CardinalityType, SqliteAssumption
<1> DEFINE n == IF Cardinality(S) < Limit THEN Cardinality(S) ELSE Limit
<1>3. n \in Nat
  BY <1>2
<1>4. page \in [1 .. n -> S]
  BY DEF First
<1> HIDE DEF n
<1>5. page \in Seq(S)
  BY <1>3, <1>4
<1>6. Distinct(page)
  <2> SUFFICES ASSUME NEW i \in DOMAIN page, NEW j \in DOMAIN page, page[i] = page[j], i < j PROVE FALSE
    BY <1>3, <1>4 DEF Distinct
  <2>1. page[i] < page[j]
    BY DEF First
  <2>2. page[i] \in 1 .. k /\ page[j] \in 1 .. k
    BY <1>4
  <2>3. QED
    BY <2>1, <2>2
<1>7. QED
  BY <1>5, <1>6 DEF First

LEMMA TailFacts ==
  ASSUME NEW S, NEW s \in Seq(S), s # <<>>
  PROVE  /\ Tail(s) \in Seq(S) /\ Head(s) \in S
         /\ Head(s) \in Elements(s)
         /\ Distinct(s) => Distinct(Tail(s)) /\ Elements(Tail(s)) = Elements(s) \ {Head(s)}
<1>1. /\ Len(s) \in Nat /\ Len(s) > 0 /\ DOMAIN s = 1 .. Len(s)
      /\ Tail(s) \in Seq(S) /\ Len(Tail(s)) = Len(s) - 1 /\ DOMAIN Tail(s) = 1 .. Len(s) - 1
      /\ \A i \in 1 .. Len(s) - 1 : Tail(s)[i] = s[i + 1]
      /\ Head(s) = s[1] /\ 1 \in DOMAIN s /\ s[1] \in S
  OBVIOUS
<1>2. Head(s) \in Elements(s)
  BY <1>1 DEF Elements
<1>3. ASSUME Distinct(s)
      PROVE  Distinct(Tail(s)) /\ Elements(Tail(s)) = Elements(s) \ {Head(s)}
  <2>1. Distinct(Tail(s))
    <3> SUFFICES ASSUME NEW i \in 1 .. Len(s) - 1, NEW j \in 1 .. Len(s) - 1, s[i + 1] = s[j + 1]
                 PROVE  i = j
      BY <1>1 DEF Distinct
    <3>1. i + 1 \in DOMAIN s /\ j + 1 \in DOMAIN s
      BY <1>1
    <3>2. i + 1 = j + 1
      BY <1>3, <3>1 DEF Distinct
    <3>3. QED
      BY <1>1, <3>2
  <2>2. ASSUME NEW x \in Elements(Tail(s)) PROVE x \in Elements(s) \ {Head(s)}
    <3>1. PICK i \in 1 .. Len(s) - 1 : x = s[i + 1]
      BY <1>1, <2>2 DEF Elements
    <3>2. i + 1 \in DOMAIN s /\ i + 1 # 1
      BY <1>1
    <3>3. QED
      BY <1>1, <1>3, <3>1, <3>2 DEF Elements, Distinct
  <2>3. ASSUME NEW x \in Elements(s) \ {Head(s)} PROVE x \in Elements(Tail(s))
    <3>1. PICK i \in DOMAIN s : x = s[i]
      BY <2>3 DEF Elements
    <3>2. i - 1 \in 1 .. Len(s) - 1 /\ (i - 1) + 1 = i
      BY <1>1, <2>3, <3>1
    <3>3. Tail(s)[i - 1] = x
      BY <1>1, <3>1, <3>2
    <3>4. QED
      BY <1>1, <3>2, <3>3 DEF Elements
  <2>4. QED
    BY <2>1, <2>2, <2>3
<1>4. QED
  BY <1>1, <1>2, <1>3

-----------------------------------------------------------------------------
LEMMA InitTopic == Init => TopicInv
<1> SUFFICES ASSUME Init PROVE TopicInv
  OBVIOUS
<1>1. TypeOK
  BY SqliteAssumption DEF Init, TypeOK, Rows
<1>2. \A w \in Member : Distinct(batch[w])
  BY DEF Init, Distinct
<1>3. HandledFirst /\ ReaderBehind /\ ReaderMissesNothing
  BY DEF Init, HandledFirst, ReaderBehind, ReaderMissesNothing, Rows
<1>4. QED
  BY <1>1, <1>2, <1>3 DEF TopicInv

LEMMA PublishTopic ==
  ASSUME TopicInv, Publish
  PROVE  TopicInv'
<1> USE DEF TopicInv
<1>1. top \in Nat /\ top' = top + 1 /\ top' \in 0 .. MaxRows /\ MaxRows \in Nat
  BY SqliteAssumption DEF Publish, TypeOK
<1>2. Rows \subseteq Rows' /\ \A o \in Rows' : o \in Rows \/ o = top + 1
  BY <1>1 DEF Rows
<1>3. UNCHANGED <<acks, batch, stage, count, reader, faults>>
  BY DEF Publish
<1>4. TypeOK'
  <2>1. \A w \in Member : batch[w] \in Seq(Rows')
    BY <1>2 DEF TypeOK
  <2>2. batch \in [Member -> Seq(Rows')]
    BY <2>1 DEF TypeOK
  <2>3. QED
    BY <1>1, <1>2, <1>3, <2>2 DEF TypeOK
<1>5. ReaderBehind'
  BY <1>1, <1>3 DEF ReaderBehind, TypeOK
<1>6. ReaderMissesNothing'
  BY <1>1, <1>2, <1>3 DEF ReaderMissesNothing, ReaderBehind, TypeOK
<1>7. (\A w \in Member : Distinct(batch[w]))' /\ HandledFirst'
  BY <1>3 DEF HandledFirst, Distinct
<1>8. QED
  BY <1>4, <1>5, <1>6, <1>7

\* A step that only moves batches: the rows, the table, the counts and the reader stay.
LEMMA BatchTopic ==
  ASSUME TopicInv, NEW w \in Member, NEW b \in Seq(Rows), Distinct(b), NEW s \in {"read", "handled"},
         batch' = [batch EXCEPT ![w] = b], stage' = [stage EXCEPT ![w] = s],
         b = <<>> \/ s = "read", faults' \in 0 .. MaxFaults,
         top' = top, reader' = reader, count' = count, acks' \in [Group -> SUBSET Rows]
  PROVE  TopicInv'
<1> USE DEF TopicInv
<1>1. Rows' = Rows
  BY DEF Rows
<1>2. /\ \A u \in Member : batch'[u] = IF u = w THEN b ELSE batch[u]
      /\ \A u \in Member : stage'[u] = IF u = w THEN s ELSE stage[u]
  BY DEF TypeOK
<1>3. TypeOK'
  BY <1>1 DEF TypeOK
<1>4. (\A u \in Member : Distinct(batch[u]))'
  BY <1>2 DEF Distinct
<1>5. HandledFirst'
  BY <1>2 DEF HandledFirst
<1>6. ReaderBehind' /\ ReaderMissesNothing'
  BY <1>1 DEF ReaderBehind, ReaderMissesNothing
<1>7. QED
  BY <1>3, <1>4, <1>5, <1>6

LEMMA HeadRow ==
  ASSUME TypeOK, NEW w \in Member, batch[w] # <<>>
  PROVE  /\ GroupOf[w] \in Group /\ Head(batch[w]) \in Rows /\ Head(batch[w]) \in 1 .. MaxRows
         /\ batch[w] \in Seq(Rows) /\ Tail(batch[w]) \in Seq(Rows)
         /\ count[GroupOf[w]][Head(batch[w])] \in Nat
<1>1. batch[w] \in Seq(Rows) /\ GroupOf[w] \in Group
  BY SqliteAssumption DEF TypeOK
<1>2. Head(batch[w]) \in Rows /\ Tail(batch[w]) \in Seq(Rows)
  BY <1>1
<1>3. Rows \subseteq 1 .. MaxRows
  BY SqliteAssumption DEF TypeOK, Rows
<1>4. QED
  BY <1>1, <1>2, <1>3 DEF TypeOK

LEMMA HandleTopic ==
  ASSUME TopicInv, NEW w \in Member, HandleFirst(w)
  PROVE  TopicInv'
<1> USE DEF TopicInv
<1> DEFINE g == GroupOf[w]
           o == Head(batch[w])
<1>1. g \in Group /\ o \in Rows /\ o \in 1 .. MaxRows
  BY HeadRow DEF HandleFirst
<1>2. Rows' = Rows /\ UNCHANGED <<top, acks, batch, reader, faults>>
  BY DEF HandleFirst, Rows
<1> HIDE DEF g, o
<1>3. /\ \A h \in Group : \A p \in 1 .. MaxRows :
           count'[h][p] = IF h = g /\ p = o THEN count[g][o] + 1 ELSE count[h][p]
      /\ \A u \in Member : stage'[u] = IF u = w THEN "handled" ELSE stage[u]
      /\ count' \in [Group -> [1 .. MaxRows -> Nat]]
  <2>1. count' = [count EXCEPT ![g] = [count[g] EXCEPT ![o] = count[g][o] + 1]]
        /\ stage' = [stage EXCEPT ![w] = "handled"]
    BY DEF HandleFirst, g, o
  <2>2. count[g] \in [1 .. MaxRows -> Nat] /\ count[g][o] + 1 \in Nat
    <3>1. count \in [Group -> [1 .. MaxRows -> Nat]]
      BY DEF TypeOK
    <3>2. count[g] \in [1 .. MaxRows -> Nat]
      BY <1>1, <3>1
    <3>3. count[g][o] \in Nat
      BY <1>1, <3>2
    <3>4. QED
      BY <3>2, <3>3
  <2>3. [count[g] EXCEPT ![o] = count[g][o] + 1] \in [1 .. MaxRows -> Nat]
    <3> DEFINE f == count[g]
               v == count[g][o] + 1
    <3>1. f \in [1 .. MaxRows -> Nat] /\ v \in Nat
      BY <2>2
    <3> HIDE DEF f, v
    <3>2. [f EXCEPT ![o] = v] \in [1 .. MaxRows -> Nat]
      BY <3>1
    <3>3. QED
      BY <3>2 DEF f, v
  <2>4. count \in [Group -> [1 .. MaxRows -> Nat]] /\ stage \in [Member -> {"read", "handled"}]
    BY DEF TypeOK
  <2>5. count' \in [Group -> [1 .. MaxRows -> Nat]]
    BY <1>1, <2>1, <2>3, <2>4
  <2>6. ASSUME NEW h \in Group, NEW p \in 1 .. MaxRows
        PROVE  count'[h][p] = IF h = g /\ p = o THEN count[g][o] + 1 ELSE count[h][p]
    <3>1. count'[h] = IF h = g THEN [count[g] EXCEPT ![o] = count[g][o] + 1] ELSE count[h]
      BY <2>1, <2>4
    <3>2. QED
      BY <2>2, <3>1
  <2>7. QED
    BY <2>1, <2>4, <2>5, <2>6
<1>4. TypeOK'
  BY <1>2, <1>3 DEF TypeOK, HandleFirst
<1>5. HandledFirst'
  <2> SUFFICES ASSUME NEW u \in Member, batch[u] # <<>>, stage'[u] = "handled"
               PROVE  count'[GroupOf[u]][Head(batch[u])] > 0
    BY <1>2 DEF HandledFirst
  <2>1. GroupOf[u] \in Group /\ Head(batch[u]) \in 1 .. MaxRows /\ count[GroupOf[u]][Head(batch[u])] \in Nat
    BY HeadRow
  <2>2. CASE u = w
    BY <1>1, <1>3, <2>1, <2>2 DEF g, o, TypeOK
  <2>3. CASE u # w
    <3>1. count[GroupOf[u]][Head(batch[u])] > 0
      BY <1>3, <2>3 DEF HandledFirst
    <3>2. QED
      BY <1>3, <2>1, <3>1
  <2>4. QED
    BY <2>2, <2>3
<1>6. (\A u \in Member : Distinct(batch[u]))' /\ ReaderBehind' /\ ReaderMissesNothing'
  BY <1>2 DEF ReaderBehind, ReaderMissesNothing, Distinct
<1>7. QED
  BY <1>4, <1>5, <1>6

LEMMA ReadOnTopic ==
  ASSUME TopicInv, ReadOn
  PROVE  TopicInv'
<1> USE DEF TopicInv
<1>1. PICK page \in First(From(reader.next), Limit) :
        /\ page # <<>>
        /\ reader' = [next  |-> page[Len(page)] + 1,
                      given |-> reader.given \cup {page[i] : i \in DOMAIN page}]
  BY DEF ReadOn
<1>2. UNCHANGED <<top, acks, batch, stage, count, faults>> /\ Rows' = Rows /\ top \in Nat
      /\ reader.next \in Nat /\ reader.given \subseteq Rows
  BY DEF ReadOn, Rows, TypeOK
<1> DEFINE S == From(reader.next)
<1>3. S \in SUBSET (1 .. top) /\ S \subseteq Rows
  BY DEF From, Rows
<1>4. /\ page \in Seq(S)
      /\ \A i \in DOMAIN page : \A o \in S : o < page[i] => \E j \in DOMAIN page : page[j] = o
  <2>1. page \in First(S, Limit)
    BY <1>1
  <2> HIDE DEF S
  <2>2. QED
    BY <1>2, <1>3, <2>1, PageFacts
<1> DEFINE last == page[Len(page)]
<1>5. Len(page) \in DOMAIN page /\ last \in S /\ last \in 1 .. top
  BY <1>1, <1>3, <1>4
<1>6. reader'.next = last + 1 /\ reader'.given = reader.given \cup {page[i] : i \in DOMAIN page}
  BY <1>1
<1>7. {page[i] : i \in DOMAIN page} \subseteq Rows
  BY <1>3, <1>4
<1>8. TypeOK'
  <2>1. reader' \in [next : Nat, given : SUBSET Rows]
    BY <1>1, <1>2, <1>5, <1>7
  <2>2. QED
    BY <1>2, <2>1 DEF TypeOK
<1>9. ReaderBehind'
  BY <1>2, <1>5, <1>6 DEF ReaderBehind
<1>10. ReaderMissesNothing'
  <2> SUFFICES ASSUME NEW o \in Rows, o < last + 1 PROVE o \in reader'.given
    BY <1>2, <1>6 DEF ReaderMissesNothing
  <2>1. CASE o < reader.next
    BY <1>6, <2>1 DEF ReaderMissesNothing
  <2>2. CASE ~(o < reader.next)
    <3>1. o \in S
      BY <1>2, <2>2 DEF From, Rows
    <3>2. o = last \/ o < last
      BY <1>5, <3>1, <1>3
    <3>3. \E j \in DOMAIN page : page[j] = o
      BY <1>4, <1>5, <3>1, <3>2
    <3>4. QED
      BY <1>6, <3>3
  <2>3. QED
    BY <2>1, <2>2
<1>11. (\A u \in Member : Distinct(batch[u]))' /\ HandledFirst'
  BY <1>2 DEF HandledFirst, Distinct
<1>12. QED
  BY <1>8, <1>9, <1>10, <1>11

LEMMA NextTopic ==
  ASSUME TopicInv, [Next]_vars
  PROVE  TopicInv'
<1>0. TypeOK
  BY DEF TopicInv
<1>1. CASE Publish
  BY <1>1, PublishTopic
<1>2. CASE ReadOn
  BY <1>2, ReadOnTopic
<1>3. ASSUME NEW w \in Member, ReadUnacked(w)
      PROVE  TopicInv'
  <2> DEFINE S == Unacked(GroupOf[w])
  <2>1. PICK page \in First(S, Limit) : batch' = [batch EXCEPT ![w] = page]
    BY <1>3 DEF ReadUnacked
  <2>2. S \subseteq Rows /\ S \in SUBSET (1 .. top) /\ top \in Nat
    BY <1>0 DEF Unacked, Rows, TypeOK
  <2>3. page \in Seq(S) /\ Distinct(page)
    <3> HIDE DEF S
    <3>1. QED
      BY <2>1, <2>2, PageFacts
  <2>4. page \in Seq(Rows)
    BY <2>2, <2>3
  <2>5. /\ stage' = [stage EXCEPT ![w] = "read"]
        /\ top' = top /\ reader' = reader /\ count' = count /\ acks' = acks /\ faults' = faults
    BY <1>3 DEF ReadUnacked
  <2>6. acks' \in [Group -> SUBSET Rows] /\ faults' \in 0 .. MaxFaults
    BY <1>0, <2>5 DEF TypeOK
  <2>7. QED
    BY <2>1, <2>3, <2>4, <2>5, <2>6, BatchTopic
<1>4. ASSUME NEW w \in Member, HandleFirst(w)
      PROVE  TopicInv'
  BY <1>4, HandleTopic
<1>5. ASSUME NEW w \in Member, AckFirst(w)
      PROVE  TopicInv'
  <2>1. /\ Tail(batch[w]) \in Seq(Rows) /\ GroupOf[w] \in Group /\ Head(batch[w]) \in Rows
        /\ Distinct(Tail(batch[w]))
    BY <1>0, <1>5, HeadRow, TailFacts DEF AckFirst, TopicInv
  <2>2. /\ batch' = [batch EXCEPT ![w] = Tail(batch[w])] /\ stage' = [stage EXCEPT ![w] = "read"]
        /\ top' = top /\ reader' = reader /\ count' = count /\ faults' = faults
        /\ acks' = [acks EXCEPT ![GroupOf[w]] = acks[GroupOf[w]] \cup {Head(batch[w])}]
    BY <1>5 DEF AckFirst, Ack
  <2>3. acks' \in [Group -> SUBSET Rows] /\ faults' \in 0 .. MaxFaults
    BY <1>0, <2>1, <2>2 DEF TypeOK
  <2>4. QED
    BY <2>1, <2>2, <2>3, BatchTopic
<1>6. ASSUME NEW w \in Member, SkipFirst(w)
      PROVE  TopicInv'
  <2>1. Tail(batch[w]) \in Seq(Rows) /\ Distinct(Tail(batch[w]))
    BY <1>0, <1>6, HeadRow, TailFacts DEF SkipFirst, TopicInv
  <2>2. /\ batch' = [batch EXCEPT ![w] = Tail(batch[w])] /\ stage' = [stage EXCEPT ![w] = "read"]
        /\ top' = top /\ reader' = reader /\ count' = count /\ acks' = acks
    BY <1>0, <1>6 DEF SkipFirst, TypeOK
  <2>3. acks' \in [Group -> SUBSET Rows] /\ faults' \in 0 .. MaxFaults
    BY <1>0, <1>6, <2>2, SqliteAssumption DEF SkipFirst, TypeOK
  <2>4. QED
    BY <2>1, <2>2, <2>3, BatchTopic
<1>7. ASSUME NEW w \in Member, CrashMember(w)
      PROVE  TopicInv'
  <2>1. <<>> \in Seq(Rows) /\ Distinct(<<>>)
    BY DEF Distinct
  <2>2. /\ batch' = [batch EXCEPT ![w] = <<>>] /\ stage' = [stage EXCEPT ![w] = "read"]
        /\ top' = top /\ reader' = reader /\ count' = count /\ acks' = acks
    BY <1>7 DEF CrashMember
  <2>3. acks' \in [Group -> SUBSET Rows] /\ faults' \in 0 .. MaxFaults
    BY <1>0, <1>7, <2>2, SqliteAssumption DEF CrashMember, TypeOK
  <2>4. QED
    BY <2>1, <2>2, <2>3, BatchTopic
<1>8. CASE UNCHANGED vars
  BY <1>8 DEF TopicInv, vars, TypeOK, HandledFirst, ReaderBehind, ReaderMissesNothing, Distinct, Rows
<1>9. QED
  BY <1>1, <1>2, <1>3, <1>4, <1>5, <1>6, <1>7, <1>8 DEF Next, Work

LEMMA TopicSafety == Spec => []TopicInv
<1>1. Init => TopicInv
  BY InitTopic
<1>2. TopicInv /\ [Next]_vars => TopicInv'
  BY NextTopic
<1>3. QED
  BY <1>1, <1>2, PTL DEF Spec

-----------------------------------------------------------------------------
\* Whatever is read, handled, acked, skipped and lost in whatever order, the
\* variables keep their types: what a member holds is a row (queue_backend.rs).
THEOREM TopicTypes == Spec => []TypeOK
<1>1. TopicInv => TypeOK
  BY DEF TopicInv
<1>2. QED
  BY <1>1, TopicSafety, PTL

\* read_from, resumed one past the last offset it returned, skips no row, for
\* every page size and however publishes fall between two reads.
THEOREM ReaderSafety == Spec => []ReaderMissesNothing
<1>1. TopicInv => ReaderMissesNothing
  BY DEF TopicInv
<1>2. QED
  BY <1>1, TopicSafety, PTL

-----------------------------------------------------------------------------
LEMMA PendingFinite ==
  ASSUME NEW g, NEW o
  PROVE  /\ IsFiniteSet(Members(g)) /\ Cardinality(Members(g)) \in Nat
         /\ IsFiniteSet(Pending(g, o)) /\ Cardinality(Pending(g, o)) \in Nat
         /\ Cardinality(Pending(g, o)) <= Cardinality(Members(g))
<1>1. Members(g) \subseteq Member /\ Pending(g, o) \subseteq Members(g)
  BY DEF Members, Pending
<1>2. IsFiniteSet(Members(g))
  BY <1>1, SqliteAssumption, FS_Subset
<1>3. QED
  BY <1>1, <1>2, FS_Subset, FS_CardinalityType

LEMMA PendingFiniteNext ==
  ASSUME NEW g, NEW o
  PROVE  IsFiniteSet(Pending(g, o)') /\ Cardinality(Pending(g, o)') \in Nat
<1>1. Members(g) \subseteq Member /\ Pending(g, o)' \subseteq Members(g)
  BY DEF Members, Pending
<1>2. IsFiniteSet(Members(g))
  BY <1>1, SqliteAssumption, FS_Subset
<1>3. QED
  BY <1>1, <1>2, FS_Subset, FS_CardinalityType

\* Only a member's death lets it handle what it could no more: after an ack the
\* offset is neither in its batch nor unacked.
LEMMA MayHandleStep ==
  ASSUME TopicInv, [Next]_vars, NEW u \in Member, NEW o, MayHandle(u, o)'
  PROVE  MayHandle(u, o) \/ CrashMember(u)
<1>0. TypeOK /\ GroupOf[u] \in Group
  BY SqliteAssumption DEF TopicInv
<1>1. ASSUME batch'[u] = batch[u], stage'[u] = stage[u] \/ stage'[u] = "handled",
             acks[GroupOf[u]] \subseteq acks'[GroupOf[u]]
      PROVE  MayHandle(u, o)
  BY <1>1 DEF MayHandle, Elements
<1>2. CASE Publish \/ ReadOn \/ UNCHANGED vars
  BY <1>1, <1>2 DEF Publish, ReadOn, vars
<1>3. ASSUME NEW w \in Member, ReadUnacked(w)
      PROVE  MayHandle(u, o)
  <2>1. CASE w = u
    <3>1. batch[u] = <<>> /\ acks' = acks
      BY <1>3, <2>1 DEF ReadUnacked
    <3>2. PICK page \in First(Unacked(GroupOf[u]), Limit) : batch' = [batch EXCEPT ![u] = page]
      BY <1>3, <2>1 DEF ReadUnacked
    <3>3. batch'[u] = page
      BY <1>0, <3>2 DEF TypeOK
    <3>4. Elements(page) \subseteq Unacked(GroupOf[u])
      BY <3>2 DEF First, Elements
    <3>5. o \notin acks[GroupOf[u]]
      BY <3>1, <3>3, <3>4 DEF MayHandle, Elements, Unacked
    <3>6. QED
      BY <3>1, <3>5 DEF MayHandle, Elements
  <2>2. CASE w # u
    BY <1>0, <1>1, <1>3, <2>2 DEF ReadUnacked, TypeOK
  <2>3. QED
    BY <2>1, <2>2
<1>4. ASSUME NEW w \in Member, HandleFirst(w)
      PROVE  MayHandle(u, o)
  BY <1>0, <1>1, <1>4 DEF HandleFirst, TypeOK
<1>5. ASSUME NEW w \in Member, AckFirst(w)
      PROVE  MayHandle(u, o)
  <2>1. /\ batch' = [batch EXCEPT ![w] = Tail(batch[w])] /\ stage' = [stage EXCEPT ![w] = "read"]
        /\ acks' = [acks EXCEPT ![GroupOf[w]] = acks[GroupOf[w]] \cup {Head(batch[w])}]
        /\ batch[w] # <<>>
    BY <1>5 DEF AckFirst, Ack
  <2>2. acks[GroupOf[u]] \subseteq acks'[GroupOf[u]]
    BY <1>0, <2>1 DEF TypeOK
  <2>3. CASE w = u
    <3>1. batch'[u] = Tail(batch[u]) /\ Head(batch[u]) \in acks'[GroupOf[u]]
      BY <1>0, <2>1, <2>3 DEF TypeOK
    <3>2. /\ Elements(Tail(batch[u])) = Elements(batch[u]) \ {Head(batch[u])}
          /\ Head(batch[u]) \in Elements(batch[u])
      BY <1>0, <2>1, <2>3, HeadRow, TailFacts DEF TopicInv
    <3>3. QED
      BY <2>2, <3>1, <3>2 DEF MayHandle
  <2>4. CASE w # u
    BY <1>0, <1>1, <2>1, <2>2, <2>4 DEF TypeOK
  <2>5. QED
    BY <2>3, <2>4
<1>6. ASSUME NEW w \in Member, SkipFirst(w)
      PROVE  MayHandle(u, o)
  <2>1. /\ batch' = [batch EXCEPT ![w] = Tail(batch[w])] /\ UNCHANGED <<acks, stage>>
        /\ batch[w] # <<>> /\ stage[w] = "read"
    BY <1>6 DEF SkipFirst
  <2>2. CASE w = u
    <3>1. batch'[u] = Tail(batch[u])
      BY <1>0, <2>1, <2>2 DEF TypeOK
    <3>2. Elements(Tail(batch[u])) = Elements(batch[u]) \ {Head(batch[u])}
      BY <1>0, <2>1, <2>2, HeadRow, TailFacts DEF TopicInv
    <3>3. QED
      BY <2>1, <2>2, <3>1, <3>2 DEF MayHandle
  <2>3. CASE w # u
    BY <1>0, <1>1, <2>1, <2>3 DEF TypeOK
  <2>4. QED
    BY <2>2, <2>3
<1>7. ASSUME NEW w \in Member, CrashMember(w), w # u
      PROVE  MayHandle(u, o)
  BY <1>0, <1>1, <1>7 DEF CrashMember, TypeOK
<1>8. QED
  BY <1>2, <1>3, <1>4, <1>5, <1>6, <1>7 DEF Next, Work

\* Handling uses up one pending member; a death adds at most one and is a fault.
LEMMA RoomStep ==
  ASSUME TopicInv, HandledRoom, [Next]_vars
  PROVE  HandledRoom'
<1> SUFFICES ASSUME NEW g \in Group, NEW o \in 1 .. MaxRows
             PROVE  count'[g][o] + Cardinality(Pending(g, o)') <= Cardinality(Members(g)) + faults'
  BY DEF HandledRoom, Members
<1> DEFINE P == Pending(g, o)
           Q == Pending(g, o)'
<1>0. /\ IsFiniteSet(P) /\ Cardinality(P) \in Nat /\ IsFiniteSet(Q) /\ Cardinality(Q) \in Nat
      /\ Cardinality(Members(g)) \in Nat
  BY PendingFinite, PendingFiniteNext
<1>1. TypeOK /\ faults \in Nat /\ count[g][o] \in Nat
      /\ count[g][o] + Cardinality(P) <= Cardinality(Members(g)) + faults
  BY SqliteAssumption DEF TopicInv, TypeOK, HandledRoom
<1>2. ASSUME NEW u \in Q
      PROVE  u \in P \/ CrashMember(u)
  <2>1. u \in Member /\ u \in Members(g) /\ MayHandle(u, o)'
    BY <1>2 DEF Pending, Members
  <2>2. QED
    BY <2>1, MayHandleStep DEF Pending
<1> HIDE DEF P, Q
<1>3. CASE \E w \in Member : CrashMember(w)
  <2>1. PICK w \in Member : CrashMember(w)
    BY <1>3
  <2>2. faults' = faults + 1 /\ count' = count
    BY <2>1 DEF CrashMember
  <2>3. \A u \in Member : CrashMember(u) => u = w
    <3> SUFFICES ASSUME NEW u \in Member, CrashMember(u), u # w PROVE FALSE
      OBVIOUS
    <3>1. batch[u] # <<>> /\ batch' = [batch EXCEPT ![u] = <<>>] /\ batch' = [batch EXCEPT ![w] = <<>>]
      BY <2>1 DEF CrashMember
    <3>2. batch'[u] = <<>> /\ batch'[u] = batch[u]
      BY <1>1, <3>1 DEF TypeOK
    <3>3. QED
      BY <3>1, <3>2
  <2>4. Q \subseteq P \cup {w}
    BY <1>2, <2>3 DEF Q, Pending, Members
  <2>5. Cardinality(Q) <= Cardinality(P) + 1
    <3>1. IsFiniteSet(P \cup {w}) /\ Cardinality(P \cup {w}) <= Cardinality(P) + 1
      <4>1. Cardinality(P \cup {w}) = IF w \in P THEN Cardinality(P) ELSE Cardinality(P) + 1
        BY <1>0, FS_AddElement, Zenon
      <4>2. IsFiniteSet(P \cup {w})
        BY <1>0, FS_AddElement, Zenon
      <4>3. QED
        BY <1>0, <4>1, <4>2
    <3>2. QED
      BY <1>0, <2>4, <3>1, FS_Subset, FS_CardinalityType
  <2>6. QED
    BY <1>0, <1>1, <2>2, <2>5 DEF P, Q
<1>4. CASE \A w \in Member : ~CrashMember(w)
  <2>1. Q \subseteq P
    BY <1>2, <1>4 DEF Q, Pending, Members
  <2>2. Cardinality(Q) <= Cardinality(P)
    BY <1>0, <2>1, FS_Subset
  <2>3. faults' \in Nat /\ faults <= faults'
    <3>1. faults' = faults \/ faults' = faults + 1
      BY <1>4 DEF Next, Work, vars, Publish, ReadOn, ReadUnacked, HandleFirst, AckFirst, SkipFirst
    <3>2. QED
      BY <1>1, <3>1
  <2>4. CASE count'[g][o] = count[g][o]
    BY <1>0, <1>1, <2>2, <2>3, <2>4 DEF P, Q
  <2>5. CASE count'[g][o] # count[g][o]
    <3>1. PICK w \in Member : HandleFirst(w)
      BY <1>4, <2>5 DEF Next, Work, vars, Publish, ReadOn, ReadUnacked, AckFirst, SkipFirst
    <3>2. /\ count' = [count EXCEPT ![GroupOf[w]] =
                         [count[GroupOf[w]] EXCEPT ![Head(batch[w])] = count[GroupOf[w]][Head(batch[w])] + 1]]
          /\ stage' = [stage EXCEPT ![w] = "handled"] /\ batch' = batch
          /\ batch[w] # <<>> /\ stage[w] = "read" /\ faults' = faults
      BY <3>1 DEF HandleFirst
    <3>3. /\ GroupOf[w] \in Group /\ Head(batch[w]) \in 1 .. MaxRows /\ Head(batch[w]) \in Elements(batch[w])
          /\ count[GroupOf[w]] \in [1 .. MaxRows -> Nat]
      BY <1>1, <3>2, HeadRow, TailFacts DEF TypeOK
    <3>4. GroupOf[w] = g /\ Head(batch[w]) = o
      <4>1. count'[g] = IF g = GroupOf[w]
                        THEN [count[GroupOf[w]] EXCEPT ![Head(batch[w])] = count[GroupOf[w]][Head(batch[w])] + 1]
                        ELSE count[g]
        BY <1>1, <3>2 DEF TypeOK
      <4>2. QED
        BY <2>5, <3>3, <4>1
    <3>5. count'[g][o] = count[g][o] + 1
      BY <1>1, <3>2, <3>3, <3>4 DEF TypeOK
    <3>6. w \in P /\ w \notin Q
      BY <1>1, <3>2, <3>3, <3>4 DEF P, Q, Pending, Members, MayHandle, TypeOK, Elements
    <3>7. Cardinality(P \ {w}) = Cardinality(P) - 1 /\ IsFiniteSet(P \ {w})
      BY <1>0, <3>6, FS_RemoveElement
    <3>8. Cardinality(Q) <= Cardinality(P) - 1
      BY <1>0, <2>1, <3>6, <3>7, FS_Subset
    <3>9. QED
      BY <1>0, <1>1, <3>2, <3>5, <3>8 DEF P, Q
  <2>6. QED
    BY <2>4, <2>5
<1>5. QED
  BY <1>3, <1>4

\* A message is handled at most once for each member of its group and once more
\* for each fault: read_unacked hands no member an acked row, for every number of
\* groups, members and messages, and every page size.
THEOREM HandledSafety == Spec => []HandledBounded
<1>1. Init => HandledRoom
  <2> SUFFICES ASSUME Init, NEW g \in Group, NEW o \in 1 .. MaxRows
               PROVE  count[g][o] + Cardinality(Pending(g, o)) <= Cardinality(Members(g)) + faults
    BY DEF HandledRoom
  <2>1. count[g][o] = 0 /\ faults = 0
    BY DEF Init
  <2>2. QED
    BY <2>1, PendingFinite
<1>2. TopicInv /\ HandledRoom /\ [Next]_vars => HandledRoom'
  BY RoomStep
<1>3. TopicInv /\ HandledRoom => HandledBounded
  <2> SUFFICES ASSUME TopicInv, HandledRoom, NEW g \in Group, NEW o \in 1 .. MaxRows
               PROVE  count[g][o] <= Cardinality(Members(g)) + faults
    BY DEF HandledBounded, Members
  <2>1. count[g][o] \in Nat /\ faults \in Nat
    BY SqliteAssumption DEF TopicInv, TypeOK
  <2>2. count[g][o] + Cardinality(Pending(g, o)) <= Cardinality(Members(g)) + faults
    BY DEF HandledRoom
  <2>3. QED
    BY <2>1, <2>2, PendingFinite
<1>4. QED
  BY <1>1, <1>2, <1>3, TopicSafety, PTL DEF Spec

-----------------------------------------------------------------------------
HandledBy == [g \in Group |-> {o \in 1 .. MaxRows : count[g][o] > 0}]

\* The topic is an AtLeastOnce log: a publish is its Publish, handling its Handle, an
\* ack its Settle, of an offset the group has handled; the rest it does not see.
LEMMA PromiseStep ==
  ASSUME TopicInv, [Next]_vars
  PROVE  [Promise!LogNext]_(Promise!logvars)
<1>0. TypeOK
  BY DEF TopicInv
<1> USE DEF Promise!LogNext, Promise!logvars
<1>1. CASE Publish
  <2>1. Promise!Publish
    BY <1>1 DEF Publish, Promise!Publish
  <2>2. QED
    BY <2>1
<1>2. ASSUME NEW w \in Member, HandleFirst(w)
      PROVE  Promise!LogNext
  <2> DEFINE h == GroupOf[w]
             p == Head(batch[w])
  <2>1. h \in Group /\ p \in 1 .. top /\ p \in 1 .. MaxRows /\ count \in [Group -> [1 .. MaxRows -> Nat]]
    BY <1>0, <1>2, HeadRow DEF HandleFirst, TypeOK, Rows
  <2>2. count' = [count EXCEPT ![h] = [count[h] EXCEPT ![p] = count[h][p] + 1]] /\ top' = top /\ acks' = acks
    BY <1>2 DEF HandleFirst
  <2> HIDE DEF h, p
  <2>3. \A g \in Group : \A o \in 1 .. MaxRows :
          count'[g][o] = IF g = h /\ o = p THEN count[g][o] + 1 ELSE count[g][o]
    <3> SUFFICES ASSUME NEW g \in Group, NEW o \in 1 .. MaxRows
                 PROVE  count'[g][o] = IF g = h /\ o = p THEN count[g][o] + 1 ELSE count[g][o]
      OBVIOUS
    <3>1. count'[g] = IF g = h THEN [count[h] EXCEPT ![p] = count[h][p] + 1] ELSE count[g]
      BY <2>1, <2>2
    <3>2. count[h] \in [1 .. MaxRows -> Nat]
      BY <2>1
    <3>3. QED
      BY <2>1, <3>1, <3>2
  <2>4. \A g \in Group : HandledBy'[g] = IF g = h THEN HandledBy[g] \cup {p} ELSE HandledBy[g]
    <3> SUFFICES ASSUME NEW g \in Group
                 PROVE  HandledBy'[g] = IF g = h THEN HandledBy[g] \cup {p} ELSE HandledBy[g]
      OBVIOUS
    <3>1. \A o \in 1 .. MaxRows : count[g][o] \in Nat
      BY <2>1
    <3>2. /\ HandledBy'[g] = {o \in 1 .. MaxRows : count'[g][o] > 0}
          /\ HandledBy[g] = {o \in 1 .. MaxRows : count[g][o] > 0}
      BY DEF HandledBy
    <3>3. QED
      BY <2>1, <2>3, <3>1, <3>2
  <2>5. HandledBy' = [HandledBy EXCEPT ![h] = HandledBy[h] \cup {p}]
    <3>1. /\ DOMAIN HandledBy = Group
          /\ HandledBy = [g \in Group |-> HandledBy[g]] /\ HandledBy' = [g \in Group |-> HandledBy'[g]]
      BY DEF HandledBy
    <3>2. QED
      BY <2>4, <3>1
  <2>6. Promise!Handle(h)
    BY <2>1, <2>2, <2>5 DEF Promise!Handle, HandledBy
  <2>7. QED
    BY <2>1, <2>6
<1>3. ASSUME NEW w \in Member, AckFirst(w)
      PROVE  Promise!LogNext
  <2>1. GroupOf[w] \in Group /\ Head(batch[w]) \in 1 .. MaxRows /\ count[GroupOf[w]][Head(batch[w])] > 0
    BY <1>0, <1>3, HeadRow DEF AckFirst, TopicInv, HandledFirst
  <2>2. Head(batch[w]) \in HandledBy[GroupOf[w]]
    BY <2>1 DEF HandledBy
  <2>3. /\ acks' = [acks EXCEPT ![GroupOf[w]] = acks[GroupOf[w]] \cup {Head(batch[w])}]
        /\ top' = top /\ count' = count
    BY <1>3 DEF AckFirst, Ack
  <2>4. Promise!Settle(GroupOf[w])
    BY <2>2, <2>3 DEF Promise!Settle, HandledBy
  <2>5. QED
    BY <2>1, <2>4
<1>4. CASE top' = top /\ acks' = acks /\ count' = count
  BY <1>4
<1>5. QED
  BY <1>1, <1>2, <1>3, <1>4
     DEF Next, Work, vars, ReadOn, ReadUnacked, SkipFirst, CrashMember

\* Every behaviour of a SQLite topic is one of AtLeastOnce: what a group's acks settle,
\* the group has handled, and offsets, handling and acks are never taken back.
THEOREM PromiseKept == Spec => KeepsPromise
<1>1. Init => Promise!LogInit
  BY DEF Init, Promise!LogInit
<1>2. TopicInv /\ [Next]_vars => [Promise!LogNext]_(Promise!logvars)
  BY PromiseStep
<1>3. QED
  BY <1>1, <1>2, TopicSafety, PTL DEF Spec, KeepsPromise, Promise!LogSpec

=============================================================================
