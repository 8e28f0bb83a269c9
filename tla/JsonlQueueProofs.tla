-------------------------- MODULE JsonlQueueProofs --------------------------
(***************************************************************************)
(* What the JSONL topic guarantees for any messages, retention cap, number *)
(* of compactions and number of crashes: the lemmas on the selection a     *)
(* reader makes of a file's lines, the inductive invariants on the live    *)
(* file, on the file a compaction is about to rename into place and on the *)
(* archive, and the theorems they give.                                    *)
(***************************************************************************)
EXTENDS JsonlQueue, FiniteSetTheorems, SequenceTheorems, TLAPS

-----------------------------------------------------------------------------
(* Inductive invariants. *)

\* The file the compaction under way renames into place; empty while none is.
Coming == Trimmed(comp)

\* m's text is somewhere in f.
In(f, m) == \E i \in DOMAIN Lines(f) : \E p \in DOMAIN Lines(f)[i] : Lines(f)[i][p] = m

\* The append of m has not reached its first write.
Unwritten(m) == writer[m].pc \in {"new", "opened"}

\* A compaction that is not under way holds nothing, one that is found a file,
\* what it calls malformed is, and it takes one of the bound and may add an inode.
CompInv ==
  /\ comp.pc = "idle" => comp = Idle
  /\ comp.pc # "idle" => inode > 0
  /\ \A i \in DOMAIN comp.garbled : Garbled(comp.garbled[i])
  /\ inode + budget.compactions + (IF comp.pc = "idle" THEN 0 ELSE 1) <= Compactions + 1

\* A topic has a file once somebody opened it, and what stands after the last
\* newline was written by an append that still owes its newline to this file, or
\* was cut off.
OpenInv ==
  /\ \A m \in Msgs : writer[m].pc # "new" => inode > 0
  /\ \A n \in Elems(file.open) :
       n \in history.torn \/ (writer[n].pc = "written" /\ Reaches(n))

\* Appends under way at the same time have met.
MetInv == \A m, n \in Msgs : Busy(m) /\ Busy(n) /\ m # n => m \in history.met

\* In every line of f at most one message is not of the spoilt ones.
Spoilt == history.met \cup history.torn

Contained(f, spoilt) ==
  \A i \in DOMAIN Lines(f) : \A p, q \in DOMAIN Lines(f)[i] :
    Lines(f)[i][p] \notin spoilt /\ Lines(f)[i][q] \notin spoilt => Lines(f)[i][p] = Lines(f)[i][q]

DamageInv == OpenInv /\ MetInv /\ Contained(file, Spoilt) /\ Contained(Coming, Spoilt)

\* No message is twice in f.
OnceIn(f) ==
  \A i, j \in DOMAIN Lines(f) : \A p \in DOMAIN Lines(f)[i], q \in DOMAIN Lines(f)[j] :
    Lines(f)[i][p] = Lines(f)[j][q] => i = j /\ p = q

Once(s) == \A i, j \in DOMAIN s : s[i] = s[j] => i = j

\* A message is in the live file at most once, in what the compaction under way
\* archives or keeps at most once, and nowhere before it is written.
UniqueInv ==
  /\ OnceIn(file) /\ OnceIn(Coming) /\ Once(comp.archiving)
  /\ \A i \in DOMAIN comp.archiving : ~In(Coming, comp.archiving[i])
  /\ \A m \in Msgs : Unwritten(m) =>
       /\ ~In(file, m) /\ ~In(Coming, m)
       /\ m \notin Elems(comp.archiving) \cup Elems(archive) \cup Elems(consumer.delivered)

\* A message written on its own and not expired is where the topic keeps it: in
\* the live file or the archive, and in what the compaction under way will leave.
Settled(m) == /\ writer[m].pc \in {"written", "done"}
              /\ m \notin history.dropped \cup history.overlapped

KeptInv ==
  \A m \in Msgs : Settled(m) =>
    /\ In(file, m) \/ m \in Elems(archive)
    /\ comp.pc = "archive" => \/ In(Coming, m)
                              \/ m \in Elems(archive) \cup Elems(comp.archiving)

\* The archive has a copy more than there were crashes only of a message that no
\* compaction can meet again.
Copies(m) == Cardinality({i \in DOMAIN archive : archive[i] = m})
Pending(m) == IF comp.pc = "idle" THEN In(file, m)
              ELSE In(Coming, m) \/ m \in Elems(comp.archiving)

ArchiveInv ==
  \A m \in Msgs :
    Copies(m) <= (IF Pending(m) THEN 0 ELSE 1) + Crashes - budget.crashes

\* What was delivered lies before the consumer's offset, in the live file and in
\* the one to come, where an entry never stands later than in the live file.
DeliverInv ==
  /\ Once(consumer.delivered)
  /\ \A k \in DOMAIN Entries(file) :
       Entries(file)[k] \in Elems(consumer.delivered) => k <= consumer.cursor
  /\ \A k \in DOMAIN comp.kept :
       comp.kept[k] \in Elems(consumer.delivered) => k <= consumer.cursor
  /\ \A k \in DOMAIN comp.kept, j \in DOMAIN Entries(file) :
       comp.kept[k] = Entries(file)[j] => k <= j

-----------------------------------------------------------------------------
(* Selecting positions of a sequence. *)

LEMMA PositionsFinite ==
  ASSUME NEW n \in Nat, NEW I \in SUBSET (1 .. n)
  PROVE  IsFiniteSet(I) /\ Cardinality(I) \in Nat
<1>1. IsFiniteSet(1 .. n)
  BY FS_Interval
<1>2. IsFiniteSet(I)
  BY <1>1, FS_Subset
<1> QED
  BY <1>2, FS_CardinalityType

LEMMA RankType ==
  ASSUME NEW n \in Nat, NEW I \in SUBSET (1 .. n), NEW i \in 1 .. n
  PROVE  /\ IsFiniteSet(I) /\ Cardinality(I) \in Nat
         /\ IsFiniteSet({j \in I : j <= i})
         /\ Rank(I, i) \in Nat /\ Rank(I, i) <= Cardinality(I) /\ Rank(I, i) <= i
<1>1. IsFiniteSet(1 .. n) /\ IsFiniteSet(1 .. i) /\ Cardinality(1 .. i) = i
  BY FS_Interval
<1>2. IsFiniteSet(I)
  BY <1>1, FS_Subset
<1>3. {j \in I : j <= i} \in SUBSET I /\ {j \in I : j <= i} \in SUBSET (1 .. i)
  <2>1. \A j \in I : j \in Nat /\ j >= 1
    OBVIOUS
  <2>2. \A j : j \in {k \in I : k <= i} => j \in I /\ j \in 1 .. i
    BY <2>1
  <2> QED
    BY <2>2
<1>4. IsFiniteSet({j \in I : j <= i}) /\ Cardinality({j \in I : j <= i}) <= Cardinality(I)
  BY <1>2, <1>3, FS_Subset
<1>5. Cardinality({j \in I : j <= i}) <= i
  BY <1>1, <1>3, FS_Subset
<1>6. Cardinality(I) \in Nat /\ Cardinality({j \in I : j <= i}) \in Nat
  BY <1>2, <1>4, FS_CardinalityType
<1> QED
  BY <1>2, <1>4, <1>5, <1>6 DEF Rank

\* A later position of I has a higher rank.
LEMMA RankIncreases ==
  ASSUME NEW n \in Nat, NEW I \in SUBSET (1 .. n), NEW i \in 1 .. n, NEW j \in I, i < j
  PROVE  Rank(I, i) < Rank(I, j)
<1> DEFINE A == {k \in I : k <= i}
           B == {k \in I : k <= j}
<1>0. j \in 1 .. n /\ \A k \in I : k \in Nat
  OBVIOUS
<1>1. A \in SUBSET B /\ j \in B /\ j \notin A
  <2>1. \A k : k \in A => k \in B
    BY <1>0
  <2> QED
    BY <2>1, <1>0
<1>2. IsFiniteSet(A) /\ IsFiniteSet(B)
  BY <1>0, RankType
<1>b. Rank(I, i) \in Nat /\ Rank(I, j) \in Nat
  BY <1>0, RankType
<1>3. Cardinality(A) <= Cardinality(B) /\ Cardinality(A) # Cardinality(B)
  BY <1>1, <1>2, FS_Subset
<1> QED
  BY <1>b, <1>3 DEF Rank

\* The ranks of the positions of I are 1 .. Cardinality(I), and Nth inverts them.
LEMMA NthFacts ==
  ASSUME NEW n \in Nat, NEW I \in SUBSET (1 .. n)
  PROVE  /\ \A i \in I : Rank(I, i) \in 1 .. Cardinality(I) /\ Nth(I, Rank(I, i)) = i
         /\ \A k \in 1 .. Cardinality(I) : Nth(I, k) \in I /\ Rank(I, Nth(I, k)) = k /\ k <= Nth(I, k)
<1> DEFINE N == Cardinality(I)
           r == [i \in I |-> Rank(I, i)]
<1>1. ASSUME NEW i \in I
      PROVE  Rank(I, i) \in 1 .. N
  <2>1. i \in {j \in I : j <= i}
    OBVIOUS
  <2>2. Cardinality({j \in I : j <= i}) # 0
    BY <2>1, RankType, FS_EmptySet
  <2> QED
    BY <2>2, RankType DEF Rank
<1>2. \A i, j \in I : Rank(I, i) = Rank(I, j) => i = j
  <2> SUFFICES ASSUME NEW i \in I, NEW j \in I, i # j
               PROVE  Rank(I, i) # Rank(I, j)
    OBVIOUS
  <2>1. i \in 1 .. n /\ j \in 1 .. n /\ Rank(I, i) \in Int /\ Rank(I, j) \in Int
    BY <1>1
  <2>2. CASE i < j
    BY <2>1, <2>2, RankIncreases
  <2>3. CASE j < i
    BY <2>1, <2>3, RankIncreases
  <2> QED
    BY <2>1, <2>2, <2>3
<1>3. IsFiniteSet(I) /\ N \in Nat
  BY PositionsFinite
<1>4. IsFiniteSet(1 .. N) /\ Cardinality(1 .. N) = N
  BY <1>3, FS_Interval
<1>5. r \in Injection(I, 1 .. N)
  BY <1>1, <1>2 DEF Injection, IsInjective
<1>6. r \in Surjection(I, 1 .. N)
  BY <1>4, <1>5, FS_Injection
<1>7. \A k \in 1 .. N : \E i \in I : Rank(I, i) = k
  BY <1>6 DEF Surjection
<1>8. \A k \in 1 .. N : Nth(I, k) \in I /\ Rank(I, Nth(I, k)) = k
  BY <1>7 DEF Nth
<1>9. \A k \in 1 .. N : k <= Nth(I, k)
  <2> TAKE k \in 1 .. N
  <2>1. Nth(I, k) \in 1 .. n /\ Rank(I, Nth(I, k)) = k
    BY <1>8
  <2>2. Rank(I, Nth(I, k)) <= Nth(I, k)
    BY <2>1, RankType
  <2> QED
    BY <2>1, <2>2
<1> QED
  BY <1>1, <1>2, <1>8, <1>9

\* What Select returns: one element for each position of I, in order.
LEMMA SelectFacts ==
  ASSUME NEW S, NEW s \in Seq(S), NEW I \in SUBSET (DOMAIN s)
  PROVE  /\ Select(s, I) \in Seq(S)
         /\ Len(Select(s, I)) = Cardinality(I) /\ DOMAIN Select(s, I) = 1 .. Cardinality(I)
         /\ \A k \in DOMAIN Select(s, I) :
              /\ Select(s, I)[k] = s[Nth(I, k)] /\ Nth(I, k) \in I
              /\ Rank(I, Nth(I, k)) = k /\ k <= Nth(I, k)
         /\ \A i \in I : /\ Rank(I, i) \in DOMAIN Select(s, I)
                         /\ Select(s, I)[Rank(I, i)] = s[i]
<1>1. Len(s) \in Nat /\ I \in SUBSET (1 .. Len(s)) /\ \A i \in DOMAIN s : s[i] \in S
  OBVIOUS
<1>2. Cardinality(I) \in Nat
  BY <1>1, PositionsFinite
<1>3. /\ \A i \in I : Rank(I, i) \in 1 .. Cardinality(I) /\ Nth(I, Rank(I, i)) = i
      /\ \A k \in 1 .. Cardinality(I) : Nth(I, k) \in I /\ Rank(I, Nth(I, k)) = k /\ k <= Nth(I, k)
  BY <1>1, NthFacts
<1>4. Select(s, I) = [k \in 1 .. Cardinality(I) |-> s[Nth(I, k)]]
  BY DEF Select
<1>5. \A k \in 1 .. Cardinality(I) : s[Nth(I, k)] \in S
  BY <1>1, <1>3
<1>6. Select(s, I) \in Seq(S) /\ DOMAIN Select(s, I) = 1 .. Cardinality(I)
  BY <1>2, <1>4, <1>5
<1>7. Len(Select(s, I)) = Cardinality(I)
  BY <1>2, <1>6
<1> QED
  BY <1>3, <1>4, <1>6, <1>7

\* Positions up to n have the same rank in two sets that agree up to n.
LEMMA SamePrefix ==
  ASSUME NEW I, NEW J, NEW n \in Nat, I \in SUBSET Nat, J \in SUBSET Nat,
         \A i \in 1 .. n : i \in I <=> i \in J, 0 \notin I \cup J
  PROVE  \A i \in 0 .. n : Rank(I, i) = Rank(J, i)
<1> TAKE i \in 0 .. n
<1>1. \A j \in I \cup J : j \in Nat /\ j # 0
  OBVIOUS
<1>2. ASSUME NEW j \in I \cup J, j <= i
      PROVE  j \in I /\ j \in J
  <2>1. j \in 1 .. n
    BY <1>1, <1>2
  <2> QED
    BY <2>1
<1>3. {j \in I : j <= i} = {j \in J : j <= i}
  BY <1>2
<1> QED
  BY <1>3 DEF Rank

-----------------------------------------------------------------------------
(* The lines of a file, and what a reader makes of them. *)

File == [lines : Seq(Seq(Msgs)), open : Seq(Msgs)]

LEMMA LinesType ==
  ASSUME NEW f \in File
  PROVE  /\ Lines(f) \in Seq(Seq(Msgs))
         /\ Len(Lines(f)) \in Nat /\ DOMAIN Lines(f) = 1 .. Len(Lines(f))
         /\ \A i \in DOMAIN Lines(f) : /\ Lines(f)[i] \in Seq(Msgs) /\ Len(Lines(f)[i]) \in Nat
                                       /\ DOMAIN Lines(f)[i] = 1 .. Len(Lines(f)[i])
         /\ Good(f) \in SUBSET (DOMAIN Lines(f)) /\ Bad(f) \in SUBSET (DOMAIN Lines(f))
<1>1. Lines(f) \in Seq(Seq(Msgs))
  BY DEF Lines, File
<1>2. Len(Lines(f)) \in Nat /\ DOMAIN Lines(f) = 1 .. Len(Lines(f))
      /\ \A i \in DOMAIN Lines(f) : Lines(f)[i] \in Seq(Msgs)
  BY <1>1
<1>3. \A l \in Seq(Msgs) : Len(l) \in Nat /\ DOMAIN l = 1 .. Len(l)
  OBVIOUS
<1> QED
  BY <1>1, <1>2, <1>3 DEF Good, Bad

\* Entries(f) are the lines that parse, in their order.
LEMMA EntriesFacts ==
  ASSUME NEW f \in File
  PROVE  /\ Entries(f) \in Seq(Msgs)
         /\ Len(Entries(f)) = Cardinality(Good(f)) /\ Cardinality(Good(f)) \in Nat
         /\ DOMAIN Entries(f) = 1 .. Len(Entries(f))
         /\ \A k \in DOMAIN Entries(f) :
              /\ Nth(Good(f), k) \in Good(f) /\ Rank(Good(f), Nth(Good(f), k)) = k
              /\ Entries(f)[k] = Lines(f)[Nth(Good(f), k)][1]
         /\ \A i \in Good(f) : /\ Rank(Good(f), i) \in DOMAIN Entries(f)
                               /\ Entries(f)[Rank(Good(f), i)] = Lines(f)[i][1]
<1> DEFINE good == Select(Lines(f), Good(f))
<1>1. /\ Lines(f) \in Seq(Seq(Msgs)) /\ Good(f) \in SUBSET (DOMAIN Lines(f))
      /\ Good(f) \in SUBSET (1 .. Len(Lines(f))) /\ Len(Lines(f)) \in Nat
  BY LinesType
<1>2. /\ good \in Seq(Seq(Msgs))
      /\ Len(good) = Cardinality(Good(f)) /\ DOMAIN good = 1 .. Cardinality(Good(f))
      /\ \A k \in DOMAIN good : /\ good[k] = Lines(f)[Nth(Good(f), k)] /\ Nth(Good(f), k) \in Good(f)
                                /\ Rank(Good(f), Nth(Good(f), k)) = k
      /\ \A i \in Good(f) : Rank(Good(f), i) \in DOMAIN good /\ good[Rank(Good(f), i)] = Lines(f)[i]
  BY <1>1, SelectFacts
<1>3. Cardinality(Good(f)) \in Nat
  BY <1>1, PositionsFinite
<1>4. \A i \in Good(f) : Lines(f)[i][1] \in Msgs
  <2> TAKE i \in Good(f)
  <2>1. i \in DOMAIN Lines(f) /\ Len(Lines(f)[i]) = 1
    BY DEF Good, Parses
  <2>2. 1 \in DOMAIN Lines(f)[i] /\ Lines(f)[i] \in Seq(Msgs)
    BY <2>1, LinesType
  <2> QED
    BY <2>2
<1>5. Entries(f) = [k \in 1 .. Cardinality(Good(f)) |-> good[k][1]]
  BY <1>2 DEF Entries
<1> HIDE DEF good
<1>a. DOMAIN Entries(f) = 1 .. Cardinality(Good(f))
  BY <1>5
<1>b. \A k \in DOMAIN Entries(f) : Entries(f)[k] = good[k][1] /\ Entries(f)[k] \in Msgs
  <2> TAKE k \in DOMAIN Entries(f)
  <2>1. k \in DOMAIN good /\ Entries(f)[k] = good[k][1]
    BY <1>2, <1>5
  <2>2. Nth(Good(f), k) \in Good(f) /\ good[k] = Lines(f)[Nth(Good(f), k)]
    BY <1>2, <2>1
  <2> QED
    BY <1>4, <2>1, <2>2
<1>6. /\ DOMAIN Entries(f) = 1 .. Cardinality(Good(f))
      /\ \A k \in DOMAIN Entries(f) : Entries(f)[k] = good[k][1] /\ Entries(f)[k] \in Msgs
  BY <1>a, <1>b
<1>7. Entries(f) \in Seq(Msgs) /\ Len(Entries(f)) = Cardinality(Good(f))
  BY <1>3, <1>5, <1>6
<1> QED
  BY <1>2, <1>3, <1>6, <1>7

\* Malformed(f) are the lines of more than one text.
LEMMA MalformedFacts ==
  ASSUME NEW f \in File
  PROVE  /\ Malformed(f) \in Seq(Seq(Msgs))
         /\ Len(Malformed(f)) \in Nat /\ DOMAIN Malformed(f) = 1 .. Len(Malformed(f))
         /\ \A k \in DOMAIN Malformed(f) :
              /\ Nth(Bad(f), k) \in Bad(f) /\ Rank(Bad(f), Nth(Bad(f), k)) = k
              /\ Malformed(f)[k] = Lines(f)[Nth(Bad(f), k)] /\ Garbled(Malformed(f)[k])
         /\ \A i \in Bad(f) : /\ Rank(Bad(f), i) \in DOMAIN Malformed(f)
                              /\ Malformed(f)[Rank(Bad(f), i)] = Lines(f)[i]
<1>1. /\ Lines(f) \in Seq(Seq(Msgs)) /\ Bad(f) \in SUBSET (DOMAIN Lines(f))
      /\ Bad(f) \in SUBSET (1 .. Len(Lines(f))) /\ Len(Lines(f)) \in Nat
  BY LinesType
<1>2. Cardinality(Bad(f)) \in Nat
  BY <1>1, PositionsFinite
<1>3. /\ Malformed(f) \in Seq(Seq(Msgs))
      /\ Len(Malformed(f)) = Cardinality(Bad(f)) /\ DOMAIN Malformed(f) = 1 .. Cardinality(Bad(f))
      /\ \A k \in DOMAIN Malformed(f) :
           /\ Malformed(f)[k] = Lines(f)[Nth(Bad(f), k)] /\ Nth(Bad(f), k) \in Bad(f)
           /\ Rank(Bad(f), Nth(Bad(f), k)) = k
      /\ \A i \in Bad(f) : /\ Rank(Bad(f), i) \in DOMAIN Malformed(f)
                           /\ Malformed(f)[Rank(Bad(f), i)] = Lines(f)[i]
  BY <1>1, SelectFacts DEF Malformed
<1>4. \A i \in Bad(f) : Garbled(Lines(f)[i])
  BY DEF Bad
<1> QED
  BY <1>2, <1>3, <1>4

\* A message is in a file when it is an entry or in a malformed line.
LEMMA InFacts ==
  ASSUME NEW f \in File, NEW m
  PROVE  In(f, m) <=> m \in Live(f) \cup Garbage(f)
<1>1. ASSUME In(f, m)
      PROVE  m \in Live(f) \cup Garbage(f)
  <2>1. PICK i \in DOMAIN Lines(f) : \E p \in DOMAIN Lines(f)[i] : Lines(f)[i][p] = m
    BY <1>1 DEF In
  <2>2. PICK p \in DOMAIN Lines(f)[i] : Lines(f)[i][p] = m
    BY <2>1
  <2>3. p \in 1 .. Len(Lines(f)[i]) /\ Len(Lines(f)[i]) \in Nat
    BY LinesType
  <2>4. CASE i \in Good(f)
    <3>1. p = 1
      BY <2>3, <2>4 DEF Good, Parses
    <3> QED
      BY <2>2, <2>4, <3>1, EntriesFacts DEF Live, Elems
  <2>5. CASE i \in Bad(f)
    <3>1. PICK k \in DOMAIN Malformed(f) : Malformed(f)[k] = Lines(f)[i]
      BY <2>5, MalformedFacts
    <3>2. Lines(f)[i] \in Elems(Malformed(f)) /\ m \in Elems(Lines(f)[i])
      BY <2>2, <3>1 DEF Elems
    <3> QED
      BY <3>2 DEF Garbage
  <2>6. i \in Good(f) \cup Bad(f)
    <3>a. \A n \in Nat : \A q \in 1 .. n : n = 1 \/ n > 1
      OBVIOUS
    <3>1. Len(Lines(f)[i]) = 1 \/ Len(Lines(f)[i]) > 1
      BY <2>3, <3>a
    <3>2. CASE Len(Lines(f)[i]) = 1
      BY <3>2 DEF Good, Parses
    <3>3. CASE Len(Lines(f)[i]) > 1
      BY <3>3 DEF Bad, Garbled
    <3> QED
      BY <3>1, <3>2, <3>3
  <2> QED
    BY <2>4, <2>5, <2>6
<1>2. ASSUME m \in Live(f)
      PROVE  In(f, m)
  <2>1. PICK k \in DOMAIN Entries(f) : m = Entries(f)[k]
    BY <1>2 DEF Live, Elems
  <2>2. PICK i \in Good(f) : m = Lines(f)[i][1]
    BY <2>1, EntriesFacts
  <2>3. i \in DOMAIN Lines(f) /\ Len(Lines(f)[i]) = 1
    BY <2>2 DEF Good, Parses
  <2>4. 1 \in DOMAIN Lines(f)[i]
    BY <2>3, LinesType
  <2> QED
    BY <2>2, <2>3, <2>4 DEF In
<1>3. ASSUME m \in Garbage(f)
      PROVE  In(f, m)
  <2>1. PICK line \in Elems(Malformed(f)) : m \in Elems(line)
    BY <1>3 DEF Garbage
  <2>2. PICK i \in Bad(f) : line = Lines(f)[i]
    BY <2>1, MalformedFacts DEF Elems
  <2> QED
    BY <2>1, <2>2, LinesType DEF In, Elems
<1> QED
  BY <1>1, <1>2, <1>3

\* The entries of a file with every message once differ.
LEMMA EntriesOnce ==
  ASSUME NEW f \in File, OnceIn(f)
  PROVE  Once(Entries(f))
<1> SUFFICES ASSUME NEW k \in DOMAIN Entries(f), NEW l \in DOMAIN Entries(f),
                    Entries(f)[k] = Entries(f)[l]
             PROVE  k = l
  BY DEF Once
<1> DEFINE i == Nth(Good(f), k)
           j == Nth(Good(f), l)
<1>1. /\ i \in Good(f) /\ Rank(Good(f), i) = k /\ Lines(f)[i][1] = Entries(f)[k]
      /\ j \in Good(f) /\ Rank(Good(f), j) = l /\ Lines(f)[j][1] = Entries(f)[l]
  BY EntriesFacts
<1> HIDE DEF i, j
<1>2. i \in DOMAIN Lines(f) /\ j \in DOMAIN Lines(f) /\ Len(Lines(f)[i]) = 1 /\ Len(Lines(f)[j]) = 1
  BY <1>1 DEF Good, Parses
<1>3. 1 \in DOMAIN Lines(f)[i] /\ 1 \in DOMAIN Lines(f)[j]
  BY <1>2, LinesType
<1>4. i = j
  BY <1>1, <1>2, <1>3 DEF OnceIn
<1> QED
  BY <1>1, <1>4

-----------------------------------------------------------------------------
(* What a write does to the lines. *)

\* After a text is written the last line is the open one with the text at its end.
LEMMA TextLines ==
  ASSUME NEW f \in File, NEW m \in Msgs, NEW g, g = TextAtEnd(f, m)
  PROVE  /\ g \in File /\ g.lines = f.lines /\ g.open = Append(f.open, m)
         /\ Lines(g) = Append(f.lines, g.open)
         /\ Len(f.lines) \in Nat /\ DOMAIN Lines(g) = 1 .. Len(f.lines) + 1
         /\ \A i \in 1 .. Len(f.lines) : /\ i \in DOMAIN Lines(f) /\ Lines(g)[i] = Lines(f)[i]
         /\ Lines(g)[Len(f.lines) + 1] = g.open
         /\ \A i \in DOMAIN Lines(f) : i \in 1 .. Len(f.lines)
                \/ (i = Len(f.lines) + 1 /\ Lines(f)[i] = f.open)
         /\ f.open # <<>> => /\ Len(f.lines) + 1 \in DOMAIN Lines(f)
                             /\ Lines(f)[Len(f.lines) + 1] = f.open
         /\ Len(f.open) \in Nat /\ DOMAIN f.open = 1 .. Len(f.open)
         /\ DOMAIN g.open = 1 .. Len(f.open) + 1 /\ g.open[Len(f.open) + 1] = m
         /\ \A p \in DOMAIN f.open : g.open[p] = f.open[p]
<1>1. f.lines \in Seq(Seq(Msgs)) /\ f.open \in Seq(Msgs)
  BY DEF File
<1>2. g = [lines |-> f.lines, open |-> Append(f.open, m)]
  BY DEF TextAtEnd, File
<1>3. g \in File /\ g.lines = f.lines /\ g.open = Append(f.open, m) /\ g.open # <<>>
  <2>1. Append(f.open, m) \in Seq(Msgs) /\ Append(f.open, m) # <<>>
    BY <1>1
  <2>2. g.lines = f.lines /\ g.open = Append(f.open, m)
    BY <1>2
  <2>3. g \in File
    BY <1>1, <1>2, <2>1 DEF File
  <2> QED
    BY <2>1, <2>2, <2>3
<1>4. Lines(g) = Append(f.lines, g.open)
  BY <1>3 DEF Lines
<1>5. /\ Len(f.lines) \in Nat /\ DOMAIN Lines(g) = 1 .. Len(f.lines) + 1
      /\ \A i \in 1 .. Len(f.lines) : Lines(g)[i] = f.lines[i]
      /\ Lines(g)[Len(f.lines) + 1] = g.open
  BY <1>1, <1>3, <1>4
<1>6. CASE f.open = <<>>
  <2>1. Lines(f) = f.lines
    BY <1>6 DEF Lines
  <2> QED
    BY <1>1, <1>3, <1>4, <1>5, <1>6, <2>1
<1>7. CASE f.open # <<>>
  <2>1. Lines(f) = Append(f.lines, f.open)
    BY <1>7 DEF Lines
  <2>2. /\ DOMAIN Lines(f) = 1 .. Len(f.lines) + 1 /\ Lines(f)[Len(f.lines) + 1] = f.open
        /\ \A i \in 1 .. Len(f.lines) : Lines(f)[i] = f.lines[i]
    BY <1>1, <2>1
  <2> QED
    BY <1>1, <1>3, <1>4, <1>5, <2>2
<1> QED
  BY <1>6, <1>7

\* A text written is one more message of the file, and at most one more entry.
LEMMA TextStep ==
  ASSUME NEW f \in File, NEW m \in Msgs, NEW g, g = TextAtEnd(f, m)
  PROVE  /\ \A n : In(g, n) <=> In(f, n) \/ n = m
         /\ \A k \in DOMAIN Entries(g) :
              \/ Entries(g)[k] = m
              \/ k \in DOMAIN Entries(f) /\ Entries(g)[k] = Entries(f)[k]
         /\ OnceIn(f) /\ ~In(f, m) => OnceIn(g)
         /\ \A i \in DOMAIN Lines(g) : \A p \in DOMAIN Lines(g)[i] :
              \/ i = Len(f.lines) + 1 /\ Lines(g)[i][p] = m
              \/ i \in DOMAIN Lines(f) /\ p \in DOMAIN Lines(f)[i] /\ Lines(g)[i][p] = Lines(f)[i][p]
         /\ \A i \in DOMAIN Lines(f) :
              i = Len(f.lines) + 1 => \A p \in DOMAIN Lines(f)[i] : Lines(f)[i][p] \in Elems(f.open)
         /\ Elems(g.open) = Elems(f.open) \cup {m}
<1> DEFINE N == Len(f.lines)
           L == Len(f.open)
<1>1. /\ g \in File /\ N \in Nat /\ DOMAIN Lines(g) = 1 .. N + 1
      /\ \A i \in 1 .. N : /\ i \in DOMAIN Lines(f) /\ Lines(g)[i] = Lines(f)[i]
      /\ Lines(g)[N + 1] = g.open
      /\ \A i \in DOMAIN Lines(f) : i \in 1 .. N \/ (i = N + 1 /\ Lines(f)[i] = f.open)
      /\ f.open # <<>> => N + 1 \in DOMAIN Lines(f) /\ Lines(f)[N + 1] = f.open
      /\ L \in Nat /\ DOMAIN f.open = 1 .. L
      /\ DOMAIN g.open = 1 .. L + 1 /\ g.open[L + 1] = m
      /\ \A p \in DOMAIN f.open : g.open[p] = f.open[p]
  BY TextLines
<1> HIDE DEF N, L
<1>2. \A i \in DOMAIN Lines(g) : \A p \in DOMAIN Lines(g)[i] :
        \/ i = N + 1 /\ p = L + 1 /\ Lines(g)[i][p] = m
        \/ i \in DOMAIN Lines(f) /\ p \in DOMAIN Lines(f)[i] /\ Lines(g)[i][p] = Lines(f)[i][p]
  <2> TAKE i \in DOMAIN Lines(g)
  <2> TAKE p \in DOMAIN Lines(g)[i]
  <2>1. CASE i \in 1 .. N
    BY <1>1, <2>1
  <2>2. CASE i = N + 1 /\ p = L + 1
    BY <1>1, <2>2
  <2>3. CASE i = N + 1 /\ p # L + 1
    <3>1. p \in DOMAIN f.open
      BY <1>1, <2>3
    <3>2. f.open # <<>>
      BY <3>1
    <3> QED
      BY <1>1, <2>3, <3>1, <3>2
  <2> QED
    BY <1>1, <2>1, <2>2, <2>3
<1>3. \A i \in DOMAIN Lines(f) : \A p \in DOMAIN Lines(f)[i] :
        i \in DOMAIN Lines(g) /\ p \in DOMAIN Lines(g)[i] /\ Lines(g)[i][p] = Lines(f)[i][p]
  <2> TAKE i \in DOMAIN Lines(f)
  <2> TAKE p \in DOMAIN Lines(f)[i]
  <2>1. CASE i \in 1 .. N
    BY <1>1, <2>1
  <2>2. CASE i = N + 1 /\ Lines(f)[i] = f.open
    <3>1. p \in 1 .. L + 1
      BY <1>1, <2>2
    <3> QED
      BY <1>1, <2>2, <3>1
  <2> QED
    BY <1>1, <2>1, <2>2
<1>4. \A n : In(g, n) <=> In(f, n) \/ n = m
  <2>1. ASSUME NEW n, In(g, n)
        PROVE  In(f, n) \/ n = m
    BY <1>2, <2>1 DEF In
  <2>2. ASSUME NEW n, In(f, n)
        PROVE  In(g, n)
    BY <1>3, <2>2 DEF In
  <2>3. N + 1 \in DOMAIN Lines(g) /\ L + 1 \in DOMAIN Lines(g)[N + 1] /\ Lines(g)[N + 1][L + 1] = m
    BY <1>1
  <2>4. In(g, m)
    BY <2>3 DEF In
  <2> QED
    BY <2>1, <2>2, <2>4
<1>5. ASSUME OnceIn(f), ~In(f, m)
      PROVE  OnceIn(g)
  <2> SUFFICES ASSUME NEW i \in DOMAIN Lines(g), NEW j \in DOMAIN Lines(g),
                      NEW p \in DOMAIN Lines(g)[i], NEW q \in DOMAIN Lines(g)[j],
                      Lines(g)[i][p] = Lines(g)[j][q]
               PROVE  i = j /\ p = q
    BY DEF OnceIn
  <2>a. \A a \in DOMAIN Lines(f) : \A b \in DOMAIN Lines(f)[a] : Lines(f)[a][b] # m
    BY <1>5 DEF In
  <2>1. CASE Lines(g)[i][p] = m
    <3>1. i = N + 1 /\ p = L + 1
      BY <1>2, <2>1, <2>a
    <3>2. j = N + 1 /\ q = L + 1
      BY <1>2, <2>1, <2>a
    <3> QED
      BY <3>1, <3>2
  <2>2. CASE Lines(g)[i][p] # m
    BY <1>2, <1>5, <2>2 DEF OnceIn
  <2> QED
    BY <2>1, <2>2
<1>6. ASSUME NEW k \in DOMAIN Entries(g), Entries(g)[k] # m
      PROVE  k \in DOMAIN Entries(f) /\ Entries(g)[k] = Entries(f)[k]
  <2> DEFINE i == Nth(Good(g), k)
  <2>1. i \in Good(g) /\ Rank(Good(g), i) = k /\ Entries(g)[k] = Lines(g)[i][1]
    BY <1>1, EntriesFacts
  <2> HIDE DEF i
  <2>2. i \in DOMAIN Lines(g) /\ Len(Lines(g)[i]) = 1
    BY <2>1 DEF Good, Parses
  <2>3. 1 \in DOMAIN Lines(g)[i] /\ DOMAIN Lines(g)[i] = 1 .. 1
    BY <1>1, <2>2, LinesType
  <2>4. i # N + 1
    <3> SUFFICES ASSUME i = N + 1
                 PROVE  FALSE
      OBVIOUS
    <3>1. DOMAIN g.open = 1 .. 1
      BY <1>1, <2>3
    <3>2. L + 1 \in 1 .. 1
      BY <1>1, <3>1
    <3>3. L + 1 = 1
      BY <1>1, <3>2
    <3> QED
      BY <1>1, <1>6, <2>1, <3>3
  <2>5. i \in 1 .. N
    BY <1>1, <2>2, <2>4
  <2>6. \A j \in 1 .. N : j \in Good(g) <=> j \in Good(f)
    BY <1>1 DEF Good
  <2>7. Good(g) \in SUBSET (Nat \ {0}) /\ Good(f) \in SUBSET (Nat \ {0})
    BY <1>1, LinesType
  <2>8. i \in 0 .. N /\ Good(g) \in SUBSET Nat /\ Good(f) \in SUBSET Nat /\ 0 \notin Good(g) \cup Good(f)
    BY <2>5, <2>7
  <2>9. Rank(Good(f), i) = Rank(Good(g), i)
    BY <1>1, <2>6, <2>8, SamePrefix
  <2> QED
    BY <1>1, <2>1, <2>5, <2>6, <2>9, EntriesFacts
<1>7. \A i \in DOMAIN Lines(f) :
        i = N + 1 => \A p \in DOMAIN Lines(f)[i] : Lines(f)[i][p] \in Elems(f.open)
  <2> TAKE i \in DOMAIN Lines(f)
  <2> HAVE i = N + 1
  <2>1. i \notin 1 .. N
    BY <1>1
  <2>2. Lines(f)[i] = f.open
    BY <1>1, <2>1
  <2> QED
    BY <2>2 DEF Elems
<1>8. Elems(g.open) = Elems(f.open) \cup {m}
  <2>1. \A n : n \in Elems(g.open) => n \in Elems(f.open) \/ n = m
    <3> SUFFICES ASSUME NEW p \in DOMAIN g.open
                 PROVE  g.open[p] \in Elems(f.open) \/ g.open[p] = m
      BY DEF Elems
    <3>1. CASE p = L + 1
      BY <1>1, <3>1
    <3>2. CASE p # L + 1
      <4>1. p \in DOMAIN f.open
        BY <1>1, <3>2
      <4> QED
        BY <1>1, <4>1 DEF Elems
    <3> QED
      BY <3>1, <3>2
  <2>2. m \in Elems(g.open)
    <3>1. L + 1 \in DOMAIN g.open
      BY <1>1
    <3> QED
      BY <1>1, <3>1 DEF Elems
  <2>3. \A n : n \in Elems(f.open) => n \in Elems(g.open)
    <3> SUFFICES ASSUME NEW p \in DOMAIN f.open
                 PROVE  f.open[p] \in Elems(g.open)
      BY DEF Elems
    <3>1. p \in DOMAIN g.open
      BY <1>1
    <3> QED
      BY <1>1, <3>1 DEF Elems
  <2> QED
    BY <2>1, <2>2, <2>3
<1>9. \A i \in DOMAIN Lines(g) : \A p \in DOMAIN Lines(g)[i] :
        \/ i = N + 1 /\ Lines(g)[i][p] = m
        \/ i \in DOMAIN Lines(f) /\ p \in DOMAIN Lines(f)[i] /\ Lines(g)[i][p] = Lines(f)[i][p]
  BY <1>2
<1> QED
  BY <1>4, <1>5, <1>6, <1>7, <1>8, <1>9 DEF N

\* A newline changes no text: it closes the open line or adds an empty one.
LEMMA NewlineStep ==
  ASSUME NEW f \in File, NEW g, g = NewlineAtEnd(f)
  PROVE  /\ g \in File /\ g.open = <<>>
         /\ \A i \in DOMAIN Lines(g) :
              Lines(g)[i] = <<>> \/ (i \in DOMAIN Lines(f) /\ Lines(g)[i] = Lines(f)[i])
         /\ \A i \in DOMAIN Lines(f) : i \in DOMAIN Lines(g) /\ Lines(g)[i] = Lines(f)[i]
         /\ Entries(g) = Entries(f)
<1>1. f.lines \in Seq(Seq(Msgs)) /\ f.open \in Seq(Msgs)
  BY DEF File
<1>2. g.lines = Append(f.lines, f.open) /\ g.open = <<>> /\ g \in File
  BY <1>1 DEF NewlineAtEnd, File
<1>3. Lines(g) = Append(f.lines, f.open)
  BY <1>2 DEF Lines
<1>4. /\ \A i \in DOMAIN Lines(g) :
           Lines(g)[i] = <<>> \/ (i \in DOMAIN Lines(f) /\ Lines(g)[i] = Lines(f)[i])
      /\ \A i \in DOMAIN Lines(f) : i \in DOMAIN Lines(g) /\ Lines(g)[i] = Lines(f)[i]
  <2>1. CASE f.open = <<>>
    <3>1. Lines(f) = f.lines
      BY <2>1 DEF Lines
    <3> QED
      BY <1>1, <1>3, <2>1, <3>1
  <2>2. CASE f.open # <<>>
    <3>1. Lines(f) = Lines(g)
      BY <1>3, <2>2 DEF Lines
    <3> QED
      BY <3>1
  <2> QED
    BY <2>1, <2>2
<1>5. Good(g) = Good(f)
  <2>1. Len(<<>>) # 1
    OBVIOUS
  <2> QED
    BY <1>4, <2>1 DEF Good, Parses
<1>6. DOMAIN Entries(g) = DOMAIN Entries(f)
  BY <1>2, <1>5, EntriesFacts
<1>7. \A k \in DOMAIN Entries(f) : Entries(g)[k] = Entries(f)[k]
  <2> TAKE k \in DOMAIN Entries(f)
  <2>1. Nth(Good(f), k) \in DOMAIN Lines(f)
    BY EntriesFacts DEF Good
  <2> QED
    BY <1>2, <1>4, <1>5, <1>6, <2>1, EntriesFacts
<1>8. Entries(g) \in Seq(Msgs) /\ Entries(f) \in Seq(Msgs)
  BY <1>2, EntriesFacts
<1> QED
  BY <1>2, <1>4, <1>6, <1>7, <1>8

-----------------------------------------------------------------------------
(* What a compaction makes of a file. *)

LEMMA ConcatFacts ==
  ASSUME NEW S, NEW s \in Seq(S), NEW t \in Seq(S)
  PROVE  /\ s \o t \in Seq(S) /\ Len(s) \in Nat /\ Len(t) \in Nat
         /\ Len(s \o t) = Len(s) + Len(t) /\ DOMAIN (s \o t) = 1 .. Len(s) + Len(t)
         /\ \A i \in 1 .. Len(s) : (s \o t)[i] = s[i]
         /\ \A k \in 1 .. Len(t) : (s \o t)[Len(s) + k] = t[k]
<1>1. Len(s) \in Nat /\ Len(t) \in Nat /\ s \o t \in Seq(S)
  OBVIOUS
<1>2. Len(s \o t) = Len(s) + Len(t) /\ DOMAIN (s \o t) = 1 .. Len(s) + Len(t)
  BY <1>1
<1>3. ASSUME NEW i \in 1 .. Len(s)
      PROVE  (s \o t)[i] = s[i]
  BY <1>1
<1>4. ASSUME NEW k \in 1 .. Len(t)
      PROVE  (s \o t)[Len(s) + k] = t[k]
  BY <1>1
<1> QED
  BY <1>1, <1>2, <1>3, <1>4

\* The file write_trimmed writes: the malformed lines, and a line for each entry kept.
LEMMA TrimmedLines ==
  ASSUME NEW c, c.kept \in Seq(Msgs), c.garbled \in Seq(Seq(Msgs))
  PROVE  /\ Trimmed(c) \in File /\ Trimmed(c).open = <<>>
         /\ Len(c.garbled) \in Nat /\ Len(c.kept) \in Nat
         /\ DOMAIN c.garbled = 1 .. Len(c.garbled) /\ DOMAIN c.kept = 1 .. Len(c.kept)
         /\ DOMAIN Lines(Trimmed(c)) = 1 .. Len(c.garbled) + Len(c.kept)
         /\ \A i \in 1 .. Len(c.garbled) : Lines(Trimmed(c))[i] = c.garbled[i]
         /\ \A k \in 1 .. Len(c.kept) : Lines(Trimmed(c))[Len(c.garbled) + k] = <<c.kept[k]>>
         /\ \A i \in DOMAIN Lines(Trimmed(c)) :
              i \in 1 .. Len(c.garbled) \/ \E k \in 1 .. Len(c.kept) : i = Len(c.garbled) + k
<1> DEFINE ones == [k \in DOMAIN c.kept |-> <<c.kept[k]>>]
           G == Len(c.garbled)
           K == Len(c.kept)
<1>1. G \in Nat /\ K \in Nat /\ DOMAIN c.garbled = 1 .. G /\ DOMAIN c.kept = 1 .. K
  OBVIOUS
<1>2. \A k \in 1 .. K : <<c.kept[k]>> \in Seq(Msgs)
  <2> TAKE k \in 1 .. K
  <2>1. c.kept[k] \in Msgs
    BY <1>1
  <2> QED
    BY <2>1
<1>3. ones \in Seq(Seq(Msgs)) /\ Len(ones) = K /\ DOMAIN ones = 1 .. K
      /\ \A k \in 1 .. K : ones[k] = <<c.kept[k]>>
  BY <1>1, <1>2
<1>4. Trimmed(c) = [lines |-> c.garbled \o ones, open |-> <<>>]
  BY DEF Trimmed
<1> HIDE DEF ones, G, K
<1>5. c.garbled \o ones \in Seq(Seq(Msgs)) /\ <<>> \in Seq(Msgs)
  BY <1>3
<1>6. Trimmed(c) \in File /\ Trimmed(c).open = <<>> /\ Lines(Trimmed(c)) = c.garbled \o ones
  BY <1>4, <1>5 DEF File, Lines
<1>7. /\ DOMAIN (c.garbled \o ones) = 1 .. G + K
      /\ \A i \in 1 .. G : (c.garbled \o ones)[i] = c.garbled[i]
      /\ \A k \in 1 .. K : (c.garbled \o ones)[G + k] = ones[k]
  <2>1. c.garbled \in Seq(Seq(Msgs)) /\ ones \in Seq(Seq(Msgs)) /\ Len(c.garbled) = G /\ Len(ones) = K
    BY <1>3 DEF G
  <2>a. \A s, t \in Seq(Seq(Msgs)) :
          /\ DOMAIN (s \o t) = 1 .. Len(s) + Len(t)
          /\ \A i \in 1 .. Len(s) : (s \o t)[i] = s[i]
          /\ \A k \in 1 .. Len(t) : (s \o t)[Len(s) + k] = t[k]
    BY ConcatFacts
  <2>2. /\ DOMAIN (c.garbled \o ones) = 1 .. Len(c.garbled) + Len(ones)
        /\ \A i \in 1 .. Len(c.garbled) : (c.garbled \o ones)[i] = c.garbled[i]
        /\ \A k \in 1 .. Len(ones) : (c.garbled \o ones)[Len(c.garbled) + k] = ones[k]
    BY <2>1, <2>a, Zenon
  <2> QED
    BY <2>1, <2>2
<1>8. \A i \in 1 .. G + K : i \in 1 .. G \/ \E k \in 1 .. K : i = G + k
  <2> TAKE i \in 1 .. G + K
  <2>1. CASE i > G
    <3>1. i - G \in 1 .. K /\ i = G + (i - G)
      BY <1>1, <2>1
    <3> QED
      BY <3>1
  <2> QED
    BY <1>1, <2>1
<1> QED
  BY <1>1, <1>3, <1>6, <1>7, <1>8 DEF G, K

\* Its entries are the entries kept.
LEMMA TrimmedEntries ==
  ASSUME NEW c, c.kept \in Seq(Msgs), c.garbled \in Seq(Seq(Msgs)),
         \A i \in DOMAIN c.garbled : Garbled(c.garbled[i])
  PROVE  Entries(Trimmed(c)) = c.kept
<1> DEFINE f == Trimmed(c)
           G == Len(c.garbled)
           K == Len(c.kept)
<1>1. /\ f \in File /\ G \in Nat /\ K \in Nat
      /\ DOMAIN c.garbled = 1 .. G /\ DOMAIN c.kept = 1 .. K
      /\ DOMAIN Lines(f) = 1 .. G + K
      /\ \A i \in 1 .. G : Lines(f)[i] = c.garbled[i]
      /\ \A k \in 1 .. K : Lines(f)[G + k] = <<c.kept[k]>>
      /\ \A i \in DOMAIN Lines(f) : i \in 1 .. G \/ \E k \in 1 .. K : i = G + k
  BY TrimmedLines
<1> HIDE DEF f, G, K
<1>2. Good(f) = G + 1 .. G + K
  <2>1. ASSUME NEW i \in Good(f)
        PROVE  i \in G + 1 .. G + K
    <3>1. i \in DOMAIN Lines(f) /\ Len(Lines(f)[i]) = 1
      BY <2>1 DEF Good, Parses
    <3>2. i \notin 1 .. G
      <4> SUFFICES ASSUME i \in 1 .. G
                   PROVE  FALSE
        OBVIOUS
      <4>1. Garbled(c.garbled[i]) /\ Lines(f)[i] = c.garbled[i]
        BY <1>1
      <4>2. Len(Lines(f)[i]) > 1
        BY <4>1 DEF Garbled
      <4> QED
        BY <3>1, <4>2
    <3> QED
      BY <1>1, <3>1, <3>2
  <2>2. ASSUME NEW i \in G + 1 .. G + K
        PROVE  i \in Good(f)
    <3>1. PICK k \in 1 .. K : i = G + k
      <4>1. i - G \in 1 .. K /\ i = G + (i - G)
        BY <1>1
      <4> QED
        BY <4>1
    <3>2. i \in DOMAIN Lines(f) /\ Lines(f)[i] = <<c.kept[k]>>
      BY <1>1, <3>1
    <3>3. Len(<<c.kept[k]>>) = 1
      OBVIOUS
    <3> QED
      BY <3>2, <3>3 DEF Good, Parses
  <2> QED
    BY <2>1, <2>2
<1>3. Cardinality(G + 1 .. G + K) = K
  <2>a. G + 1 \in Int /\ G + K \in Int
    BY <1>1
  <2>1. Cardinality(G + 1 .. G + K) = IF G + 1 > G + K THEN 0 ELSE (G + K) - (G + 1) + 1
    BY <2>a, FS_Interval
  <2> QED
    BY <1>1, <2>1
<1>4. \A k \in 1 .. K : G + k \in Good(f) /\ Rank(Good(f), G + k) = k
  <2> TAKE k \in 1 .. K
  <2>1. {j \in G + 1 .. G + K : j <= G + k} = G + 1 .. G + k
    BY <1>1
  <2>2. Cardinality(G + 1 .. G + k) = IF G + 1 > G + k THEN 0 ELSE (G + k) - (G + 1) + 1
    BY <1>1, FS_Interval
  <2>3. Cardinality(G + 1 .. G + k) = k
    BY <1>1, <2>2
  <2>4. Rank(Good(f), G + k) = k
    BY <1>2, <2>1, <2>3 DEF Rank
  <2> QED
    BY <1>1, <1>2, <2>4
<1>5. DOMAIN Entries(f) = 1 .. K /\ Entries(f) \in Seq(Msgs)
  BY <1>1, <1>2, <1>3, EntriesFacts
<1>6. \A k \in 1 .. K : Entries(f)[k] = c.kept[k]
  <2> TAKE k \in 1 .. K
  <2>1. Entries(f)[k] = Lines(f)[G + k][1]
    BY <1>1, <1>4, EntriesFacts
  <2> QED
    BY <1>1, <2>1
<1> QED
  BY <1>1, <1>5, <1>6 DEF f

\* A message is in it when it was kept or is in a malformed line.
LEMMA TrimmedIn ==
  ASSUME NEW c, c.kept \in Seq(Msgs), c.garbled \in Seq(Seq(Msgs)), NEW m
  PROVE  In(Trimmed(c), m) <=>
           \/ m \in Elems(c.kept)
           \/ \E i \in DOMAIN c.garbled : m \in Elems(c.garbled[i])
<1> DEFINE f == Trimmed(c)
           G == Len(c.garbled)
           K == Len(c.kept)
<1>1. /\ f \in File /\ G \in Nat /\ K \in Nat
      /\ DOMAIN c.garbled = 1 .. G /\ DOMAIN c.kept = 1 .. K
      /\ DOMAIN Lines(f) = 1 .. G + K
      /\ \A i \in 1 .. G : Lines(f)[i] = c.garbled[i]
      /\ \A k \in 1 .. K : Lines(f)[G + k] = <<c.kept[k]>>
      /\ \A i \in DOMAIN Lines(f) : i \in 1 .. G \/ \E k \in 1 .. K : i = G + k
  BY TrimmedLines
<1>a. \A k \in 1 .. K : DOMAIN <<c.kept[k]>> = {1} /\ <<c.kept[k]>>[1] = c.kept[k]
  OBVIOUS
<1> HIDE DEF f, G, K
<1>2. ASSUME In(f, m)
      PROVE  m \in Elems(c.kept) \/ \E i \in DOMAIN c.garbled : m \in Elems(c.garbled[i])
  <2>1. PICK i \in DOMAIN Lines(f) : \E p \in DOMAIN Lines(f)[i] : Lines(f)[i][p] = m
    BY <1>2 DEF In
  <2>p. PICK p \in DOMAIN Lines(f)[i] : Lines(f)[i][p] = m
    BY <2>1
  <2>2. CASE i \in 1 .. G
    <3>1. Lines(f)[i] = c.garbled[i] /\ i \in DOMAIN c.garbled
      BY <1>1, <2>2
    <3>2. m \in Elems(c.garbled[i])
      BY <2>p, <3>1 DEF Elems
    <3> QED
      BY <3>1, <3>2
  <2>3. CASE \E k \in 1 .. K : i = G + k
    <3>1. PICK k \in 1 .. K : i = G + k
      BY <2>3
    <3>2. Lines(f)[i] = <<c.kept[k]>>
      BY <1>1, <3>1
    <3>3. m = c.kept[k] /\ k \in DOMAIN c.kept
      BY <1>1, <1>a, <2>p, <3>2
    <3> QED
      BY <3>3 DEF Elems
  <2> QED
    BY <1>1, <2>2, <2>3
<1>3. ASSUME NEW k \in 1 .. K, c.kept[k] = m
      PROVE  In(f, m)
  <2>1. G + k \in DOMAIN Lines(f) /\ Lines(f)[G + k] = <<c.kept[k]>>
    BY <1>1
  <2>2. 1 \in DOMAIN Lines(f)[G + k] /\ Lines(f)[G + k][1] = m
    BY <1>a, <1>3, <2>1
  <2> QED
    BY <2>1, <2>2 DEF In
<1>4. ASSUME NEW i \in 1 .. G, m \in Elems(c.garbled[i])
      PROVE  In(f, m)
  <2>1. i \in DOMAIN Lines(f) /\ Lines(f)[i] = c.garbled[i]
    BY <1>1
  <2> QED
    BY <1>4, <2>1 DEF In, Elems
<1>5. m \in Elems(c.kept) => \E k \in 1 .. K : c.kept[k] = m
  BY <1>1 DEF Elems
<1> QED
  BY <1>1, <1>2, <1>3, <1>4, <1>5 DEF f

LEMMA SelectOnce ==
  ASSUME NEW s \in Seq(Msgs), Once(s), NEW I \in SUBSET (DOMAIN s)
  PROVE  Once(Select(s, I))
<1>1. \A k \in DOMAIN Select(s, I) :
        Nth(I, k) \in DOMAIN s /\ Select(s, I)[k] = s[Nth(I, k)] /\ Rank(I, Nth(I, k)) = k
  BY SelectFacts
<1> SUFFICES ASSUME NEW k \in DOMAIN Select(s, I), NEW l \in DOMAIN Select(s, I),
                    Select(s, I)[k] = Select(s, I)[l]
             PROVE  k = l
  BY DEF Once
<1>2. s[Nth(I, k)] = s[Nth(I, l)] /\ Nth(I, k) \in DOMAIN s /\ Nth(I, l) \in DOMAIN s
  BY <1>1
<1>3. Nth(I, k) = Nth(I, l)
  BY <1>2 DEF Once
<1> QED
  BY <1>1, <1>3

\* The cap splits a sequence after its excess, of d elements.
LEMMA CapFacts ==
  ASSUME NEW s \in Seq(Msgs)
  PROVE  /\ Excess(s) \in Seq(Msgs) /\ Within(s) \in Seq(Msgs)
         /\ \E d \in 0 .. Len(s) :
              /\ Len(Excess(s)) = d /\ DOMAIN Excess(s) = 1 .. d
              /\ \A i \in 1 .. d : i \in DOMAIN s /\ Excess(s)[i] = s[i]
              /\ DOMAIN Within(s) = 1 .. Len(s) - d
              /\ \A k \in 1 .. Len(s) - d : k + d \in DOMAIN s /\ Within(s)[k] = s[k + d]
<1>1. Len(s) \in Nat /\ MaxMessages \in Nat /\ DOMAIN s = 1 .. Len(s)
  BY QueueAssumption
<1>2. CASE Len(s) <= MaxMessages
  <2>1. Excess(s) = <<>>
    BY <1>1, <1>2 DEF Excess
  <2>2. Within(s) = s
    BY <1>1, <1>2 DEF Within
  <2>3. <<>> \in Seq(Msgs) /\ Len(<<>>) = 0 /\ DOMAIN <<>> = 1 .. 0
    OBVIOUS
  <2>4. /\ Len(Excess(s)) = 0 /\ DOMAIN Excess(s) = 1 .. 0
        /\ \A i \in 1 .. 0 : i \in DOMAIN s /\ Excess(s)[i] = s[i]
        /\ DOMAIN Within(s) = 1 .. Len(s) - 0
        /\ \A k \in 1 .. Len(s) - 0 : k + 0 \in DOMAIN s /\ Within(s)[k] = s[k + 0]
    BY <1>1, <2>1, <2>2, <2>3
  <2>5. 0 \in 0 .. Len(s)
    BY <1>1
  <2> QED
    BY <2>1, <2>2, <2>3, <2>4, <2>5
<1>3. CASE Len(s) > MaxMessages
  <2> DEFINE d == Len(s) - MaxMessages
  <2>1. d \in 1 .. Len(s) /\ d + 1 \in 1 .. Len(s) + 1
    BY <1>1, <1>3
  <2>2. Excess(s) = SubSeq(s, 1, d) /\ Within(s) = SubSeq(s, d + 1, Len(s))
    BY <1>1, <1>3 DEF Excess, Within
  <2> HIDE DEF d
  <2>3. /\ SubSeq(s, 1, d) \in Seq(Msgs) /\ Len(SubSeq(s, 1, d)) = d
        /\ \A i \in 1 .. d : SubSeq(s, 1, d)[i] = s[i]
    BY <1>1, <2>1
  <2>4. /\ SubSeq(s, d + 1, Len(s)) \in Seq(Msgs) /\ Len(SubSeq(s, d + 1, Len(s))) = Len(s) - d
        /\ \A k \in 1 .. Len(s) - d : SubSeq(s, d + 1, Len(s))[k] = s[k + d]
    <3> DEFINE rest == SubSeq(s, d + 1, Len(s))
    <3>1. rest \in Seq(Msgs)
      BY <1>1, <2>1
    <3>a. d + 1 \in Int /\ Len(s) \in Int /\ \A i \in d + 1 .. Len(s) : s[i] \in Msgs
      BY <1>1, <2>1
    <3>b. Len(rest) = IF d + 1 <= Len(s) THEN Len(s) - (d + 1) + 1 ELSE 0
      BY <3>a, SubSeqProperties
    <3>c. \A n \in Nat : \A e \in 1 .. n : (IF e + 1 <= n THEN n - (e + 1) + 1 ELSE 0) = n - e
      OBVIOUS
    <3> HIDE DEF rest
    <3>2. Len(rest) = Len(s) - d
      BY <1>1, <2>1, <3>b, <3>c
    <3> USE DEF rest
    <3>3. ASSUME NEW k \in 1 .. Len(s) - d
          PROVE  SubSeq(s, d + 1, Len(s))[k] = s[k + d]
      <4>1. k \in 1 .. (Len(s) + 1 - (d + 1)) /\ (d + 1) + k - 1 = k + d
        BY <1>1, <2>1
      <4>2. SubSeq(s, d + 1, Len(s))[k] = s[(d + 1) + k - 1]
        BY <1>1, <2>1, <4>1
      <4> QED
        BY <4>1, <4>2
    <3> QED
      BY <3>1, <3>2, <3>3
  <2>5. DOMAIN SubSeq(s, 1, d) = 1 .. d /\ DOMAIN SubSeq(s, d + 1, Len(s)) = 1 .. Len(s) - d
    BY <2>3, <2>4
  <2>6. \A i \in 1 .. d : i \in DOMAIN s
    BY <1>1, <2>1
  <2>7. \A k \in 1 .. Len(s) - d : k + d \in DOMAIN s
    BY <1>1, <2>1
  <2> QED
    BY <2>1, <2>2, <2>3, <2>4, <2>5, <2>6, <2>7
<1> QED
  BY <1>1, <1>2, <1>3

\* Where each entry a compaction archives or keeps stands among the entries e it
\* read: in order among those kept, and at no position twice.
LEMMA SplitSources ==
  ASSUME NEW f \in File, NEW gone, NEW aging, OnceIn(f), NEW c, c = Split(f, gone, aging)
  PROVE  /\ c.pc = "archive" /\ c.archiving \in Seq(Msgs) /\ c.kept \in Seq(Msgs)
         /\ c.garbled = Malformed(f)
         /\ \A k \in DOMAIN c.kept :
              \E x \in DOMAIN Entries(f) : x >= k /\ c.kept[k] = Entries(f)[x]
         /\ \A i \in DOMAIN c.archiving :
              \E x \in DOMAIN Entries(f) : c.archiving[i] = Entries(f)[x]
         /\ Once(c.archiving) /\ Once(c.kept)
         /\ \A i \in DOMAIN c.archiving, k \in DOMAIN c.kept : c.archiving[i] # c.kept[k]
         /\ \A x \in DOMAIN Entries(f) :
              \/ Entries(f)[x] \in gone
              \/ Entries(f)[x] \in Elems(c.archiving) \cup Elems(c.kept)
<1> DEFINE E == Entries(f)
           Y == Young(f, gone, aging)
           A == Aged(f, gone, aging)
           young == Select(E, Y)
           aged == Select(E, A)
           a == Cardinality(A)
           y == Cardinality(Y)
<1>1. E \in Seq(Msgs) /\ Once(E) /\ DOMAIN E = 1 .. Len(E) /\ Len(E) \in Nat
  BY EntriesFacts, EntriesOnce
<1>2. /\ Y \in SUBSET (DOMAIN E) /\ A \in SUBSET (DOMAIN E)
      /\ \A x \in Y : x \notin A
      /\ \A x \in DOMAIN E : x \in Y \/ x \in A \/ E[x] \in gone
  BY DEF Young, Aged
<1>3. /\ c.pc = "archive" /\ c.garbled = Malformed(f)
      /\ c.archiving = aged \o Excess(young) /\ c.kept = Within(young)
  BY DEF Split
<1> HIDE DEF E, Y, A
<1>4. /\ young \in Seq(Msgs) /\ Len(young) = y /\ DOMAIN young = 1 .. y
      /\ \A k \in 1 .. y : Nth(Y, k) \in Y /\ young[k] = E[Nth(Y, k)] /\ k <= Nth(Y, k)
      /\ \A x \in Y : Rank(Y, x) \in 1 .. y /\ young[Rank(Y, x)] = E[x]
  BY <1>1, <1>2, SelectFacts
<1>5. /\ aged \in Seq(Msgs) /\ Len(aged) = a /\ DOMAIN aged = 1 .. a
      /\ \A k \in 1 .. a : Nth(A, k) \in A /\ aged[k] = E[Nth(A, k)]
      /\ \A x \in A : Rank(A, x) \in 1 .. a /\ aged[Rank(A, x)] = E[x]
  BY <1>1, <1>2, SelectFacts
<1>6. a \in Nat /\ y \in Nat
  BY <1>1, <1>2, PositionsFinite
<1>7. Once(young) /\ Once(aged)
  BY <1>1, <1>2, SelectOnce
<1>8. \A i \in 1 .. a : \A k \in 1 .. y : aged[i] # young[k]
  <2> TAKE i \in 1 .. a
  <2> TAKE k \in 1 .. y
  <2>1. Nth(A, i) \in A /\ Nth(Y, k) \in Y /\ aged[i] = E[Nth(A, i)] /\ young[k] = E[Nth(Y, k)]
    BY <1>4, <1>5
  <2>2. Nth(A, i) # Nth(Y, k) /\ Nth(A, i) \in DOMAIN E /\ Nth(Y, k) \in DOMAIN E
    BY <1>2, <2>1
  <2> QED
    BY <1>1, <2>1, <2>2 DEF Once
<1> HIDE DEF young, aged, a, y
<1>9. Excess(young) \in Seq(Msgs) /\ c.kept \in Seq(Msgs)
  BY <1>3, <1>4, CapFacts
<1>10. PICK d \in 0 .. y :
         /\ Len(Excess(young)) = d /\ DOMAIN Excess(young) = 1 .. d
         /\ \A i \in 1 .. d : i \in DOMAIN young /\ Excess(young)[i] = young[i]
         /\ DOMAIN c.kept = 1 .. y - d
         /\ \A k \in 1 .. y - d : k + d \in DOMAIN young /\ c.kept[k] = young[k + d]
  <2>1. PICK d \in 0 .. Len(young) :
          /\ Len(Excess(young)) = d /\ DOMAIN Excess(young) = 1 .. d
          /\ \A i \in 1 .. d : i \in DOMAIN young /\ Excess(young)[i] = young[i]
          /\ DOMAIN Within(young) = 1 .. Len(young) - d
          /\ \A k \in 1 .. Len(young) - d : k + d \in DOMAIN young /\ Within(young)[k] = young[k + d]
    BY <1>4, CapFacts
  <2>2. Len(young) = y /\ c.kept = Within(young)
    BY <1>3, <1>4
  <2> QED
    BY <2>1, <2>2
<1>11. /\ c.archiving \in Seq(Msgs) /\ DOMAIN c.archiving = 1 .. a + d
       /\ \A i \in 1 .. a : c.archiving[i] = aged[i]
       /\ \A i \in 1 .. d : c.archiving[a + i] = young[i]
  <2>1. \A s, t \in Seq(Msgs) :
          /\ s \o t \in Seq(Msgs) /\ DOMAIN (s \o t) = 1 .. Len(s) + Len(t)
          /\ \A i \in 1 .. Len(s) : (s \o t)[i] = s[i]
          /\ \A k \in 1 .. Len(t) : (s \o t)[Len(s) + k] = t[k]
    BY ConcatFacts
  <2>2. /\ aged \o Excess(young) \in Seq(Msgs)
        /\ DOMAIN (aged \o Excess(young)) = 1 .. Len(aged) + Len(Excess(young))
        /\ \A i \in 1 .. Len(aged) : (aged \o Excess(young))[i] = aged[i]
        /\ \A k \in 1 .. Len(Excess(young)) :
             (aged \o Excess(young))[Len(aged) + k] = Excess(young)[k]
    BY <1>5, <1>9, <2>1, Zenon
  <2>3. Len(aged) = a /\ Len(Excess(young)) = d
    BY <1>5, <1>10
  <2> QED
    BY <1>3, <1>10, <2>2, <2>3
<1>12. \A i \in 1 .. a + d : i \in 1 .. a \/ \E k \in 1 .. d : i = a + k
  <2> TAKE i \in 1 .. a + d
  <2>1. CASE i > a
    <3>1. i - a \in 1 .. d /\ i = a + (i - a)
      BY <1>6, <1>10, <2>1
    <3> QED
      BY <3>1
  <2> QED
    BY <1>6, <1>10, <2>1
<1>13. \A k \in 1 .. d : k \in 1 .. y
  BY <1>6, <1>10
<1>14. \A k \in 1 .. y - d : k + d \in 1 .. y /\ k + d >= k
  BY <1>6, <1>10
<1>15. ASSUME NEW k \in DOMAIN c.kept
       PROVE  \E x \in DOMAIN E : x >= k /\ c.kept[k] = E[x]
  <2>1. k \in 1 .. y - d /\ k + d \in 1 .. y /\ k + d >= k /\ c.kept[k] = young[k + d]
    BY <1>10, <1>14
  <2>2. Nth(Y, k + d) \in Y /\ young[k + d] = E[Nth(Y, k + d)] /\ k + d <= Nth(Y, k + d)
    BY <1>4, <2>1
  <2>3. Nth(Y, k + d) \in DOMAIN E /\ Nth(Y, k + d) \in Nat
    BY <1>1, <1>2, <2>2
  <2>4. Nth(Y, k + d) >= k
    BY <1>6, <1>10, <2>1, <2>2, <2>3
  <2> QED
    BY <2>1, <2>2, <2>3, <2>4
<1>16. ASSUME NEW i \in DOMAIN c.archiving
       PROVE  \E x \in DOMAIN E : c.archiving[i] = E[x]
  <2>1. CASE i \in 1 .. a
    <3>1. Nth(A, i) \in DOMAIN E /\ c.archiving[i] = E[Nth(A, i)]
      BY <1>2, <1>5, <1>11, <2>1
    <3> QED
      BY <3>1
  <2>2. CASE \E k \in 1 .. d : i = a + k
    BY <1>2, <1>4, <1>11, <1>13, <2>2
  <2> QED
    BY <1>11, <1>12, <2>1, <2>2
<1>17. Once(c.kept)
  <2> SUFFICES ASSUME NEW k \in DOMAIN c.kept, NEW l \in DOMAIN c.kept, c.kept[k] = c.kept[l]
               PROVE  k = l
    BY DEF Once
  <2>1. k + d \in DOMAIN young /\ l + d \in DOMAIN young /\ young[k + d] = young[l + d]
    BY <1>10
  <2>2. k + d = l + d
    BY <1>7, <2>1 DEF Once
  <2> QED
    BY <1>6, <1>10, <2>2
<1>18. Once(c.archiving)
  <2> SUFFICES ASSUME NEW i \in DOMAIN c.archiving, NEW j \in DOMAIN c.archiving,
                      c.archiving[i] = c.archiving[j]
               PROVE  i = j
    BY DEF Once
  <2>1. CASE i \in 1 .. a /\ j \in 1 .. a
    BY <1>5, <1>7, <1>11, <2>1 DEF Once
  <2>2. ASSUME NEW k \in 1 .. d, NEW l \in 1 .. d, i = a + k, j = a + l
        PROVE  i = j
    <3>1. young[k] = young[l] /\ k \in DOMAIN young /\ l \in DOMAIN young
      BY <1>4, <1>11, <1>13, <2>2
    <3> QED
      BY <1>7, <2>2, <3>1 DEF Once
  <2>3. ASSUME i \in 1 .. a, NEW k \in 1 .. d, j = a + k
        PROVE  i = j
    BY <1>8, <1>11, <1>13, <2>3
  <2>4. ASSUME j \in 1 .. a, NEW k \in 1 .. d, i = a + k
        PROVE  i = j
    BY <1>8, <1>11, <1>13, <2>4
  <2> QED
    BY <1>11, <1>12, <2>1, <2>2, <2>3, <2>4
<1>19. ASSUME NEW i \in DOMAIN c.archiving, NEW k \in DOMAIN c.kept
       PROVE  c.archiving[i] # c.kept[k]
  <2>1. k \in 1 .. y - d /\ k + d \in 1 .. y /\ c.kept[k] = young[k + d]
    BY <1>10, <1>14
  <2>2. CASE i \in 1 .. a
    BY <1>8, <1>11, <2>1, <2>2
  <2>3. ASSUME NEW l \in 1 .. d, i = a + l
        PROVE  c.archiving[i] # c.kept[k]
    <3>1. l \in DOMAIN young /\ k + d \in DOMAIN young /\ l # k + d
      BY <1>4, <1>6, <1>10, <1>13, <2>1
    <3>2. c.archiving[i] = young[l]
      BY <1>11, <2>3
    <3> QED
      BY <1>7, <2>1, <3>1, <3>2 DEF Once
  <2> QED
    BY <1>11, <1>12, <2>2, <2>3
<1>20. ASSUME NEW x \in DOMAIN E
       PROVE  E[x] \in gone \/ E[x] \in Elems(c.archiving) \cup Elems(c.kept)
  <2>1. CASE x \in A
    <3>1. Rank(A, x) \in 1 .. a /\ aged[Rank(A, x)] = E[x]
      BY <1>5, <2>1
    <3>2. Rank(A, x) \in DOMAIN c.archiving /\ c.archiving[Rank(A, x)] = E[x]
      BY <1>6, <1>10, <1>11, <3>1
    <3> QED
      BY <3>2 DEF Elems
  <2>2. CASE x \in Y
    <3>1. Rank(Y, x) \in 1 .. y /\ young[Rank(Y, x)] = E[x]
      BY <1>4, <2>2
    <3>2. CASE Rank(Y, x) <= d
      <4>1. Rank(Y, x) \in 1 .. d /\ a + Rank(Y, x) \in DOMAIN c.archiving
        BY <1>6, <1>10, <1>11, <3>1, <3>2
      <4>2. c.archiving[a + Rank(Y, x)] = E[x]
        BY <1>11, <3>1, <4>1
      <4> QED
        BY <4>1, <4>2 DEF Elems
    <3>3. CASE Rank(Y, x) > d
      <4>1. Rank(Y, x) - d \in 1 .. y - d /\ (Rank(Y, x) - d) + d = Rank(Y, x)
        BY <1>6, <1>10, <3>1, <3>3
      <4>2. Rank(Y, x) - d \in DOMAIN c.kept /\ c.kept[Rank(Y, x) - d] = E[x]
        BY <1>10, <3>1, <4>1
      <4> QED
        BY <4>2 DEF Elems
    <3>4. Rank(Y, x) \in Int /\ d \in Int
      BY <1>6, <3>1
    <3> QED
      BY <3>2, <3>3, <3>4
  <2> QED
    BY <1>2, <2>1, <2>2
<1> QED
  BY <1>3, <1>9, <1>11, <1>15, <1>16, <1>17, <1>18, <1>19, <1>20 DEF E

\* No entry is in a malformed line.
LEMMA EntriesApart ==
  ASSUME NEW f \in File, OnceIn(f), NEW x \in DOMAIN Entries(f),
         NEW k \in DOMAIN Malformed(f), NEW p \in DOMAIN Malformed(f)[k]
  PROVE  Malformed(f)[k][p] # Entries(f)[x]
<1>1. PICK b \in Bad(f) : Malformed(f)[k] = Lines(f)[b]
  BY MalformedFacts
<1>2. PICK g \in Good(f) : Entries(f)[x] = Lines(f)[g][1]
  BY EntriesFacts
<1>3. b \in DOMAIN Lines(f) /\ Len(Lines(f)[b]) > 1 /\ g \in DOMAIN Lines(f) /\ Len(Lines(f)[g]) = 1
  BY DEF Bad, Good, Parses, Garbled
<1>a. \A n : n = 1 => ~(n > 1)
  OBVIOUS
<1>4. b # g
  BY <1>3, <1>a, Zenon
<1>5. 1 \in DOMAIN Lines(f)[g] /\ p \in DOMAIN Lines(f)[b]
  BY <1>1, <1>3, LinesType
<1> QED
  BY <1>1, <1>2, <1>3, <1>4, <1>5 DEF OnceIn

\* A compaction's plan: the file to come has lines of f, it and the archive get
\* different messages of f, and all of them but those that are gone.
LEMMA SplitFacts ==
  ASSUME NEW f \in File, NEW gone, NEW aging, OnceIn(f), NEW c, c = Split(f, gone, aging),
         NEW T, T = Trimmed(c)
  PROVE  /\ c.garbled \in Seq(Seq(Msgs)) /\ \A i \in DOMAIN c.garbled : Garbled(c.garbled[i])
         /\ \A i \in DOMAIN Lines(T) : \E x \in DOMAIN Lines(f) :
              \A p \in DOMAIN Lines(T)[i] : p \in DOMAIN Lines(f)[x] /\ Lines(T)[i][p] = Lines(f)[x][p]
         /\ OnceIn(T)
         /\ \A i \in DOMAIN c.archiving : ~In(T, c.archiving[i])
         /\ \A m : In(T, m) \/ m \in Elems(c.archiving) => In(f, m)
         /\ \A m : In(f, m) =>
              In(T, m) \/ m \in Elems(c.archiving) \/ (m \in Live(f) /\ m \in gone)
<1> DEFINE E == Entries(f)
           B == Malformed(f)
           G == Len(c.garbled)
           K == Len(c.kept)
<1>1. /\ c.archiving \in Seq(Msgs) /\ c.kept \in Seq(Msgs) /\ c.garbled = B
      /\ \A k \in DOMAIN c.kept : \E x \in DOMAIN E : x >= k /\ c.kept[k] = E[x]
      /\ \A i \in DOMAIN c.archiving : \E x \in DOMAIN E : c.archiving[i] = E[x]
      /\ Once(c.archiving) /\ Once(c.kept)
      /\ \A i \in DOMAIN c.archiving, k \in DOMAIN c.kept : c.archiving[i] # c.kept[k]
      /\ \A x \in DOMAIN E : E[x] \in gone \/ E[x] \in Elems(c.archiving) \cup Elems(c.kept)
  BY SplitSources
<1>2. /\ B \in Seq(Seq(Msgs)) /\ \A k \in DOMAIN B : Garbled(B[k])
      /\ \A k \in DOMAIN B : /\ Nth(Bad(f), k) \in Bad(f) /\ Rank(Bad(f), Nth(Bad(f), k)) = k
                             /\ B[k] = Lines(f)[Nth(Bad(f), k)]
  BY MalformedFacts
<1>3. \A k \in DOMAIN B : \A p \in DOMAIN B[k] : \A x \in DOMAIN E : B[k][p] # E[x]
  BY EntriesApart
<1>4. /\ T \in File /\ G \in Nat /\ K \in Nat
      /\ DOMAIN B = 1 .. G /\ DOMAIN c.kept = 1 .. K
      /\ DOMAIN Lines(T) = 1 .. G + K
      /\ \A i \in 1 .. G : Lines(T)[i] = B[i]
      /\ \A k \in 1 .. K : Lines(T)[G + k] = <<c.kept[k]>>
      /\ \A i \in DOMAIN Lines(T) : i \in 1 .. G \/ \E k \in 1 .. K : i = G + k
  <2>1. c.kept \in Seq(Msgs) /\ c.garbled \in Seq(Seq(Msgs))
    BY <1>1, <1>2
  <2>2. /\ Trimmed(c) \in File /\ G \in Nat /\ K \in Nat
        /\ DOMAIN c.garbled = 1 .. G /\ DOMAIN c.kept = 1 .. K
        /\ DOMAIN Lines(Trimmed(c)) = 1 .. G + K
        /\ \A i \in 1 .. G : Lines(Trimmed(c))[i] = c.garbled[i]
        /\ \A k \in 1 .. K : Lines(Trimmed(c))[G + k] = <<c.kept[k]>>
        /\ \A i \in DOMAIN Lines(Trimmed(c)) : i \in 1 .. G \/ \E k \in 1 .. K : i = G + k
    BY <2>1, TrimmedLines
  <2> HIDE DEF G, K, B
  <2> QED
    BY <1>1, <2>2
<1>5. \A k \in 1 .. K : DOMAIN <<c.kept[k]>> = {1} /\ <<c.kept[k]>>[1] = c.kept[k]
  OBVIOUS
<1>6. \A b \in Bad(f) : b \in DOMAIN Lines(f)
  BY DEF Bad
<1>7. \A x \in DOMAIN E : \E g \in DOMAIN Lines(f) : 1 \in DOMAIN Lines(f)[g] /\ E[x] = Lines(f)[g][1]
  <2> TAKE x \in DOMAIN E
  <2>1. PICK g \in Good(f) : E[x] = Lines(f)[g][1]
    BY EntriesFacts
  <2>2. g \in DOMAIN Lines(f) /\ Len(Lines(f)[g]) = 1
    BY DEF Good, Parses
  <2> QED
    BY <2>1, <2>2, LinesType
<1>8. \A m : In(T, m) <=> m \in Elems(c.kept) \/ \E i \in DOMAIN B : m \in Elems(B[i])
  BY <1>1, <1>2, TrimmedIn
<1>9. \A m : In(f, m) <=> m \in Live(f) \cup Garbage(f)
  BY InFacts
<1>10. \A m : m \in Garbage(f) <=> \E i \in DOMAIN B : m \in Elems(B[i])
  BY DEF Garbage, Elems
<1>11. \A m : m \in Live(f) <=> \E x \in DOMAIN E : m = E[x]
  BY DEF Live, Elems
<1> HIDE DEF E, B, G, K
<1>12. ASSUME NEW i \in DOMAIN Lines(T)
       PROVE  \E x \in DOMAIN Lines(f) :
                \A p \in DOMAIN Lines(T)[i] : p \in DOMAIN Lines(f)[x] /\ Lines(T)[i][p] = Lines(f)[x][p]
  <2>1. CASE i \in 1 .. G
    <3>1. Nth(Bad(f), i) \in DOMAIN Lines(f) /\ Lines(T)[i] = Lines(f)[Nth(Bad(f), i)]
      BY <1>2, <1>4, <1>6, <2>1
    <3> QED
      BY <3>1
  <2>2. ASSUME NEW k \in 1 .. K, i = G + k
        PROVE  \E x \in DOMAIN Lines(f) :
                 \A p \in DOMAIN Lines(T)[i] : p \in DOMAIN Lines(f)[x] /\ Lines(T)[i][p] = Lines(f)[x][p]
    <3>1. PICK x \in DOMAIN E : c.kept[k] = E[x]
      BY <1>1, <1>4
    <3>2. PICK g \in DOMAIN Lines(f) : 1 \in DOMAIN Lines(f)[g] /\ E[x] = Lines(f)[g][1]
      BY <1>7
    <3>3. \A p \in DOMAIN Lines(T)[i] : p = 1 /\ Lines(T)[i][p] = E[x]
      BY <1>4, <1>5, <2>2, <3>1
    <3>4. \A p \in DOMAIN Lines(T)[i] : p \in DOMAIN Lines(f)[g] /\ Lines(T)[i][p] = Lines(f)[g][p]
      BY <3>2, <3>3
    <3> QED
      BY <3>4
  <2> QED
    BY <1>4, <2>1, <2>2
<1>13. OnceIn(T)
  <2> SUFFICES ASSUME NEW i \in DOMAIN Lines(T), NEW j \in DOMAIN Lines(T),
                      NEW p \in DOMAIN Lines(T)[i], NEW q \in DOMAIN Lines(T)[j],
                      Lines(T)[i][p] = Lines(T)[j][q]
               PROVE  i = j /\ p = q
    BY DEF OnceIn
  <2>1. CASE i \in 1 .. G /\ j \in 1 .. G
    <3>1. /\ Nth(Bad(f), i) \in DOMAIN Lines(f) /\ Lines(T)[i] = Lines(f)[Nth(Bad(f), i)]
          /\ Nth(Bad(f), j) \in DOMAIN Lines(f) /\ Lines(T)[j] = Lines(f)[Nth(Bad(f), j)]
          /\ Rank(Bad(f), Nth(Bad(f), i)) = i /\ Rank(Bad(f), Nth(Bad(f), j)) = j
      BY <1>2, <1>4, <1>6, <2>1
    <3>2. Nth(Bad(f), i) = Nth(Bad(f), j) /\ p = q
      BY <3>1 DEF OnceIn
    <3> QED
      BY <3>1, <3>2
  <2>2. ASSUME NEW k \in 1 .. K, NEW l \in 1 .. K, i = G + k, j = G + l
        PROVE  i = j /\ p = q
    <3>a. Lines(T)[i] = <<c.kept[k]>> /\ Lines(T)[j] = <<c.kept[l]>>
      BY <1>4, <2>2
    <3>b. p = 1 /\ Lines(T)[i][p] = c.kept[k]
      BY <1>5, <3>a
    <3>c. q = 1 /\ Lines(T)[j][q] = c.kept[l]
      BY <1>5, <3>a
    <3>1. p = 1 /\ q = 1 /\ c.kept[k] = c.kept[l]
      BY <3>b, <3>c
    <3> QED
      BY <1>1, <1>4, <2>2, <3>1 DEF Once
  <2>3. ASSUME i \in 1 .. G, NEW l \in 1 .. K, j = G + l
        PROVE  FALSE
    <3>1. PICK x \in DOMAIN E : c.kept[l] = E[x]
      BY <1>1, <1>4
    <3>2. Lines(T)[j][q] = E[x]
      BY <1>4, <1>5, <2>3, <3>1
    <3>3. i \in DOMAIN B /\ p \in DOMAIN B[i] /\ Lines(T)[i][p] = B[i][p]
      BY <1>4, <2>3
    <3> QED
      BY <1>3, <3>2, <3>3
  <2>4. ASSUME j \in 1 .. G, NEW l \in 1 .. K, i = G + l
        PROVE  FALSE
    <3>1. PICK x \in DOMAIN E : c.kept[l] = E[x]
      BY <1>1, <1>4
    <3>2. Lines(T)[i][p] = E[x]
      BY <1>4, <1>5, <2>4, <3>1
    <3>3. j \in DOMAIN B /\ q \in DOMAIN B[j] /\ Lines(T)[j][q] = B[j][q]
      BY <1>4, <2>4
    <3> QED
      BY <1>3, <3>2, <3>3
  <2> QED
    BY <1>4, <2>1, <2>2, <2>3, <2>4
<1>14. ASSUME NEW i \in DOMAIN c.archiving
       PROVE  ~In(T, c.archiving[i])
  <2>1. c.archiving[i] \notin Elems(c.kept)
    BY <1>1 DEF Elems
  <2>2. PICK x \in DOMAIN E : c.archiving[i] = E[x]
    BY <1>1
  <2>3. \A k \in DOMAIN B : c.archiving[i] \notin Elems(B[k])
    BY <1>3, <2>2 DEF Elems
  <2> QED
    BY <1>8, <2>1, <2>3
<1>15. ASSUME NEW m, In(T, m) \/ m \in Elems(c.archiving)
       PROVE  In(f, m)
  <2>1. CASE m \in Elems(c.kept) \cup Elems(c.archiving)
    BY <1>1, <1>9, <1>11, <2>1 DEF Elems
  <2>2. CASE \E i \in DOMAIN B : m \in Elems(B[i])
    BY <1>9, <1>10, <2>2
  <2> QED
    BY <1>8, <1>15, <2>1, <2>2
<1>16. ASSUME NEW m, In(f, m)
       PROVE  In(T, m) \/ m \in Elems(c.archiving) \/ (m \in Live(f) /\ m \in gone)
  <2>1. CASE m \in Garbage(f)
    BY <1>8, <1>10, <2>1
  <2>2. CASE m \in Live(f)
    BY <1>1, <1>8, <1>11, <2>2
  <2> QED
    BY <1>9, <1>16, <2>1, <2>2
<1>17. c.garbled \in Seq(Seq(Msgs)) /\ \A i \in DOMAIN c.garbled : Garbled(c.garbled[i])
  BY <1>1, <1>2
<1> QED
  BY <1>12, <1>13, <1>14, <1>15, <1>16, <1>17

-----------------------------------------------------------------------------
(* Types, and every message in one place. *)

BaseInv == TypeOK /\ CompInv /\ UniqueInv

\* With no compaction under way no file is to come.
LEMMA NoFileComing ==
  ASSUME NEW c, c = Idle
  PROVE  /\ \A m : ~In(Trimmed(c), m) /\ m \notin Elems(c.archiving)
         /\ OnceIn(Trimmed(c)) /\ Once(c.archiving) /\ DOMAIN Lines(Trimmed(c)) = {}
         /\ DOMAIN c.kept = {} /\ DOMAIN c.archiving = {} /\ DOMAIN c.garbled = {}
<1>1. c.kept = <<>> /\ c.garbled = <<>> /\ c.archiving = <<>>
  BY DEF Idle
<1>2. <<>> \in Seq(Msgs) /\ <<>> \in Seq(Seq(Msgs)) /\ DOMAIN <<>> = {} /\ Len(<<>>) = 0 /\ 1 .. 0 + 0 = {}
  OBVIOUS
<1>3. DOMAIN Lines(Trimmed(c)) = {}
  BY <1>1, <1>2, TrimmedLines
<1> QED
  BY <1>1, <1>2, <1>3 DEF In, OnceIn, Once, Elems

LEMMA BaseInit ==
  ASSUME Init
  PROVE  BaseInv
<1>1. comp = Idle /\ file = [lines |-> <<>>, open |-> <<>>] /\ archive = <<>>
      /\ consumer = [cursor |-> 0, delivered |-> <<>>]
  BY DEF Init
<1>2. <<>> \in Seq(Msgs) /\ <<>> \in Seq(Seq(Msgs)) /\ DOMAIN <<>> = {} /\ 0 \in Nat
  OBVIOUS
<1>3. TypeOK
  BY <1>1, <1>2, QueueAssumption DEF Init, TypeOK, Idle, Progress
<1>4. CompInv
  BY <1>1, <1>2, QueueAssumption DEF Init, CompInv, Idle
<1>5. Lines(file) = <<>>
  BY <1>1 DEF Lines
<1>6. UniqueInv
  BY <1>1, <1>2, <1>5, NoFileComing DEF UniqueInv, Coming, In, OnceIn, Elems
<1> QED
  BY <1>3, <1>4, <1>6 DEF BaseInv

LEMMA BaseOpenFile ==
  ASSUME BaseInv, NEW m \in Msgs, OpenFile(m)
  PROVE  BaseInv'
<1>1. /\ inode' = Created /\ writer' = [writer EXCEPT ![m].pc = "opened", ![m].inode = Created]
      /\ history' = [history EXCEPT !.met = @ \cup Meeting(m)]
      /\ UNCHANGED <<file, archive, comp, expired, old, consumer, budget>>
      /\ writer[m].pc = "new"
  BY DEF OpenFile
<1>2. Created \in Nat /\ Created > 0 /\ (inode > 0 => Created = inode) /\ (inode = 0 => Created = 1)
  BY QueueAssumption DEF BaseInv, TypeOK, Created
<1>3. Meeting(m) \in SUBSET Msgs
  BY DEF Meeting
<1>4. /\ writer' \in [Msgs -> [pc : Progress, inode : Nat]]
      /\ \A n \in Msgs : writer'[n].pc \in {"new", "opened"} => writer[n].pc \in {"new", "opened"}
  BY <1>1, <1>2 DEF BaseInv, TypeOK, Progress
<1>5. history' \in [overlapped : SUBSET Msgs, met : SUBSET Msgs, torn : SUBSET Msgs, dropped : SUBSET Msgs]
  BY <1>1, <1>3 DEF BaseInv, TypeOK
<1>6. CompInv' /\ inode' \in 0 .. Compactions + 1
  <2>1. inode \in 0 .. Compactions + 1 /\ budget.compactions \in 0 .. Compactions /\ Compactions \in Nat
    BY QueueAssumption DEF BaseInv, TypeOK
  <2>2. CASE inode = 0
    BY <1>1, <1>2, <2>1, <2>2 DEF BaseInv, CompInv
  <2>3. CASE inode > 0
    BY <1>1, <1>2, <2>1, <2>3 DEF BaseInv, CompInv
  <2> QED
    BY <2>1, <2>2, <2>3
<1>7. TypeOK'
  BY <1>1, <1>4, <1>5, <1>6 DEF BaseInv, TypeOK
<1>8. UniqueInv'
  BY <1>1, <1>4 DEF BaseInv, UniqueInv, Unwritten, Coming
<1> QED
  BY <1>6, <1>7, <1>8 DEF BaseInv

LEMMA BaseWriteText ==
  ASSUME BaseInv, NEW m \in Msgs, WriteText(m)
  PROVE  BaseInv' /\ \A n \in Msgs : In(file', n) => In(file, n) \/ n = m
<1>1. /\ writer[m].pc = "opened" /\ writer' = [writer EXCEPT ![m].pc = "written"]
      /\ (file' = file \/ file' = TextAtEnd(file, m))
      /\ UNCHANGED <<inode, archive, comp, expired, old, consumer, budget>>
  BY DEF WriteText
<1>2. file \in File
  BY DEF BaseInv, TypeOK, File
<1>3. Unwritten(m) /\ OnceIn(file) /\ ~In(file, m)
  BY <1>1 DEF BaseInv, UniqueInv, Unwritten
<1>4. /\ file' \in File /\ OnceIn(file')
      /\ \A n \in Msgs : In(file', n) => In(file, n) \/ n = m
  <2>1. CASE file' = file
    BY <1>2, <1>3, <2>1
  <2>2. CASE file' = TextAtEnd(file, m)
    BY <1>2, <1>3, <2>2, TextLines, TextStep
  <2> QED
    BY <1>1, <2>1, <2>2
<1>5. /\ writer' \in [Msgs -> [pc : Progress, inode : Nat]]
      /\ \A n \in Msgs : writer'[n].pc \in {"new", "opened"} => n # m /\ writer[n].pc \in {"new", "opened"}
  BY <1>1 DEF BaseInv, TypeOK, Progress
<1>6. history' \in [overlapped : SUBSET Msgs, met : SUBSET Msgs, torn : SUBSET Msgs, dropped : SUBSET Msgs]
  BY DEF WriteText, BaseInv, TypeOK
<1>7. TypeOK'
  BY <1>1, <1>4, <1>5, <1>6 DEF BaseInv, TypeOK, File
<1>8. CompInv'
  BY <1>1 DEF BaseInv, CompInv
<1>9. UniqueInv'
  BY <1>1, <1>4, <1>5 DEF BaseInv, UniqueInv, Unwritten, Coming
<1> QED
  BY <1>4, <1>7, <1>8, <1>9 DEF BaseInv

LEMMA NewlineKeeps ==
  ASSUME NEW f \in File, NEW g, g = NewlineAtEnd(f)
  PROVE  /\ g \in File /\ \A n : In(g, n) <=> In(f, n)
         /\ OnceIn(f) => OnceIn(g)
<1>1. /\ g \in File
      /\ \A i \in DOMAIN Lines(g) :
           Lines(g)[i] = <<>> \/ (i \in DOMAIN Lines(f) /\ Lines(g)[i] = Lines(f)[i])
      /\ \A i \in DOMAIN Lines(f) : i \in DOMAIN Lines(g) /\ Lines(g)[i] = Lines(f)[i]
  BY NewlineStep
<1>2. DOMAIN <<>> = {}
  OBVIOUS
<1>3. \A i \in DOMAIN Lines(g) : \A p \in DOMAIN Lines(g)[i] :
        i \in DOMAIN Lines(f) /\ p \in DOMAIN Lines(f)[i] /\ Lines(g)[i][p] = Lines(f)[i][p]
  BY <1>1, <1>2
<1>4. \A n : In(g, n) <=> In(f, n)
  BY <1>1, <1>3 DEF In
<1>5. OnceIn(f) => OnceIn(g)
  BY <1>3 DEF OnceIn
<1> QED
  BY <1>1, <1>4, <1>5

LEMMA BaseWriteNewline ==
  ASSUME BaseInv, NEW m \in Msgs, WriteNewline(m)
  PROVE  BaseInv' /\ \A n : In(file', n) <=> In(file, n)
<1>1. /\ writer[m].pc = "written" /\ writer' = [writer EXCEPT ![m].pc = "done"]
      /\ (file' = file \/ file' = NewlineAtEnd(file))
      /\ UNCHANGED <<inode, archive, comp, expired, old, consumer, budget, history>>
  BY DEF WriteNewline
<1>2. file \in File /\ OnceIn(file)
  BY DEF BaseInv, TypeOK, File, UniqueInv
<1>3. file' \in File /\ OnceIn(file') /\ \A n : In(file', n) <=> In(file, n)
  <2>1. CASE file' = file
    BY <1>2, <2>1
  <2>2. CASE file' = NewlineAtEnd(file)
    BY <1>2, <2>2, NewlineKeeps
  <2> QED
    BY <1>1, <2>1, <2>2
<1>4. /\ writer' \in [Msgs -> [pc : Progress, inode : Nat]]
      /\ \A n \in Msgs : writer'[n].pc \in {"new", "opened"} => writer[n].pc \in {"new", "opened"}
  BY <1>1 DEF BaseInv, TypeOK, Progress
<1>5. TypeOK'
  BY <1>1, <1>3, <1>4 DEF BaseInv, TypeOK, File
<1>6. CompInv'
  BY <1>1 DEF BaseInv, CompInv
<1>7. UniqueInv'
  BY <1>1, <1>3, <1>4 DEF BaseInv, UniqueInv, Unwritten, Coming
<1> QED
  BY <1>3, <1>5, <1>6, <1>7 DEF BaseInv

\* A crash, and a compaction, takes one of its bound.
LEMMA CrashSpent ==
  ASSUME BaseInv, budget.crashes > 0, budget' = [budget EXCEPT !.crashes = @ - 1]
  PROVE  /\ budget' \in [compactions : 0 .. Compactions, crashes : 0 .. Crashes]
         /\ budget'.compactions = budget.compactions /\ budget'.crashes = budget.crashes - 1
         /\ budget.crashes \in Nat /\ Crashes \in Nat
<1>1. /\ budget \in [compactions : 0 .. Compactions, crashes : 0 .. Crashes]
      /\ Compactions \in Nat /\ Crashes \in Nat
  BY QueueAssumption DEF BaseInv, TypeOK
<1>2. budget.crashes \in 0 .. Crashes /\ budget.crashes - 1 \in 0 .. Crashes
  BY <1>1
<1>3. budget'.compactions = budget.compactions /\ budget'.crashes = budget.crashes - 1
  BY <1>1
<1>4. budget' \in [compactions : 0 .. Compactions, crashes : 0 .. Crashes]
  BY <1>1, <1>2
<1> QED
  BY <1>1, <1>2, <1>3, <1>4

LEMMA CompactionSpent ==
  ASSUME BaseInv, budget.compactions > 0, budget' = [budget EXCEPT !.compactions = @ - 1]
  PROVE  /\ budget' \in [compactions : 0 .. Compactions, crashes : 0 .. Crashes]
         /\ budget'.compactions = budget.compactions - 1 /\ budget'.crashes = budget.crashes
<1>1. /\ budget \in [compactions : 0 .. Compactions, crashes : 0 .. Crashes]
      /\ Compactions \in Nat /\ Crashes \in Nat
  BY QueueAssumption DEF BaseInv, TypeOK
<1>2. budget.compactions \in 0 .. Compactions /\ budget.compactions - 1 \in 0 .. Compactions
  BY <1>1
<1>3. budget'.compactions = budget.compactions - 1 /\ budget'.crashes = budget.crashes
  BY <1>1
<1>4. budget' \in [compactions : 0 .. Compactions, crashes : 0 .. Crashes]
  BY <1>1, <1>2
<1> QED
  BY <1>1, <1>2, <1>3, <1>4

LEMMA BaseCutOffWriter ==
  ASSUME BaseInv, NEW m \in Msgs, CutOffWriter(m)
  PROVE  BaseInv'
<1>1. /\ writer' = [writer EXCEPT ![m].pc = "cut"]
      /\ history' = [history EXCEPT !.torn = @ \cup {m}]
      /\ UNCHANGED <<file, inode, archive, comp, expired, old, consumer>>
  BY DEF CutOffWriter
<1>2. /\ writer' \in [Msgs -> [pc : Progress, inode : Nat]]
      /\ \A n \in Msgs : writer'[n].pc \in {"new", "opened"} => writer[n].pc \in {"new", "opened"}
  <2>1. writer \in [Msgs -> [pc : Progress, inode : Nat]]
    BY DEF BaseInv, TypeOK
  <2>2. \A n \in Msgs : n # m => writer'[n] = writer[n]
    BY <1>1, <2>1
  <2>3. writer'[m] = [writer[m] EXCEPT !.pc = "cut"]
    BY <1>1, <2>1
  <2>4. writer'[m].pc = "cut"
    BY <2>1, <2>3
  <2>5. writer' \in [Msgs -> [pc : Progress, inode : Nat]]
    BY <1>1, <2>1 DEF Progress
  <2> QED
    BY <2>2, <2>4, <2>5
<1>3. history' \in [overlapped : SUBSET Msgs, met : SUBSET Msgs, torn : SUBSET Msgs, dropped : SUBSET Msgs]
  BY <1>1 DEF BaseInv, TypeOK
<1>4. /\ budget' \in [compactions : 0 .. Compactions, crashes : 0 .. Crashes]
      /\ budget'.compactions = budget.compactions
  BY CrashSpent DEF CutOffWriter
<1>5. TypeOK'
  BY <1>1, <1>2, <1>3, <1>4 DEF BaseInv, TypeOK
<1>6. CompInv'
  BY <1>1, <1>4 DEF BaseInv, CompInv
<1>7. UniqueInv'
  BY <1>1, <1>2 DEF BaseInv, UniqueInv, Unwritten, Coming
<1> QED
  BY <1>5, <1>6, <1>7 DEF BaseInv

\* The compaction that starts: its plan for the file, with what has expired.
LEMMA ReadPlan ==
  ASSUME BaseInv, ReadForCompact
  PROVE  /\ file \in File /\ OnceIn(file) /\ comp = Idle
         /\ comp' = Split(file, expired', old')
         /\ UNCHANGED <<file, inode, archive, writer, consumer>>
  BY DEF ReadForCompact, BaseInv, TypeOK, UniqueInv, CompInv, File

LEMMA BaseReadForCompact ==
  ASSUME BaseInv, ReadForCompact
  PROVE  BaseInv'
<1>1. /\ comp.pc = "idle" /\ budget.compactions > 0 /\ inode > 0
      /\ budget' = [budget EXCEPT !.compactions = @ - 1]
      /\ history' = [history EXCEPT !.dropped = @ \cup (Live(file) \cap expired')]
      /\ UNCHANGED <<file, inode, archive, writer, consumer>>
  BY DEF ReadForCompact
<1>2. expired' \subseteq Expirable /\ old' \subseteq Msgs /\ Live(file) \subseteq Msgs
  <2>1. Live(file) \subseteq Msgs
    <3>1. Entries(file) \in Seq(Msgs)
      BY ReadPlan, EntriesFacts
    <3> QED
      BY <3>1 DEF Live, Elems
  <2> QED
    BY <2>1 DEF ReadForCompact, BaseInv, TypeOK
<1>3. /\ comp'.pc = "archive" /\ comp'.archiving \in Seq(Msgs) /\ comp'.kept \in Seq(Msgs)
      /\ Once(comp'.archiving)
  BY ReadPlan, SplitSources
<1>4. /\ comp'.garbled \in Seq(Seq(Msgs)) /\ \A i \in DOMAIN comp'.garbled : Garbled(comp'.garbled[i])
      /\ OnceIn(Trimmed(comp'))
      /\ \A i \in DOMAIN comp'.archiving : ~In(Trimmed(comp'), comp'.archiving[i])
      /\ \A m : In(Trimmed(comp'), m) \/ m \in Elems(comp'.archiving) => In(file, m)
  BY ReadPlan, SplitFacts
<1>5. comp' \in [pc : {"idle", "archive"}, archiving : Seq(Msgs), kept : Seq(Msgs),
                 garbled : Seq(Seq(Msgs))]
  <2>1. comp' = [pc |-> comp'.pc, archiving |-> comp'.archiving, kept |-> comp'.kept,
                 garbled |-> comp'.garbled]
    BY ReadPlan DEF Split
  <2> QED
    BY <1>3, <1>4, <2>1
<1>6. /\ budget' \in [compactions : 0 .. Compactions, crashes : 0 .. Crashes]
      /\ budget'.compactions = budget.compactions - 1
  BY <1>1, CompactionSpent
<1>7. history' \in [overlapped : SUBSET Msgs, met : SUBSET Msgs, torn : SUBSET Msgs, dropped : SUBSET Msgs]
  BY <1>1, <1>2 DEF BaseInv, TypeOK
<1>8. TypeOK'
  BY <1>1, <1>2, <1>5, <1>6, <1>7 DEF BaseInv, TypeOK
<1>9. CompInv'
  <2>1. inode \in Nat /\ budget.compactions \in Nat /\ Compactions \in Nat
    BY QueueAssumption DEF BaseInv, TypeOK
  <2> QED
    BY <1>1, <1>3, <1>4, <1>6, <2>1 DEF BaseInv, CompInv
<1>10. UniqueInv'
  BY <1>1, <1>3, <1>4 DEF BaseInv, UniqueInv, Unwritten, Coming
<1> QED
  BY <1>8, <1>9, <1>10 DEF BaseInv

\* A line moves from what the compaction archives to the archive.
LEMMA LineMoves ==
  ASSUME BaseInv, ArchiveLine
  PROVE  /\ comp.pc = "archive" /\ comp'.pc = "archive"
         /\ comp'.kept = comp.kept /\ comp'.garbled = comp.garbled
         /\ comp'.archiving = Tail(comp.archiving) /\ comp'.archiving \in Seq(Msgs)
         /\ Trimmed(comp') = Trimmed(comp)
         /\ Head(comp.archiving) \in Msgs /\ Head(comp.archiving) \in Elems(comp.archiving)
         /\ Head(comp.archiving) = comp.archiving[1] /\ 1 \in DOMAIN comp.archiving
         /\ \A i \in DOMAIN comp'.archiving :
              i + 1 \in DOMAIN comp.archiving /\ comp'.archiving[i] = comp.archiving[i + 1] /\ i # 0
         /\ \A i \in DOMAIN comp.archiving :
              i = 1 \/ (i - 1 \in DOMAIN comp'.archiving /\ comp.archiving[i] = comp'.archiving[i - 1])
         /\ archive \in Seq(Msgs) /\ archive' = Append(archive, Head(comp.archiving))
<1>1. /\ comp.pc = "archive" /\ comp.archiving # <<>>
      /\ archive' = Append(archive, Head(comp.archiving))
      /\ comp' = [comp EXCEPT !.archiving = Tail(@)]
  BY DEF ArchiveLine
<1>2. comp \in [pc : {"idle", "archive"}, archiving : Seq(Msgs), kept : Seq(Msgs), garbled : Seq(Seq(Msgs))]
      /\ comp.archiving \in Seq(Msgs) /\ archive \in Seq(Msgs)
  BY DEF BaseInv, TypeOK
<1>3. /\ comp'.pc = "archive" /\ comp'.kept = comp.kept /\ comp'.garbled = comp.garbled
      /\ comp'.archiving = Tail(comp.archiving)
  BY <1>1, <1>2
<1>4. Trimmed(comp') = Trimmed(comp)
  BY <1>3 DEF Trimmed
<1>5. Tail(comp.archiving) \in Seq(Msgs) /\ Head(comp.archiving) \in Msgs
      /\ 1 \in DOMAIN comp.archiving /\ Head(comp.archiving) = comp.archiving[1]
  BY <1>1, <1>2
<1>6. /\ \A i \in DOMAIN Tail(comp.archiving) :
           /\ i + 1 \in DOMAIN comp.archiving /\ i # 0
           /\ Tail(comp.archiving)[i] = comp.archiving[i + 1]
      /\ \A i \in DOMAIN comp.archiving :
           \/ i = 1
           \/ i - 1 \in DOMAIN Tail(comp.archiving) /\ comp.archiving[i] = Tail(comp.archiving)[i - 1]
  <2>1. Len(comp.archiving) \in Nat /\ Len(comp.archiving) > 0
        /\ DOMAIN comp.archiving = 1 .. Len(comp.archiving)
        /\ DOMAIN Tail(comp.archiving) = 1 .. Len(comp.archiving) - 1
    BY <1>1, <1>2
  <2>2. \A i \in 1 .. Len(comp.archiving) - 1 : Tail(comp.archiving)[i] = comp.archiving[i + 1]
    BY <1>1, <1>2, <2>1
  <2>3. \A i \in 1 .. Len(comp.archiving) : i = 1 \/ (i - 1 \in 1 .. Len(comp.archiving) - 1 /\ (i - 1) + 1 = i)
    BY <2>1
  <2>4. \A i \in 1 .. Len(comp.archiving) - 1 : i + 1 \in 1 .. Len(comp.archiving) /\ i # 0
    BY <2>1
  <2>5. ASSUME NEW i \in 1 .. Len(comp.archiving), i # 1
        PROVE  i - 1 \in 1 .. Len(comp.archiving) - 1 /\ comp.archiving[i] = Tail(comp.archiving)[i - 1]
    <3>1. i - 1 \in 1 .. Len(comp.archiving) - 1 /\ (i - 1) + 1 = i
      BY <2>3, <2>5
    <3>2. Tail(comp.archiving)[i - 1] = comp.archiving[(i - 1) + 1]
      BY <2>2, <3>1
    <3> QED
      BY <3>1, <3>2
  <2> QED
    BY <2>1, <2>2, <2>4, <2>5
<1> QED
  BY <1>1, <1>2, <1>3, <1>4, <1>5, <1>6 DEF Elems

LEMMA BaseArchiveLine ==
  ASSUME BaseInv, ArchiveLine
  PROVE  BaseInv'
<1>1. /\ comp' = [comp EXCEPT !.archiving = Tail(@)]
      /\ UNCHANGED <<file, inode, writer, expired, old, consumer, budget, history>>
  BY DEF ArchiveLine
<1>2. /\ archive' \in Seq(Msgs) /\ \A m : m \in Elems(archive') => m \in Elems(archive) \/ m = Head(comp.archiving)
  <2>1. \A s \in Seq(Msgs) : \A h \in Msgs :
          /\ Append(s, h) \in Seq(Msgs)
          /\ \A i \in DOMAIN Append(s, h) : Append(s, h)[i] = h \/ (i \in DOMAIN s /\ Append(s, h)[i] = s[i])
    OBVIOUS
  <2> QED
    BY <2>1, LineMoves DEF Elems
<1>3. TypeOK'
  BY <1>1, <1>2, LineMoves DEF BaseInv, TypeOK
<1>4. CompInv'
  BY <1>1, LineMoves DEF BaseInv, CompInv
<1>5. \A i \in DOMAIN comp'.archiving : comp'.archiving[i] \in Elems(comp.archiving)
  BY LineMoves DEF Elems
<1>6. Once(comp'.archiving)
  <2> SUFFICES ASSUME NEW i \in DOMAIN comp'.archiving, NEW j \in DOMAIN comp'.archiving,
                      comp'.archiving[i] = comp'.archiving[j]
               PROVE  i = j
    BY DEF Once
  <2>1. i + 1 = j + 1
    BY LineMoves DEF BaseInv, UniqueInv, Once
  <2>2. i \in Int /\ j \in Int
    BY LineMoves
  <2> QED
    BY <2>1, <2>2
<1>7. UniqueInv'
  <2>1. \A i \in DOMAIN comp'.archiving : ~In(Trimmed(comp'), comp'.archiving[i])
    BY LineMoves DEF BaseInv, UniqueInv, Coming
  <2>2. \A m \in Msgs : Unwritten(m) => m \notin Elems(archive') \cup Elems(comp'.archiving)
    <3> TAKE m \in Msgs
    <3> HAVE Unwritten(m)
    <3>1. m \notin Elems(comp.archiving) \cup Elems(archive)
      BY DEF BaseInv, UniqueInv
    <3> QED
      BY <1>2, <1>5, <3>1, LineMoves DEF Elems
  <2> QED
    BY <1>1, <1>6, <2>1, <2>2, LineMoves DEF BaseInv, UniqueInv, Unwritten, Coming
<1> QED
  BY <1>3, <1>4, <1>7 DEF BaseInv

LEMMA BaseRename ==
  ASSUME BaseInv, Rename
  PROVE  BaseInv'
<1>1. /\ comp.pc = "archive" /\ file' = Trimmed(comp) /\ inode' = inode + 1 /\ comp' = Idle
      /\ UNCHANGED <<archive, writer, expired, old, consumer, budget, history>>
  BY DEF Rename
<1>2. file' \in File
  BY <1>1, TrimmedLines DEF BaseInv, TypeOK
<1>3. inode \in Nat /\ budget.compactions \in Nat /\ Compactions \in Nat
      /\ inode + budget.compactions + 1 <= Compactions + 1
  BY <1>1, QueueAssumption DEF BaseInv, TypeOK, CompInv
<1>4. comp' \in [pc : {"idle", "archive"}, archiving : Seq(Msgs), kept : Seq(Msgs), garbled : Seq(Seq(Msgs))]
      /\ comp'.pc = "idle" /\ comp'.garbled = <<>>
  BY <1>1 DEF Idle
<1>5. TypeOK'
  <2>1. inode' \in 0 .. Compactions + 1
    BY <1>1, <1>3
  <2> QED
    BY <1>1, <1>2, <1>4, <2>1 DEF BaseInv, TypeOK, File
<1>6. DOMAIN <<>> = {}
  OBVIOUS
<1>7. CompInv'
  BY <1>1, <1>3, <1>4, <1>6 DEF BaseInv, CompInv
<1>8. /\ \A m : ~In(Trimmed(comp'), m) /\ m \notin Elems(comp'.archiving)
      /\ OnceIn(Trimmed(comp')) /\ Once(comp'.archiving) /\ DOMAIN comp'.archiving = {}
  BY <1>1, NoFileComing
<1>9. UniqueInv'
  BY <1>1, <1>8 DEF BaseInv, UniqueInv, Unwritten, Coming
<1> QED
  BY <1>5, <1>7, <1>9 DEF BaseInv

LEMMA BaseCutOffCompaction ==
  ASSUME BaseInv, CutOffCompaction
  PROVE  BaseInv'
<1>1. /\ comp.pc # "idle" /\ budget.crashes > 0 /\ comp' = Idle
      /\ budget' = [budget EXCEPT !.crashes = @ - 1]
      /\ UNCHANGED <<file, inode, archive, writer, expired, old, consumer, history>>
  BY DEF CutOffCompaction
<1>2. /\ budget' \in [compactions : 0 .. Compactions, crashes : 0 .. Crashes]
      /\ budget'.compactions = budget.compactions
  BY CrashSpent DEF CutOffCompaction
<1>3. inode \in Nat /\ budget.compactions \in Nat /\ Compactions \in Nat
  BY QueueAssumption DEF BaseInv, TypeOK
<1>4. comp' \in [pc : {"idle", "archive"}, archiving : Seq(Msgs), kept : Seq(Msgs), garbled : Seq(Seq(Msgs))]
      /\ comp'.pc = "idle" /\ comp'.garbled = <<>>
  BY <1>1 DEF Idle
<1>5. TypeOK'
  BY <1>1, <1>2, <1>4 DEF BaseInv, TypeOK
<1>6. DOMAIN <<>> = {}
  OBVIOUS
<1>7. CompInv'
  BY <1>1, <1>2, <1>3, <1>4, <1>6 DEF BaseInv, CompInv
<1>8. /\ \A m : ~In(Trimmed(comp'), m) /\ m \notin Elems(comp'.archiving)
      /\ OnceIn(Trimmed(comp')) /\ Once(comp'.archiving) /\ DOMAIN comp'.archiving = {}
  BY <1>1, NoFileComing
<1>9. UniqueInv'
  BY <1>1, <1>8 DEF BaseInv, UniqueInv, Unwritten, Coming
<1> QED
  BY <1>5, <1>7, <1>9 DEF BaseInv

\* What a resumed read of e from position n returns.
LEMMA ReadRest ==
  ASSUME NEW e \in Seq(Msgs), NEW n \in Nat, SubSeq(e, n + 1, Len(e)) # <<>>
  PROVE  /\ n < Len(e) /\ SubSeq(e, n + 1, Len(e)) \in Seq(Msgs)
         /\ Len(SubSeq(e, n + 1, Len(e))) = Len(e) - n
         /\ \A k \in 1 .. Len(e) - n : SubSeq(e, n + 1, Len(e))[k] = e[n + k]
<1> DEFINE rest == SubSeq(e, n + 1, Len(e))
<1>1. Len(e) \in Nat /\ DOMAIN e = 1 .. Len(e) /\ \A i \in 1 .. Len(e) : e[i] \in Msgs
  OBVIOUS
<1>2. n < Len(e)
  <2> SUFFICES ASSUME Len(e) < n + 1
               PROVE  rest = <<>>
    BY <1>1
  <2> QED
    BY <1>1, SubSeqEmpty
<1>3. \A i \in n + 1 .. Len(e) : e[i] \in Msgs
  BY <1>1
<1>4. /\ rest \in Seq(Msgs)
      /\ Len(rest) = IF n + 1 <= Len(e) THEN Len(e) - (n + 1) + 1 ELSE 0
      /\ \A k \in 1 .. Len(e) - (n + 1) + 1 : rest[k] = e[(n + 1) + k - 1]
  BY <1>1, <1>3, SubSeqProperties
<1> HIDE DEF rest
<1>5. n + 1 <= Len(e) /\ Len(e) - (n + 1) + 1 = Len(e) - n
      /\ \A k \in 1 .. Len(e) - n : (n + 1) + k - 1 = n + k
  BY <1>1, <1>2
<1>6. Len(rest) = Len(e) - n
  BY <1>4, <1>5
<1>7. \A k \in 1 .. Len(e) - n : rest[k] = e[n + k]
  BY <1>4, <1>5
<1> QED
  BY <1>2, <1>4, <1>6, <1>7 DEF rest

LEMMA PollFacts ==
  ASSUME BaseInv, Poll
  PROVE  /\ file \in File /\ UNCHANGED <<file, inode, archive, writer, comp, expired, old, budget, history>>
         /\ consumer.cursor \in Nat /\ consumer.cursor < Len(Entries(file))
         /\ consumer'.cursor = Len(Entries(file)) /\ consumer'.delivered \in Seq(Msgs)
         /\ consumer' = [cursor |-> consumer'.cursor, delivered |-> consumer'.delivered]
         /\ \A i \in DOMAIN consumer.delivered :
              i \in DOMAIN consumer'.delivered /\ consumer'.delivered[i] = consumer.delivered[i]
         /\ \A i \in DOMAIN consumer'.delivered :
              \/ i \in DOMAIN consumer.delivered
              \/ \E k \in 1 .. Len(Entries(file)) - consumer.cursor :
                   /\ i = Len(consumer.delivered) + k
                   /\ consumer.cursor + k \in DOMAIN Entries(file)
                   /\ consumer'.delivered[i] = Entries(file)[consumer.cursor + k]
<1> DEFINE E == Entries(file)
           n == consumer.cursor
           D == consumer.delivered
           rest == SubSeq(E, n + 1, Len(E))
<1>1. file \in File /\ consumer.cursor \in Nat /\ D \in Seq(Msgs)
  BY DEF BaseInv, TypeOK, File
<1>2. E \in Seq(Msgs) /\ DOMAIN E = 1 .. Len(E) /\ Len(E) \in Nat
  BY <1>1, EntriesFacts
<1>3. /\ rest # <<>> /\ consumer' = [cursor |-> Len(E), delivered |-> D \o rest]
      /\ UNCHANGED <<file, inode, archive, writer, comp, expired, old, budget, history>>
  BY DEF Poll, ReadFrom
<1> HIDE DEF E
<1>4. /\ n < Len(E) /\ rest \in Seq(Msgs) /\ Len(rest) = Len(E) - n
      /\ \A k \in 1 .. Len(E) - n : rest[k] = E[n + k]
  BY <1>1, <1>2, <1>3, ReadRest
<1> HIDE DEF rest
<1>5. \A s, t \in Seq(Msgs) :
        /\ s \o t \in Seq(Msgs) /\ DOMAIN (s \o t) = 1 .. Len(s) + Len(t)
        /\ \A i \in 1 .. Len(s) : (s \o t)[i] = s[i]
        /\ \A k \in 1 .. Len(t) : (s \o t)[Len(s) + k] = t[k]
  BY ConcatFacts
<1>6. /\ D \o rest \in Seq(Msgs) /\ DOMAIN (D \o rest) = 1 .. Len(D) + Len(rest)
      /\ \A i \in 1 .. Len(D) : (D \o rest)[i] = D[i]
      /\ \A k \in 1 .. Len(rest) : (D \o rest)[Len(D) + k] = rest[k]
  BY <1>1, <1>4, <1>5, Zenon
<1>7. Len(D) \in Nat /\ DOMAIN D = 1 .. Len(D)
  BY <1>1
<1> DEFINE cat == D \o rest
<1>8. /\ cat \in Seq(Msgs) /\ DOMAIN cat = 1 .. Len(D) + (Len(E) - n)
      /\ \A i \in 1 .. Len(D) : cat[i] = D[i]
      /\ \A k \in 1 .. Len(E) - n : cat[Len(D) + k] = E[n + k]
  BY <1>4, <1>6
<1>9. consumer' = [cursor |-> Len(E), delivered |-> cat]
  BY <1>3
<1> HIDE DEF cat
<1>10. \A i \in DOMAIN D : i \in DOMAIN cat /\ cat[i] = D[i]
  BY <1>1, <1>2, <1>4, <1>7, <1>8
<1>11. ASSUME NEW i \in DOMAIN cat, i \notin DOMAIN D
       PROVE  \E k \in 1 .. Len(E) - n :
                i = Len(D) + k /\ n + k \in DOMAIN E /\ cat[i] = E[n + k]
  <2>1. \A d, l, c \in Nat : c < l => \A j \in 1 .. d + (l - c) : j \notin 1 .. d =>
          j - d \in 1 .. l - c /\ j = d + (j - d) /\ c + (j - d) \in 1 .. l
    OBVIOUS
  <2>2. /\ i - Len(D) \in 1 .. Len(E) - n /\ i = Len(D) + (i - Len(D))
        /\ n + (i - Len(D)) \in 1 .. Len(E)
    BY <1>1, <1>2, <1>4, <1>7, <1>8, <1>11, <2>1
  <2>3. PICK k \in 1 .. Len(E) - n : i = Len(D) + k /\ n + k \in 1 .. Len(E)
    BY <2>2
  <2>a. cat[Len(D) + k] = E[n + k]
    BY <1>8
  <2>4. cat[i] = E[n + k]
    BY <2>3, <2>a
  <2> QED
    BY <1>2, <2>3, <2>4
<1>12. consumer'.cursor = Len(E) /\ consumer'.delivered = cat
  BY <1>9
<1> QED
  BY <1>1, <1>3, <1>4, <1>8, <1>9, <1>10, <1>11, <1>12 DEF E

LEMMA BasePoll ==
  ASSUME BaseInv, Poll
  PROVE  BaseInv'
<1>1. TypeOK'
  <2>1. consumer'.cursor \in Nat
    BY PollFacts, EntriesFacts
  <2>2. consumer' \in [cursor : Nat, delivered : Seq(Msgs)]
    BY <2>1, PollFacts
  <2> QED
    BY <2>2, PollFacts DEF BaseInv, TypeOK
<1>2. CompInv'
  BY PollFacts DEF BaseInv, CompInv
<1>3. \A x \in DOMAIN Entries(file) : In(file, Entries(file)[x])
  BY PollFacts, InFacts DEF Live, Elems
<1>4. \A i \in DOMAIN consumer'.delivered :
        consumer'.delivered[i] \in Elems(consumer.delivered) \/ In(file, consumer'.delivered[i])
  BY <1>3, PollFacts DEF Elems
<1>5. UniqueInv'
  <2>1. ASSUME NEW m \in Msgs, Unwritten(m)
        PROVE  m \notin Elems(consumer'.delivered)
    BY <1>4, <2>1 DEF BaseInv, UniqueInv, Elems
  <2> QED
    BY <2>1, PollFacts DEF BaseInv, UniqueInv, Unwritten, Coming
<1> QED
  BY <1>1, <1>2, <1>5 DEF BaseInv

LEMMA BaseStep ==
  ASSUME BaseInv, [Next]_vars
  PROVE  BaseInv'
<1>1. ASSUME Appending
      PROVE  BaseInv'
  BY <1>1, BaseOpenFile, BaseWriteText, BaseWriteNewline, BaseCutOffWriter DEF Appending
<1>2. ASSUME Compacting
      PROVE  BaseInv'
  BY <1>2, BaseReadForCompact, BaseArchiveLine, BaseRename, BaseCutOffCompaction DEF Compacting
<1>3. CASE UNCHANGED vars
  BY <1>3 DEF vars, BaseInv, TypeOK, CompInv, UniqueInv, Unwritten, Coming
<1> QED
  BY <1>1, <1>2, <1>3, BasePoll DEF Next

\* Every reachable state has its types, and no message twice in the live file.
THEOREM BaseInvariant == Spec => []BaseInv
<1>1. Init => BaseInv
  BY BaseInit
<1>2. BaseInv /\ [Next]_vars => BaseInv'
  BY BaseStep
<1> QED
  BY <1>1, <1>2, PTL DEF Spec

\* A line is a sequence of the texts written to it, in the live file and in what
\* a compaction is about to write, and every other variable has its type.
THEOREM TypeCorrect == Spec => []TypeOK
<1>1. BaseInv => TypeOK
  BY DEF BaseInv
<1> QED
  BY <1>1, BaseInvariant, PTL

-----------------------------------------------------------------------------
(* What shares a line. *)

\* More spoilt messages, and lines that are lines of f, stay contained.
LEMMA ContainedGrows ==
  ASSUME NEW f, NEW g, NEW S, NEW T, Contained(f, S), S \subseteq T,
         \A i \in DOMAIN Lines(g) : Lines(g)[i] = <<>> \/ \E x \in DOMAIN Lines(f) :
           \A p \in DOMAIN Lines(g)[i] : p \in DOMAIN Lines(f)[x] /\ Lines(g)[i][p] = Lines(f)[x][p]
  PROVE  Contained(g, T)
<1> SUFFICES ASSUME NEW i \in DOMAIN Lines(g), NEW p \in DOMAIN Lines(g)[i], NEW q \in DOMAIN Lines(g)[i],
                    Lines(g)[i][p] \notin T, Lines(g)[i][q] \notin T
             PROVE  Lines(g)[i][p] = Lines(g)[i][q]
  BY DEF Contained
<1>1. DOMAIN <<>> = {}
  OBVIOUS
<1>2. PICK x \in DOMAIN Lines(f) :
        \A r \in DOMAIN Lines(g)[i] : r \in DOMAIN Lines(f)[x] /\ Lines(g)[i][r] = Lines(f)[x][r]
  BY <1>1
<1> QED
  BY <1>2 DEF Contained

LEMMA DamageInit ==
  ASSUME Init
  PROVE  DamageInv
<1>1. comp = Idle /\ file = [lines |-> <<>>, open |-> <<>>] /\ \A m \in Msgs : writer[m].pc = "new"
  BY DEF Init
<1>2. DOMAIN <<>> = {}
  OBVIOUS
<1>3. Lines(file) = <<>> /\ DOMAIN Lines(Trimmed(comp)) = {} /\ Elems(file.open) = {}
  BY <1>1, <1>2, NoFileComing DEF Lines, Elems
<1> QED
  BY <1>1, <1>2, <1>3 DEF DamageInv, OpenInv, MetInv, Busy, Contained, Coming

\* A step that writes no line and forgets no damage leaves the lines contained.
LEMMA ContainedFrame ==
  ASSUME DamageInv, UNCHANGED <<file, comp>>, Spoilt \subseteq Spoilt'
  PROVE  Contained(file', Spoilt') /\ Contained(Trimmed(comp'), Spoilt')
  BY DEF DamageInv, Contained, Coming

LEMMA DamageOpenFile ==
  ASSUME BaseInv, DamageInv, NEW m \in Msgs, OpenFile(m)
  PROVE  DamageInv'
<1>1. /\ writer[m].pc = "new" /\ inode' = Created
      /\ history' = [history EXCEPT !.met = @ \cup Meeting(m)]
      /\ UNCHANGED <<file, comp>>
  BY DEF OpenFile
<1>2. /\ \A n \in Msgs : n # m => writer'[n] = writer[n]
      /\ writer'[m].pc = "opened"
  BY DEF OpenFile, BaseInv, TypeOK
<1>3. history'.met = history.met \cup Meeting(m) /\ history'.torn = history.torn
  BY <1>1 DEF BaseInv, TypeOK
<1>4. Created > 0 /\ (inode > 0 => Created = inode)
  BY QueueAssumption DEF BaseInv, TypeOK, Created
<1>5. OpenInv'
  <2>1. \A n \in Elems(file.open) : n \in Msgs
    BY DEF BaseInv, TypeOK, Elems
  <2>2. ASSUME NEW n \in Elems(file.open), n \notin history.torn
        PROVE  writer'[n].pc = "written" /\ writer'[n].inode = inode'
    <3>1. writer[n].pc = "written" /\ writer[n].inode = inode /\ n \in Msgs /\ inode > 0
      BY <2>1, <2>2 DEF DamageInv, OpenInv, Reaches
    <3> QED
      BY <1>1, <1>2, <1>4, <3>1
  <2>3. inode' > 0
    BY <1>1, <1>4
  <2> QED
    BY <1>1, <1>3, <2>2, <2>3 DEF OpenInv, Reaches
<1>6. MetInv'
  <2> SUFFICES ASSUME NEW a \in Msgs, NEW b \in Msgs, Busy(a)', Busy(b)', a # b
               PROVE  a \in history'.met
    BY DEF MetInv
  <2>1. CASE a = m
    <3>1. Busy(b)
      BY <1>2, <2>1 DEF Busy
    <3>2. a \in Meeting(m)
      BY <2>1, <3>1 DEF Meeting
    <3> QED
      BY <1>3, <3>2
  <2>2. CASE a # m /\ b = m
    <3>1. Busy(a)
      BY <1>2, <2>2 DEF Busy
    <3>2. a \in Meeting(m)
      BY <3>1 DEF Meeting
    <3> QED
      BY <1>3, <3>2
  <2>3. CASE a # m /\ b # m
    <3>1. Busy(a) /\ Busy(b)
      BY <1>2, <2>3 DEF Busy
    <3> QED
      BY <1>3, <3>1 DEF DamageInv, MetInv
  <2> QED
    BY <2>1, <2>2, <2>3
<1>7. Spoilt \subseteq Spoilt'
  BY <1>3 DEF Spoilt
<1> QED
  BY <1>1, <1>5, <1>6, <1>7, ContainedFrame DEF DamageInv, Coming

LEMMA DamageWriteText ==
  ASSUME BaseInv, DamageInv, NEW m \in Msgs, WriteText(m)
  PROVE  DamageInv'
<1>1. /\ writer[m].pc = "opened"
      /\ file' = IF Reaches(m) THEN TextAtEnd(file, m) ELSE file
      /\ UNCHANGED <<inode, comp>>
  BY DEF WriteText
<1>2. /\ \A n \in Msgs : n # m => writer'[n] = writer[n]
      /\ writer'[m].pc = "written" /\ writer'[m].inode = writer[m].inode
  BY DEF WriteText, BaseInv, TypeOK
<1>3. history'.met = history.met /\ history'.torn = history.torn
  BY DEF WriteText, BaseInv, TypeOK
<1>4. file \in File /\ \A n \in Elems(file.open) : n \in Msgs
  BY DEF BaseInv, TypeOK, File, Elems
<1>5. MetInv'
  <2>1. \A n \in Msgs : Busy(n)' => Busy(n)
    BY <1>1, <1>2 DEF Busy
  <2> QED
    BY <1>3, <2>1 DEF DamageInv, MetInv
<1>6. \A n \in Elems(file.open) :
        n \in history.torn \/ (n \in Msgs /\ writer[n].pc = "written" /\ writer[n].inode = inode)
  BY <1>4 DEF DamageInv, OpenInv, Reaches
<1>7. CASE ~Reaches(m)
  <2>1. file' = file
    BY <1>1, <1>7
  <2>2. OpenInv'
    <3>1. \A n \in Elems(file.open) : n \in history.torn \/ n # m
      BY <1>1, <1>6
    <3> QED
      BY <1>1, <1>2, <1>3, <1>4, <1>6, <2>1, <3>1 DEF DamageInv, OpenInv, Reaches
  <2> QED
    BY <1>1, <1>3, <1>5, <2>1, <2>2, ContainedFrame DEF DamageInv, Coming, Spoilt
<1>8. CASE Reaches(m)
  <2>1. file' = TextAtEnd(file, m) /\ writer[m].inode = inode
    BY <1>1, <1>8 DEF Reaches
  <2>2. /\ \A i \in DOMAIN Lines(file') : \A p \in DOMAIN Lines(file')[i] :
             \/ i = Len(file.lines) + 1 /\ Lines(file')[i][p] = m
             \/ /\ i \in DOMAIN Lines(file) /\ p \in DOMAIN Lines(file)[i]
                /\ Lines(file')[i][p] = Lines(file)[i][p]
        /\ \A i \in DOMAIN Lines(file) :
             i = Len(file.lines) + 1 => \A p \in DOMAIN Lines(file)[i] : Lines(file)[i][p] \in Elems(file.open)
        /\ Elems(file'.open) = Elems(file.open) \cup {m}
    BY <1>4, <2>1, TextStep
  <2>3. OpenInv'
    <3>1. \A n \in Msgs : writer'[n].pc # "new" => inode' > 0
      BY <1>1, <1>2 DEF DamageInv, OpenInv
    <3>2. ASSUME NEW n \in Elems(file'.open), n \notin history.torn
          PROVE  writer'[n].pc = "written" /\ writer'[n].inode = inode'
      <4>1. CASE n = m
        BY <1>1, <1>2, <2>1, <4>1
      <4>2. CASE n # m
        BY <1>1, <1>2, <1>6, <2>2, <3>2, <4>2
      <4> QED
        BY <4>1, <4>2
    <3> QED
      BY <1>3, <3>1, <3>2 DEF OpenInv, Reaches
  <2>4. \A n \in Elems(file.open) : n # m => n \in Spoilt \/ m \in Spoilt
    <3> SUFFICES ASSUME NEW n \in Elems(file.open), n # m, n \notin history.torn
                 PROVE  m \in history.met
      BY DEF Spoilt
    <3>1. Busy(n) /\ Busy(m) /\ n \in Msgs
      BY <1>1, <1>6 DEF Busy
    <3> QED
      BY <3>1 DEF DamageInv, MetInv
  <2>5. Contained(file', Spoilt)
    <3> SUFFICES ASSUME NEW i \in DOMAIN Lines(file'),
                        NEW p \in DOMAIN Lines(file')[i], NEW q \in DOMAIN Lines(file')[i],
                        Lines(file')[i][p] \notin Spoilt, Lines(file')[i][q] \notin Spoilt,
                        Lines(file')[i][p] # Lines(file')[i][q]
                 PROVE  FALSE
      BY DEF Contained
    <3> DEFINE Old(r) == /\ i \in DOMAIN Lines(file) /\ r \in DOMAIN Lines(file)[i]
                         /\ Lines(file')[i][r] = Lines(file)[i][r]
    <3>1. CASE Old(p) /\ Old(q)
      BY <3>1 DEF DamageInv, Contained
    <3>2. ASSUME NEW r \in {p, q}, NEW t \in {p, q}, Old(r), Lines(file')[i][t] = m, i = Len(file.lines) + 1,
                 Lines(file')[i][r] # m
          PROVE  FALSE
      <4>1. Lines(file')[i][r] \in Elems(file.open)
        BY <2>2, <3>2
      <4> QED
        BY <2>4, <3>2, <4>1
    <3> QED
      BY <2>2, <3>1, <3>2
  <2>6. Spoilt' = Spoilt
    BY <1>3 DEF Spoilt
  <2>7. Contained(Trimmed(comp'), Spoilt)
    BY <1>1 DEF DamageInv, Coming
  <2> QED
    BY <1>5, <2>3, <2>5, <2>6, <2>7 DEF DamageInv, Coming
<1> QED
  BY <1>7, <1>8

LEMMA DamageWriteNewline ==
  ASSUME BaseInv, DamageInv, NEW m \in Msgs, WriteNewline(m)
  PROVE  DamageInv'
<1>1. /\ writer[m].pc = "written"
      /\ file' = IF Reaches(m) THEN NewlineAtEnd(file) ELSE file
      /\ UNCHANGED <<inode, comp, history>>
  BY DEF WriteNewline
<1>2. /\ \A n \in Msgs : n # m => writer'[n] = writer[n]
      /\ writer'[m].pc = "done"
  BY DEF WriteNewline, BaseInv, TypeOK
<1>3. file \in File /\ \A n \in Elems(file.open) : n \in Msgs
  BY DEF BaseInv, TypeOK, File, Elems
<1>4. MetInv'
  <2>1. \A n \in Msgs : Busy(n)' => Busy(n)
    BY <1>1, <1>2 DEF Busy
  <2> QED
    BY <1>1, <2>1 DEF DamageInv, MetInv
<1>5. \A n \in Msgs : writer'[n].pc # "new" => inode' > 0
  BY <1>1, <1>2 DEF DamageInv, OpenInv
<1>6. CASE ~Reaches(m)
  <2>1. file' = file
    BY <1>1, <1>6
  <2>2. \A n \in Elems(file.open) : n \in history.torn \/ (writer'[n].pc = "written" /\ writer'[n].inode = inode)
    BY <1>2, <1>3, <1>6 DEF DamageInv, OpenInv, Reaches
  <2>3. OpenInv'
    BY <1>1, <1>5, <2>1, <2>2 DEF OpenInv, Reaches
  <2> QED
    BY <1>1, <1>4, <2>1, <2>3, ContainedFrame DEF DamageInv, Coming, Spoilt
<1>7. CASE Reaches(m)
  <2>1. file' = NewlineAtEnd(file)
    BY <1>1, <1>7
  <2>2. /\ file'.open = <<>>
        /\ \A i \in DOMAIN Lines(file') :
             Lines(file')[i] = <<>> \/ (i \in DOMAIN Lines(file) /\ Lines(file')[i] = Lines(file)[i])
    BY <1>3, <2>1, NewlineStep
  <2>3. Elems(file'.open) = {}
    <3>1. DOMAIN <<>> = {}
      OBVIOUS
    <3> QED
      BY <2>2, <3>1 DEF Elems
  <2>4. OpenInv'
    BY <1>5, <2>3 DEF OpenInv
  <2>5. Contained(file', Spoilt)
    BY <2>2, ContainedGrows DEF DamageInv
  <2> QED
    BY <1>1, <1>4, <2>4, <2>5 DEF DamageInv, Coming, Spoilt
<1> QED
  BY <1>6, <1>7

LEMMA DamageCutOffWriter ==
  ASSUME BaseInv, DamageInv, NEW m \in Msgs, CutOffWriter(m)
  PROVE  DamageInv'
<1>1. /\ Busy(m) /\ writer' = [writer EXCEPT ![m].pc = "cut"]
      /\ history' = [history EXCEPT !.torn = @ \cup {m}]
      /\ UNCHANGED <<file, inode, comp>>
  BY DEF CutOffWriter
<1>2. writer \in [Msgs -> [pc : Progress, inode : Nat]]
  BY DEF BaseInv, TypeOK
<1>3. /\ \A n \in Msgs : n # m => writer'[n] = writer[n]
      /\ writer'[m].pc = "cut"
  BY <1>1, <1>2
<1>4. history'.met = history.met /\ history'.torn = history.torn \cup {m}
  BY <1>1 DEF BaseInv, TypeOK
<1>5. MetInv'
  <2>1. \A n \in Msgs : Busy(n)' => Busy(n)
    BY <1>3 DEF Busy
  <2> QED
    BY <1>4, <2>1 DEF DamageInv, MetInv
<1>6. OpenInv'
  <2>1. \A n \in Elems(file.open) : n \in Msgs
    BY DEF BaseInv, TypeOK, Elems
  <2>2. \A n \in Msgs : writer'[n].pc # "new" => inode' > 0
    BY <1>1, <1>3 DEF DamageInv, OpenInv, Busy
  <2> QED
    BY <1>1, <1>3, <1>4, <2>1, <2>2 DEF DamageInv, OpenInv, Reaches
<1>7. Spoilt \subseteq Spoilt'
  BY <1>4 DEF Spoilt
<1> QED
  BY <1>1, <1>5, <1>6, <1>7, ContainedFrame DEF DamageInv, Coming

LEMMA DamageCompacting ==
  ASSUME BaseInv, DamageInv, Compacting
  PROVE  DamageInv'
<1>a. inode \in Nat
  BY QueueAssumption DEF BaseInv, TypeOK
<1>b. writer' = writer /\ (inode' = inode \/ inode' = inode + 1)
  BY DEF Compacting, ReadForCompact, ArchiveLine, Rename, CutOffCompaction
<1>c. history' = history \/ history' = [history EXCEPT !.dropped = @ \cup (Live(file) \cap expired')]
  BY DEF Compacting, ReadForCompact, ArchiveLine, Rename, CutOffCompaction
<1>d. history'.met = history.met /\ history'.torn = history.torn
  BY <1>c DEF BaseInv, TypeOK
<1>0. /\ writer' = writer /\ history'.met = history.met /\ history'.torn = history.torn
      /\ inode > 0 => inode' > 0
  BY <1>a, <1>b, <1>d
<1>1. MetInv' /\ Spoilt' = Spoilt
  BY <1>0 DEF DamageInv, MetInv, Busy, Spoilt
<1>2. \A n \in Msgs : writer'[n].pc # "new" => inode' > 0
  BY <1>0 DEF DamageInv, OpenInv
<1>3. ASSUME UNCHANGED <<file, inode>>
      PROVE  OpenInv' /\ Contained(file', Spoilt)
  BY <1>0, <1>2, <1>3 DEF DamageInv, OpenInv, Reaches
<1>4. CASE ReadForCompact
  <2>1. \A i \in DOMAIN Lines(Trimmed(comp')) : \E x \in DOMAIN Lines(file) :
          \A p \in DOMAIN Lines(Trimmed(comp'))[i] :
            p \in DOMAIN Lines(file)[x] /\ Lines(Trimmed(comp'))[i][p] = Lines(file)[x][p]
    BY <1>4, ReadPlan, SplitFacts
  <2>2. Contained(Trimmed(comp'), Spoilt)
    BY <2>1, ContainedGrows DEF DamageInv
  <2> QED
    BY <1>1, <1>3, <1>4, <2>2, ReadPlan DEF DamageInv, Coming
<1>5. CASE ArchiveLine
  <2>1. UNCHANGED <<file, inode>>
    BY <1>5 DEF ArchiveLine
  <2> QED
    BY <1>1, <1>3, <1>5, <2>1, LineMoves DEF DamageInv, Coming
<1>6. CASE Rename
  <2>1. file' = Trimmed(comp) /\ comp' = Idle
    BY <1>6 DEF Rename
  <2>2. file'.open = <<>> /\ DOMAIN Lines(Trimmed(comp')) = {}
    BY <2>1, NoFileComing DEF Trimmed
  <2>3. Elems(file'.open) = {}
    <3>1. DOMAIN <<>> = {}
      OBVIOUS
    <3> QED
      BY <2>2, <3>1 DEF Elems
  <2>4. OpenInv'
    BY <1>2, <2>3 DEF OpenInv
  <2>5. Contained(file', Spoilt) /\ Contained(Trimmed(comp'), Spoilt)
    BY <2>1, <2>2 DEF DamageInv, Coming, Contained
  <2> QED
    BY <1>1, <2>4, <2>5 DEF DamageInv, Coming
<1>7. CASE CutOffCompaction
  <2>1. comp' = Idle /\ UNCHANGED <<file, inode>>
    BY <1>7 DEF CutOffCompaction
  <2>2. DOMAIN Lines(Trimmed(comp')) = {}
    BY <2>1, NoFileComing
  <2>3. Contained(Trimmed(comp'), Spoilt)
    BY <2>2 DEF Contained
  <2> QED
    BY <1>1, <1>3, <2>1, <2>3 DEF DamageInv, Coming
<1> QED
  BY <1>4, <1>5, <1>6, <1>7 DEF Compacting

LEMMA DamageStep ==
  ASSUME BaseInv, DamageInv, [Next]_vars
  PROVE  DamageInv'
<1>1. ASSUME Appending
      PROVE  DamageInv'
  BY <1>1, DamageOpenFile, DamageWriteText, DamageWriteNewline, DamageCutOffWriter DEF Appending
<1>2. ASSUME UNCHANGED <<file, inode, writer, comp, history>>
      PROVE  DamageInv'
  BY <1>2 DEF DamageInv, OpenInv, Reaches, MetInv, Busy, Contained, Coming, Spoilt
<1>3. CASE UNCHANGED vars
  BY <1>2, <1>3 DEF vars
<1>4. CASE Poll
  BY <1>2, <1>4 DEF Poll
<1> QED
  BY <1>1, <1>3, <1>4, DamageCompacting DEF Next

\* A malformed line comes only of appends that ran together or were cut off: at
\* most one of the messages in it was appended on its own (queue::append,
\* compact).
THEOREM DamageSafety == Spec => []DamageContained
<1>1. Init => DamageInv
  BY DamageInit
<1>2. BaseInv /\ DamageInv /\ [Next]_vars => DamageInv'
  BY DamageStep
<1>3. ASSUME BaseInv, DamageInv
      PROVE  DamageContained
  <2> SUFFICES ASSUME NEW line \in Elems(Malformed(file)),
                      NEW m \in Elems(line) \ Spoilt, NEW n \in Elems(line) \ Spoilt
               PROVE  m = n
    BY DEF DamageContained, Spoilt
  <2>1. PICK k \in DOMAIN Malformed(file) : line = Malformed(file)[k]
    BY DEF Elems
  <2>2. file \in File
    BY <1>3 DEF BaseInv, TypeOK, File
  <2>3. PICK i \in Bad(file) : line = Lines(file)[i]
    BY <2>1, <2>2, MalformedFacts
  <2>4. i \in DOMAIN Lines(file)
    BY DEF Bad
  <2> QED
    BY <1>3, <2>3, <2>4 DEF DamageInv, Contained, Elems
<1> QED
  BY <1>1, <1>2, <1>3, BaseInvariant, PTL DEF Spec

-----------------------------------------------------------------------------
(* Nothing settled is lost. *)

LEMMA KeptInit ==
  ASSUME Init
  PROVE  KeptInv
  BY DEF Init, KeptInv, Settled

\* What no append settles and nothing moves stays where it is.
LEMMA KeptFrame ==
  ASSUME KeptInv, NEW m \in Msgs, Settled(m), UNCHANGED <<archive, comp>>,
         In(file, m) => In(file', m)
  PROVE  /\ In(file', m) \/ m \in Elems(archive')
         /\ comp'.pc = "archive" => \/ In(Trimmed(comp'), m)
                                    \/ m \in Elems(archive') \cup Elems(comp'.archiving)
  BY DEF KeptInv, Coming

LEMMA KeptAppending ==
  ASSUME BaseInv, KeptInv, Appending
  PROVE  KeptInv'
<1>1. PICK m \in Msgs : OpenFile(m) \/ WriteText(m) \/ WriteNewline(m) \/ CutOffWriter(m)
  BY DEF Appending
<1>2. file \in File /\ writer \in [Msgs -> [pc : Progress, inode : Nat]]
      /\ history \in [overlapped : SUBSET Msgs, met : SUBSET Msgs, torn : SUBSET Msgs, dropped : SUBSET Msgs]
  BY DEF BaseInv, TypeOK, File
<1> SUFFICES ASSUME NEW n \in Msgs, Settled(n)'
             PROVE  /\ In(file', n) \/ n \in Elems(archive')
                    /\ comp'.pc = "archive" => \/ In(Trimmed(comp'), n)
                                               \/ n \in Elems(archive') \cup Elems(comp'.archiving)
  BY DEF KeptInv, Coming
<1>3. CASE OpenFile(m)
  <2>1. /\ UNCHANGED <<file, archive, comp>> /\ history'.dropped = history.dropped
        /\ history'.overlapped = history.overlapped
        /\ writer'[m].pc = "opened" /\ (n # m => writer'[n] = writer[n])
    BY <1>2, <1>3 DEF OpenFile
  <2>2. Settled(n)
    BY <2>1 DEF Settled
  <2> QED
    BY <2>1, <2>2, KeptFrame
<1>4. CASE WriteText(m)
  <2>1. /\ UNCHANGED <<archive, comp>> /\ history'.dropped = history.dropped
        /\ file' = IF Reaches(m) THEN TextAtEnd(file, m) ELSE file
        /\ n # m => writer'[n] = writer[n]
    BY <1>2, <1>4 DEF WriteText
  <2>2. history'.overlapped = IF Reaches(m) /\ comp.pc = "idle" THEN history.overlapped
                              ELSE history.overlapped \cup {m}
    BY <1>2, <1>4 DEF WriteText
  <2>3. CASE n = m
    <3>1. Reaches(m) /\ comp.pc = "idle"
      BY <2>2, <2>3 DEF Settled
    <3>2. In(file', m)
      BY <1>2, <2>1, <3>1, TextStep
    <3> QED
      BY <2>1, <2>3, <3>1, <3>2
  <2>4. CASE n # m
    <3>1. Settled(n)
      BY <2>1, <2>2, <2>4 DEF Settled
    <3>2. In(file, n) => In(file', n)
      BY <1>2, <2>1, TextStep
    <3> QED
      BY <2>1, <3>1, <3>2, KeptFrame
  <2> QED
    BY <2>3, <2>4
<1>5. CASE WriteNewline(m)
  <2>1. /\ UNCHANGED <<archive, comp, history>> /\ writer[m].pc = "written"
        /\ n # m => writer'[n] = writer[n]
    BY <1>2, <1>5 DEF WriteNewline
  <2>2. Settled(n)
    BY <2>1 DEF Settled
  <2> QED
    BY <1>5, <2>1, <2>2, BaseWriteNewline, KeptFrame
<1>6. CASE CutOffWriter(m)
  <2>1. /\ UNCHANGED <<file, archive, comp>> /\ writer' = [writer EXCEPT ![m].pc = "cut"]
        /\ history' = [history EXCEPT !.torn = @ \cup {m}]
    BY <1>6 DEF CutOffWriter
  <2>2. /\ writer'[m].pc = "cut" /\ (n # m => writer'[n] = writer[n])
        /\ history'.dropped = history.dropped /\ history'.overlapped = history.overlapped
    BY <1>2, <2>1
  <2>3. Settled(n)
    BY <2>2 DEF Settled
  <2> QED
    BY <2>1, <2>3, KeptFrame
<1> QED
  BY <1>1, <1>3, <1>4, <1>5, <1>6

LEMMA KeptCompacting ==
  ASSUME BaseInv, KeptInv, Compacting
  PROVE  KeptInv'
<1>1. writer' = writer
  BY DEF Compacting, ReadForCompact, ArchiveLine, Rename, CutOffCompaction
<1> SUFFICES ASSUME NEW n \in Msgs, Settled(n)'
             PROVE  /\ In(file', n) \/ n \in Elems(archive')
                    /\ comp'.pc = "archive" => \/ In(Trimmed(comp'), n)
                                               \/ n \in Elems(archive') \cup Elems(comp'.archiving)
  BY DEF KeptInv, Coming
<1>2. CASE ReadForCompact
  <2>1. history'.dropped = history.dropped \cup (Live(file) \cap expired')
        /\ history'.overlapped = history.overlapped
    BY <1>2 DEF ReadForCompact, BaseInv, TypeOK
  <2>2. Settled(n) /\ ~(n \in Live(file) /\ n \in expired')
    BY <1>1, <2>1 DEF Settled
  <2>3. In(file, n) => In(Trimmed(comp'), n) \/ n \in Elems(comp'.archiving)
    BY <1>2, <2>2, ReadPlan, SplitFacts
  <2> QED
    BY <1>2, <2>2, <2>3, ReadPlan DEF KeptInv
<1>3. ASSUME history' = history
      PROVE  Settled(n) /\ (In(file, n) \/ n \in Elems(archive))
  BY <1>1, <1>3 DEF Settled, KeptInv
<1>4. CASE ArchiveLine
  <2>1. UNCHANGED <<file, history>>
    BY <1>4 DEF ArchiveLine
  <2>2. \A m : m \in Elems(archive) \/ m = Head(comp.archiving) => m \in Elems(archive')
    <3>1. \A s \in Seq(Msgs) : \A h \in Msgs : \A i \in DOMAIN s :
            i \in DOMAIN Append(s, h) /\ Append(s, h)[i] = s[i]
      OBVIOUS
    <3>2. \A s \in Seq(Msgs) : \A h \in Msgs :
            Len(s) + 1 \in DOMAIN Append(s, h) /\ Append(s, h)[Len(s) + 1] = h
      OBVIOUS
    <3> QED
      BY <1>4, <3>1, <3>2, LineMoves DEF Elems
  <2>3. \A m \in Elems(comp.archiving) : m = Head(comp.archiving) \/ m \in Elems(comp'.archiving)
    BY <1>4, LineMoves DEF Elems
  <2>4. In(Trimmed(comp), n) \/ n \in Elems(archive) \cup Elems(comp.archiving)
    BY <1>3, <1>4, <2>1, LineMoves DEF KeptInv, Coming
  <2> QED
    BY <1>3, <1>4, <2>1, <2>2, <2>3, <2>4, LineMoves
<1>5. CASE Rename
  <2>1. /\ comp.pc = "archive" /\ comp.archiving = <<>> /\ file' = Trimmed(comp) /\ comp' = Idle
        /\ UNCHANGED <<archive, history>>
    BY <1>5 DEF Rename
  <2>2. Elems(comp.archiving) = {}
    <3>1. DOMAIN <<>> = {}
      OBVIOUS
    <3> QED
      BY <2>1, <3>1 DEF Elems
  <2> QED
    BY <1>3, <2>1, <2>2 DEF KeptInv, Coming, Idle
<1>6. CASE CutOffCompaction
  <2>1. UNCHANGED <<file, archive, history>> /\ comp' = Idle
    BY <1>6 DEF CutOffCompaction
  <2> QED
    BY <1>3, <2>1 DEF Idle
<1> QED
  BY <1>2, <1>4, <1>5, <1>6 DEF Compacting

LEMMA KeptStep ==
  ASSUME BaseInv, KeptInv, [Next]_vars
  PROVE  KeptInv'
<1>1. ASSUME UNCHANGED <<file, archive, writer, comp, history>>
      PROVE  KeptInv'
  BY <1>1 DEF KeptInv, Settled, Coming
<1>2. CASE UNCHANGED vars
  BY <1>1, <1>2 DEF vars
<1>3. CASE Poll
  BY <1>1, <1>3 DEF Poll
<1> QED
  BY <1>2, <1>3, KeptAppending, KeptCompacting DEF Next

\* Compaction loses nothing it should keep: what was appended, did not expire and
\* was not written while a compaction ran is in the live file or in the archive
\* (queue::compact archives before it renames).
THEOREM KeptSafety == Spec => []SettledKept
<1>1. Init => KeptInv
  BY KeptInit
<1>2. BaseInv /\ KeptInv /\ [Next]_vars => KeptInv'
  BY KeptStep
<1>3. BaseInv /\ KeptInv => SettledKept
  <2> SUFFICES ASSUME BaseInv, KeptInv, NEW m \in Msgs, writer[m].pc = "done",
                      m \notin history.dropped \cup history.overlapped
               PROVE  m \in Live(file) \cup Elems(archive) \cup Garbage(file)
    BY DEF SettledKept
  <2>1. In(file, m) \/ m \in Elems(archive)
    BY DEF KeptInv, Settled
  <2>2. file \in File
    BY DEF BaseInv, TypeOK, File
  <2> QED
    BY <2>1, <2>2, InFacts
<1> QED
  BY <1>1, <1>2, <1>3, BaseInvariant, PTL DEF Spec

-----------------------------------------------------------------------------
(* Copies in the archive. *)

Positions(s, m) == {i \in DOMAIN s : s[i] = m}

LEMMA PositionsFacts ==
  ASSUME NEW s \in Seq(Msgs), NEW m
  PROVE  /\ IsFiniteSet(Positions(s, m)) /\ Cardinality(Positions(s, m)) \in Nat
         /\ m \notin Elems(s) => Cardinality(Positions(s, m)) = 0
<1>1. Len(s) \in Nat /\ Positions(s, m) \in SUBSET (1 .. Len(s))
  BY DEF Positions
<1>2. IsFiniteSet(Positions(s, m))
  BY <1>1, PositionsFinite
<1>3. m \notin Elems(s) => Positions(s, m) = {}
  BY DEF Positions, Elems
<1> QED
  BY <1>2, <1>3, FS_CardinalityType, FS_EmptySet

LEMMA PositionsAppend ==
  ASSUME NEW s \in Seq(Msgs), NEW h \in Msgs, NEW m
  PROVE  /\ Cardinality(Positions(Append(s, h), h)) = Cardinality(Positions(s, h)) + 1
         /\ m # h => Cardinality(Positions(Append(s, h), m)) = Cardinality(Positions(s, m))
<1>1. /\ Len(s) \in Nat /\ DOMAIN s = 1 .. Len(s) /\ DOMAIN Append(s, h) = 1 .. Len(s) + 1
      /\ Append(s, h)[Len(s) + 1] = h
      /\ \A i \in 1 .. Len(s) : Append(s, h)[i] = s[i]
  OBVIOUS
<1>2. Len(s) + 1 \notin 1 .. Len(s) /\ 1 .. Len(s) + 1 = (1 .. Len(s)) \cup {Len(s) + 1}
  BY <1>1
<1>3. Positions(Append(s, h), h) = Positions(s, h) \cup {Len(s) + 1} /\ Len(s) + 1 \notin Positions(s, h)
  BY <1>1, <1>2 DEF Positions
<1>4. m # h => Positions(Append(s, h), m) = Positions(s, m)
  BY <1>1, <1>2 DEF Positions
<1> QED
  BY <1>3, <1>4, PositionsFacts, FS_AddElement

\* The bound holds of a message that is not pending where it was not, as long as
\* the archive has no further copy of it.
LEMMA NoFurtherCopy ==
  ASSUME BaseInv, ArchiveInv, NEW m \in Msgs, Copies(m)' = Copies(m), Pending(m)' => Pending(m),
         budget'.crashes \in Int, budget'.crashes <= budget.crashes
  PROVE  Copies(m)' <= (IF Pending(m)' THEN 0 ELSE 1) + Crashes - budget'.crashes
<1>1. Copies(m) \in Nat
  <2>1. archive \in Seq(Msgs)
    BY DEF BaseInv, TypeOK
  <2> QED
    BY <2>1, PositionsFacts DEF Copies, Positions
<1>2. Crashes \in Nat /\ budget.crashes \in Nat
  BY QueueAssumption DEF BaseInv, TypeOK
<1>3. Copies(m) <= (IF Pending(m) THEN 0 ELSE 1) + Crashes - budget.crashes
  BY DEF ArchiveInv
<1> QED
  BY <1>1, <1>2, <1>3

LEMMA ArchiveInit ==
  ASSUME Init
  PROVE  ArchiveInv
<1>1. archive = <<>> /\ budget.crashes = Crashes /\ Crashes \in Nat
  BY QueueAssumption DEF Init
<1>2. ASSUME NEW m \in Msgs
      PROVE  Copies(m) = 0
  <2>1. {i \in DOMAIN archive : archive[i] = m} = {}
    BY <1>1
  <2> QED
    BY <2>1, FS_EmptySet DEF Copies
<1> QED
  BY <1>1, <1>2 DEF ArchiveInv

LEMMA ArchiveAppending ==
  ASSUME BaseInv, ArchiveInv, NEW m \in Msgs,
         OpenFile(m) \/ WriteText(m) \/ WriteNewline(m) \/ CutOffWriter(m)
  PROVE  ArchiveInv'
<1>1. archive' = archive /\ comp' = comp /\ archive \in Seq(Msgs) /\ budget.crashes \in Nat
      /\ Crashes \in Nat /\ budget.crashes <= Crashes
  BY QueueAssumption DEF OpenFile, WriteText, WriteNewline, CutOffWriter, BaseInv, TypeOK
<1>2. \A n \in Msgs : Copies(n)' = Copies(n)
  BY <1>1 DEF Copies
<1>3. budget'.crashes \in Int /\ budget'.crashes <= budget.crashes
  <2>1. CASE CutOffWriter(m)
    <3>1. budget'.crashes = budget.crashes - 1
      BY <2>1, CrashSpent DEF CutOffWriter
    <3> QED
      BY <1>1, <3>1
  <2> QED
    BY <1>1, <2>1 DEF OpenFile, WriteText, WriteNewline
<1>4. ASSUME NEW n \in Msgs, ~(n = m /\ WriteText(m))
      PROVE  Pending(n)' => Pending(n)
  <2>1. In(file', n) => In(file, n)
    <3>1. CASE WriteText(m)
      BY <1>4, <3>1, BaseWriteText
    <3>2. CASE WriteNewline(m)
      BY <3>2, BaseWriteNewline
    <3> QED
      BY <3>1, <3>2 DEF OpenFile, CutOffWriter
  <2> QED
    BY <1>1, <2>1 DEF Pending, Coming
<1>5. ASSUME NEW n \in Msgs
      PROVE  Copies(n)' <= (IF Pending(n)' THEN 0 ELSE 1) + Crashes - budget'.crashes
  <2>1. CASE n = m /\ WriteText(m)
    <3>1. n \notin Elems(archive)
      BY <2>1 DEF WriteText, Unwritten, BaseInv, UniqueInv
    <3>2. Copies(n) = 0
      BY <1>1, <3>1, PositionsFacts DEF Copies, Positions
    <3> QED
      BY <1>1, <1>2, <1>3, <3>2
  <2> QED
    BY <1>2, <1>3, <1>4, <2>1, NoFurtherCopy
<1> QED
  BY <1>5 DEF ArchiveInv

LEMMA ArchiveCompacting ==
  ASSUME BaseInv, ArchiveInv, Compacting
  PROVE  ArchiveInv'
<1>1. archive \in Seq(Msgs) /\ budget.crashes \in Nat /\ Crashes \in Nat /\ budget.crashes <= Crashes
  BY QueueAssumption DEF BaseInv, TypeOK
<1>2. ASSUME archive' = archive, budget'.crashes = budget.crashes,
             \A n \in Msgs : Pending(n)' => Pending(n)
      PROVE  ArchiveInv'
  <2>1. \A n \in Msgs : Copies(n)' = Copies(n)
    BY <1>2 DEF Copies
  <2>2. \A n \in Msgs : Copies(n)' <= (IF Pending(n)' THEN 0 ELSE 1) + Crashes - budget'.crashes
    BY <1>1, <1>2, <2>1, NoFurtherCopy
  <2> QED
    BY <2>2 DEF ArchiveInv
<1>3. CASE ReadForCompact
  <2>1. /\ comp.pc = "idle" /\ archive' = archive /\ budget'.crashes = budget.crashes /\ file' = file
        /\ comp'.pc = "archive"
    <3>1. budget' = [budget EXCEPT !.compactions = @ - 1]
      BY <1>3 DEF ReadForCompact
    <3>2. budget'.crashes = budget.crashes
      BY <3>1 DEF BaseInv, TypeOK
    <3>3. comp'.pc = "archive"
      BY <1>3, ReadPlan DEF Split
    <3> QED
      BY <1>3, <3>2, <3>3 DEF ReadForCompact
  <2>2. \A n : In(Trimmed(comp'), n) \/ n \in Elems(comp'.archiving) => In(file, n)
    BY <1>3, ReadPlan, SplitFacts
  <2>3. \A n \in Msgs : Pending(n)' => Pending(n)
    BY <2>1, <2>2 DEF Pending, Coming
  <2> QED
    BY <1>2, <2>1, <2>3
<1>4. CASE ArchiveLine
  <2>a. PICK h \in Msgs : h = Head(comp.archiving)
    BY <1>4, LineMoves
  <2>1. /\ comp.pc = "archive" /\ comp'.pc = "archive" /\ h \in Msgs /\ h \in Elems(comp.archiving)
        /\ Trimmed(comp') = Trimmed(comp) /\ archive' = Append(archive, h)
        /\ budget' = budget
    BY <1>4, <2>a, LineMoves DEF ArchiveLine
  <2>2. h \notin Elems(comp'.archiving) /\ \A n : n \in Elems(comp'.archiving) => n \in Elems(comp.archiving)
    <3>1. ASSUME NEW i \in DOMAIN comp'.archiving
          PROVE  comp'.archiving[i] # h /\ comp'.archiving[i] \in Elems(comp.archiving)
      <4>1. /\ i + 1 \in DOMAIN comp.archiving /\ comp'.archiving[i] = comp.archiving[i + 1] /\ i # 0
            /\ h = comp.archiving[1] /\ 1 \in DOMAIN comp.archiving
        BY <1>4, <2>a, LineMoves
      <4>2. comp.archiving \in Seq(Msgs) /\ comp'.archiving \in Seq(Msgs)
        BY <1>4, LineMoves DEF BaseInv, TypeOK
      <4>3. i \in Nat
        BY <4>2
      <4>4. i + 1 # 1
        BY <4>1, <4>3
      <4> QED
        BY <4>1, <4>4 DEF BaseInv, UniqueInv, Once, Elems
    <3> QED
      BY <3>1 DEF Elems
  <2>3. ~In(Trimmed(comp), h)
    BY <2>1 DEF BaseInv, UniqueInv, Coming, Elems
  <2>4. Copies(h)' = Copies(h) + 1 /\ \A n \in Msgs \ {h} : Copies(n)' = Copies(n)
    <3>1. \A s \in Seq(Msgs) : \A g \in Msgs : \A n :
            /\ Cardinality(Positions(Append(s, g), g)) = Cardinality(Positions(s, g)) + 1
            /\ n # g => Cardinality(Positions(Append(s, g), n)) = Cardinality(Positions(s, n))
      BY PositionsAppend
    <3>2. /\ Cardinality(Positions(archive', h)) = Cardinality(Positions(archive, h)) + 1
          /\ \A n : n # h => Cardinality(Positions(archive', n)) = Cardinality(Positions(archive, n))
      BY <1>1, <2>1, <3>1
    <3>3. \A n : Copies(n)' = Cardinality(Positions(archive', n)) /\ Copies(n) = Cardinality(Positions(archive, n))
      BY DEF Copies, Positions
    <3> QED
      BY <3>2, <3>3
  <2>5. Pending(h) /\ ~Pending(h)'
    BY <2>1, <2>2, <2>3 DEF Pending, Coming
  <2>6. \A n \in Msgs : Pending(n)' => Pending(n)
    BY <2>1, <2>2 DEF Pending, Coming
  <2>7. Copies(h) \in Nat /\ Copies(h) <= 0 + Crashes - budget.crashes
    <3>1. Copies(h) \in Nat
      BY <1>1, PositionsFacts DEF Copies, Positions
    <3> QED
      BY <2>1, <2>5, <3>1 DEF ArchiveInv
  <2>8. ASSUME NEW n \in Msgs
        PROVE  Copies(n)' <= (IF Pending(n)' THEN 0 ELSE 1) + Crashes - budget'.crashes
    <3>1. CASE n = h
      <4>1. Copies(h)' <= 1 + Crashes - budget'.crashes
        BY <1>1, <2>1, <2>4, <2>7
      <4> QED
        BY <2>5, <3>1, <4>1
    <3>2. CASE n # h
      BY <1>1, <2>1, <2>4, <2>6, <3>2, NoFurtherCopy
    <3> QED
      BY <3>1, <3>2
  <2> QED
    BY <2>8 DEF ArchiveInv
<1>5. CASE Rename
  <2>1. /\ comp.pc = "archive" /\ archive' = archive /\ budget' = budget /\ file' = Trimmed(comp)
        /\ comp'.pc = "idle"
    BY <1>5 DEF Rename, Idle
  <2>2. \A n \in Msgs : Pending(n)' => Pending(n)
    BY <2>1 DEF Pending, Coming
  <2> QED
    BY <1>2, <2>1, <2>2
<1>6. CASE CutOffCompaction
  <2>1. archive' = archive /\ budget'.crashes = budget.crashes - 1
    BY <1>6, CrashSpent DEF CutOffCompaction
  <2>2. ASSUME NEW n \in Msgs
        PROVE  Copies(n)' <= (IF Pending(n)' THEN 0 ELSE 1) + Crashes - budget'.crashes
    <3>1. Copies(n)' = Copies(n)
      BY <2>1 DEF Copies
    <3>2. Copies(n) \in Nat
      BY <1>1, PositionsFacts DEF Copies, Positions
    <3>3. Copies(n) <= (IF Pending(n) THEN 0 ELSE 1) + Crashes - budget.crashes
      BY DEF ArchiveInv
    <3> QED
      BY <1>1, <2>1, <3>1, <3>2, <3>3
  <2> QED
    BY <2>2 DEF ArchiveInv
<1> QED
  BY <1>3, <1>4, <1>5, <1>6 DEF Compacting

LEMMA ArchiveStep ==
  ASSUME BaseInv, ArchiveInv, [Next]_vars
  PROVE  ArchiveInv'
<1>1. ASSUME UNCHANGED <<file, archive, comp, budget>>
      PROVE  ArchiveInv'
  BY <1>1 DEF ArchiveInv, Copies, Pending, Coming
<1>2. CASE UNCHANGED vars
  BY <1>1, <1>2 DEF vars
<1>3. CASE Poll
  BY <1>1, <1>3 DEF Poll
<1>4. CASE Appending
  BY <1>4, ArchiveAppending DEF Appending
<1> QED
  BY <1>2, <1>3, <1>4, ArchiveCompacting DEF Next

\* However many compactions run, the archive holds one copy of a message and one
\* more for each crash at most (queue::compact appends to the archive first and a
\* compaction that is cut off leaves the live file as it was).
THEOREM ArchiveSafety == Spec => []ArchivedOnce
<1>1. Init => ArchiveInv
  BY ArchiveInit
<1>2. BaseInv /\ ArchiveInv /\ [Next]_vars => ArchiveInv'
  BY ArchiveStep
<1>3. BaseInv /\ ArchiveInv => ArchivedOnce
  <2> SUFFICES ASSUME BaseInv, ArchiveInv, NEW m \in Msgs
               PROVE  Copies(m) <= 1 + Crashes - budget.crashes
    BY DEF ArchivedOnce, Copies
  <2>1. archive \in Seq(Msgs) /\ budget.crashes \in Nat /\ Crashes \in Nat
    BY QueueAssumption DEF BaseInv, TypeOK
  <2>2. Copies(m) \in Nat
    BY <2>1, PositionsFacts DEF Copies, Positions
  <2>3. Copies(m) <= (IF Pending(m) THEN 0 ELSE 1) + Crashes - budget.crashes
    BY DEF ArchiveInv
  <2> QED
    BY <2>1, <2>2, <2>3
<1> QED
  BY <1>1, <1>2, <1>3, BaseInvariant, PTL DEF Spec

-----------------------------------------------------------------------------
(* What the consumer was delivered. *)

\* The offsets that matter are numbers, and the file and the plan have their types.
LEMMA DeliverTypes ==
  ASSUME BaseInv
  PROVE  /\ file \in File /\ OnceIn(file) /\ Once(Entries(file))
         /\ Entries(file) \in Seq(Msgs) /\ Len(Entries(file)) \in Nat
         /\ DOMAIN Entries(file) = 1 .. Len(Entries(file))
         /\ comp.kept \in Seq(Msgs) /\ DOMAIN comp.kept \subseteq Nat
         /\ comp.garbled \in Seq(Seq(Msgs)) /\ \A i \in DOMAIN comp.garbled : Garbled(comp.garbled[i])
         /\ consumer.cursor \in Nat /\ consumer.delivered \in Seq(Msgs)
<1>1. /\ file \in File /\ OnceIn(file) /\ comp.kept \in Seq(Msgs) /\ comp.garbled \in Seq(Seq(Msgs))
      /\ consumer.cursor \in Nat /\ consumer.delivered \in Seq(Msgs)
      /\ \A i \in DOMAIN comp.garbled : Garbled(comp.garbled[i])
  BY DEF BaseInv, TypeOK, UniqueInv, CompInv, File
<1>2. DOMAIN comp.kept \subseteq Nat
  BY <1>1
<1> QED
  BY <1>1, <1>2, EntriesFacts, EntriesOnce

LEMMA DeliverInit ==
  ASSUME Init
  PROVE  DeliverInv
<1>1. /\ comp = Idle /\ file = [lines |-> <<>>, open |-> <<>>] /\ consumer.delivered = <<>>
      /\ DOMAIN <<>> = {}
  BY DEF Init
<1>2. Elems(consumer.delivered) = {} /\ Once(consumer.delivered) /\ DOMAIN comp.kept = {}
  BY <1>1 DEF Elems, Once, Idle
<1> QED
  BY <1>2 DEF DeliverInv

\* Nothing of the invariant moves: the entries of the file and what is kept stay.
LEMMA DeliverFrame ==
  ASSUME DeliverInv, consumer' = consumer, Entries(file') = Entries(file),
         comp'.kept = comp.kept \/ comp' = Idle
  PROVE  DeliverInv'
<1>1. comp' = Idle => DOMAIN comp'.kept = {}
  BY NoFileComing
<1>2. CASE comp' = Idle
  BY <1>1, <1>2 DEF DeliverInv
<1>3. CASE comp'.kept = comp.kept
  BY <1>3 DEF DeliverInv
<1> QED
  BY <1>2, <1>3

LEMMA DeliverWriteText ==
  ASSUME BaseInv, DeliverInv, NEW m \in Msgs, WriteText(m)
  PROVE  DeliverInv'
<1>1. /\ file' = file \/ file' = TextAtEnd(file, m)
      /\ consumer' = consumer /\ comp' = comp /\ Unwritten(m)
  BY DEF WriteText, Unwritten
<1>2. CASE file' = file
  BY <1>1, <1>2, DeliverFrame
<1>3. CASE file' = TextAtEnd(file, m)
  <2>1. \A k \in DOMAIN Entries(file') :
          \/ Entries(file')[k] = m
          \/ k \in DOMAIN Entries(file) /\ Entries(file')[k] = Entries(file)[k]
    BY <1>3, DeliverTypes, TextStep
  <2>2. m \notin Elems(consumer.delivered) /\ ~In(Coming, m)
    BY <1>1 DEF BaseInv, UniqueInv
  <2>3. m \notin Elems(comp.kept)
    BY <2>2, DeliverTypes, TrimmedIn DEF Coming
  <2>4. \A k \in DOMAIN comp.kept : comp.kept[k] # m
    BY <2>3 DEF Elems
  <2> QED
    BY <1>1, <2>1, <2>2, <2>4 DEF DeliverInv
<1> QED
  BY <1>1, <1>2, <1>3

LEMMA DeliverAppending ==
  ASSUME BaseInv, DeliverInv, NEW m \in Msgs,
         OpenFile(m) \/ WriteText(m) \/ WriteNewline(m) \/ CutOffWriter(m)
  PROVE  DeliverInv'
<1>1. CASE WriteNewline(m)
  <2>1. Entries(file') = Entries(file)
    BY <1>1, DeliverTypes, NewlineStep DEF WriteNewline
  <2> QED
    BY <1>1, <2>1, DeliverFrame DEF WriteNewline
<1>2. CASE OpenFile(m)
  BY <1>2, DeliverFrame DEF OpenFile
<1>3. CASE CutOffWriter(m)
  BY <1>3, DeliverFrame DEF CutOffWriter
<1> QED
  BY <1>1, <1>2, <1>3, DeliverWriteText

LEMMA DeliverReadForCompact ==
  ASSUME BaseInv, DeliverInv, ReadForCompact
  PROVE  DeliverInv'
<1>1. /\ file' = file /\ consumer' = consumer
      /\ \A k \in DOMAIN comp'.kept :
           \E x \in DOMAIN Entries(file) : x >= k /\ comp'.kept[k] = Entries(file)[x]
      /\ DOMAIN comp'.kept \subseteq Nat
  <2>1. comp'.kept \in Seq(Msgs)
    BY ReadPlan, SplitSources
  <2>2. DOMAIN comp'.kept \subseteq Nat
    BY <2>1
  <2> QED
    BY <2>2, ReadPlan, SplitSources
<1>2. ASSUME NEW k \in DOMAIN comp'.kept
      PROVE  /\ comp'.kept[k] \in Elems(consumer.delivered) => k <= consumer.cursor
             /\ \A j \in DOMAIN Entries(file) : comp'.kept[k] = Entries(file)[j] => k <= j
  <2>1. PICK x \in DOMAIN Entries(file) : x >= k /\ comp'.kept[k] = Entries(file)[x]
    BY <1>1
  <2>2. k \in Nat /\ x \in Nat /\ consumer.cursor \in Nat
    BY <1>1, DeliverTypes
  <2>3. comp'.kept[k] \in Elems(consumer.delivered) => x <= consumer.cursor
    BY <2>1 DEF DeliverInv
  <2>4. \A j \in DOMAIN Entries(file) : comp'.kept[k] = Entries(file)[j] => x = j
    BY <2>1, DeliverTypes DEF Once
  <2> QED
    BY <2>1, <2>2, <2>3, <2>4
<1> QED
  BY <1>1, <1>2 DEF DeliverInv

LEMMA DeliverRename ==
  ASSUME BaseInv, DeliverInv, Rename
  PROVE  DeliverInv'
<1>1. file' = Trimmed(comp) /\ comp' = Idle /\ consumer' = consumer
  BY DEF Rename
<1>2. Entries(file') = comp.kept
  BY <1>1, DeliverTypes, TrimmedEntries
<1>3. DOMAIN comp'.kept = {}
  BY <1>1, NoFileComing
<1> QED
  BY <1>1, <1>2, <1>3 DEF DeliverInv

LEMMA DeliverCompacting ==
  ASSUME BaseInv, DeliverInv, Compacting
  PROVE  DeliverInv'
<1>1. CASE ArchiveLine
  BY <1>1, LineMoves, DeliverFrame DEF ArchiveLine
<1>2. CASE CutOffCompaction
  BY <1>2, DeliverFrame DEF CutOffCompaction
<1> QED
  BY <1>1, <1>2, DeliverReadForCompact, DeliverRename DEF Compacting

LEMMA DeliverPoll ==
  ASSUME BaseInv, DeliverInv, Poll
  PROVE  DeliverInv'
<1> DEFINE E == Entries(file)
           D == consumer.delivered
           D2 == consumer'.delivered
           n == consumer.cursor
<1>1. /\ Once(E) /\ Len(E) \in Nat /\ DOMAIN E = 1 .. Len(E) /\ n \in Nat /\ Len(D) \in Nat
      /\ DOMAIN comp.kept \subseteq Nat
  BY DeliverTypes
<1>2. /\ file' = file /\ comp' = comp /\ n < Len(E) /\ consumer'.cursor = Len(E)
      /\ \A i \in DOMAIN D2 :
           \/ i \in DOMAIN D /\ D2[i] = D[i]
           \/ \E k \in 1 .. Len(E) - n :
                i = Len(D) + k /\ n + k \in DOMAIN E /\ D2[i] = E[n + k]
  BY PollFacts
<1>3. /\ Once(D)
      /\ \A k \in DOMAIN E : E[k] \in Elems(D) => k <= n
      /\ \A k \in DOMAIN comp.kept : comp.kept[k] \in Elems(D) => k <= n
      /\ \A k \in DOMAIN comp.kept, j \in DOMAIN E : comp.kept[k] = E[j] => k <= j
  BY DEF DeliverInv
<1> HIDE DEF E, D, D2, n
<1>a. ASSUME NEW i \in DOMAIN D, NEW k \in 1 .. Len(E) - n, n + k \in DOMAIN E
      PROVE  D[i] # E[n + k]
  <2> SUFFICES ASSUME D[i] = E[n + k]
               PROVE  FALSE
    OBVIOUS
  <2>1. n + k <= n
    BY <1>3, <1>a DEF Elems
  <2> QED
    BY <1>1, <2>1
<1>4. Once(D2)
  <2> SUFFICES ASSUME NEW i \in DOMAIN D2, NEW j \in DOMAIN D2, D2[i] = D2[j]
               PROVE  i = j
    BY DEF Once
  <2>1. CASE i \in DOMAIN D /\ D2[i] = D[i] /\ j \in DOMAIN D /\ D2[j] = D[j]
    BY <1>3, <2>1 DEF Once
  <2>2. ASSUME NEW k \in 1 .. Len(E) - n, n + k \in DOMAIN E, D2[i] = E[n + k], i = Len(D) + k,
               NEW l \in 1 .. Len(E) - n, n + l \in DOMAIN E, D2[j] = E[n + l], j = Len(D) + l
        PROVE  i = j
    <3>1. n + k = n + l
      BY <1>1, <2>2 DEF Once
    <3> QED
      BY <1>1, <2>2, <3>1
  <2> QED
    BY <1>2, <1>a, <2>1, <2>2
<1>5. \A k \in DOMAIN E : k <= Len(E)
  BY <1>1
<1>6. ASSUME NEW k \in DOMAIN comp.kept, comp.kept[k] \in Elems(D2)
      PROVE  k <= Len(E)
  <2>1. PICK i \in DOMAIN D2 : D2[i] = comp.kept[k]
    BY <1>6 DEF Elems
  <2>2. CASE i \in DOMAIN D /\ D2[i] = D[i]
    <3>1. k <= n
      BY <1>3, <2>1, <2>2 DEF Elems
    <3> QED
      BY <1>1, <1>2, <3>1
  <2>3. ASSUME NEW j \in DOMAIN E, D2[i] = E[j]
        PROVE  k <= Len(E)
    <3>1. k <= j
      BY <1>3, <2>1, <2>3
    <3> QED
      BY <1>1, <3>1
  <2> QED
    BY <1>2, <2>2, <2>3
<1> QED
  BY <1>2, <1>4, <1>5, <1>6 DEF DeliverInv, E, D2

LEMMA DeliverStep ==
  ASSUME BaseInv, DeliverInv, [Next]_vars
  PROVE  DeliverInv'
<1>1. CASE UNCHANGED vars
  BY <1>1, DeliverFrame DEF vars
<1>2. CASE Appending
  BY <1>2, DeliverAppending DEF Appending
<1> QED
  BY <1>1, <1>2, DeliverCompacting, DeliverPoll DEF Next

\* A consumer that resumes from the offset after the last entry it was given gets
\* no message twice: a compaction only moves entries towards the front
\* (queue.rs read_from, next_offset).
THEOREM DeliverSafety == Spec => []DeliveredOnce
<1>1. Init => DeliverInv
  BY DeliverInit
<1>2. BaseInv /\ DeliverInv /\ [Next]_vars => DeliverInv'
  BY DeliverStep
<1>3. DeliverInv => DeliveredOnce
  BY DEF DeliverInv, Once, DeliveredOnce
<1> QED
  BY <1>1, <1>2, <1>3, BaseInvariant, PTL DEF Spec

=============================================================================
