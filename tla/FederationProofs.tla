---------------------------- MODULE FederationProofs ----------------------------
(***************************************************************************)
(* Brains that work together.  Of an ecosystem, for registries of any      *)
(* size: the order in which its children are asked, the answer to a        *)
(* cycle, and the score it makes of the answers (score_ecosystem,          *)
(* ecosystem.rs).  Of federated patterns, for any number of tasks, peers,  *)
(* originators and permits, any interval and any window: the pace of the   *)
(* emitter's limiter and the receiver's quota (acquire_emit_permit,        *)
(* admit_receipt, federated_pattern.rs).  Nothing of the one uses the      *)
(* other.                                                                  *)
(*                                                                         *)
(* The grants of a stretch say nothing of the sleepers that will still be  *)
(* granted in it.  Crowd counts both: whoever may be granted in a stretch  *)
(* that has begun holds a permit already, since the grant that began it    *)
(* sends every later comer to sleep beyond its end.                        *)
(***************************************************************************)
EXTENDS Ecosystem, FederatedPattern, FiniteSetTheorems, SequenceTheorems, TLAPS

Elements(s) == {s[k] : k \in 1 .. Len(s)}

Distinct(s) == \A k, l \in 1 .. Len(s) : s[k] = s[l] => k = l

Done == Elements(ordered)

RegistryOK ==
  /\ enabled \subseteq Child
  /\ deps \in [Child -> SUBSET (Child \cup {Unknown})]

SortTypeOK ==
  /\ indegree \in [Child -> Int]
  /\ queue \in Seq(Child)
  /\ ordered \in Seq(Child)

\* The counter of a child is the number of its dependencies that are not ordered yet.
CountersRight == \A j \in enabled : indegree[j] = Cardinality(Deps(j) \ Done)

\* Children in the queue are enabled, wait there once, are not ordered yet, and all they
\* depend on is.
QueueRight ==
  /\ Distinct(queue)
  /\ \A j \in Elements(queue) : j \in enabled /\ j \notin Done /\ Deps(j) \subseteq Done

SortInv == RegistryOK /\ SortTypeOK /\ CountersRight /\ QueueRight /\ DependenciesFirst

-----------------------------------------------------------------------------
LEMMA DepsFinite ==
  ASSUME RegistryOK, NEW j \in Child
  PROVE  Deps(j) \subseteq Child /\ IsFiniteSet(Deps(j))
<1>1. Deps(j) \subseteq Child
  BY DEF Deps, RegistryOK
<1>2. IsFiniteSet(Child)
  BY EcosystemAssumption, FS_Interval DEF Child
<1>3. QED
  BY <1>1, <1>2, FS_Subset

\* An ascending sequence has the elements of its set, each once.
LEMMA AscendingElements ==
  ASSUME NEW S \in SUBSET Child, NEW s \in Ascending(S)
  PROVE  s \in Seq(Child) /\ Elements(s) \subseteq S /\ Distinct(s)
<1>1. IsFiniteSet(S)
  <2>1. IsFiniteSet(Child)
    BY EcosystemAssumption, FS_Interval DEF Child
  <2>2. S \subseteq Child
    OBVIOUS
  <2>3. QED
    BY <2>1, <2>2, FS_Subset
<1>2. PICK n \in Nat : n = Cardinality(S)
  BY <1>1, FS_CardinalityType
<1>3. s \in [1 .. n -> S] /\ \A k, l \in 1 .. n : k < l => s[k] < s[l]
  BY <1>2 DEF Ascending
<1>4. s \in Seq(Child) /\ Len(s) = n
  BY <1>3
<1>5. Elements(s) \subseteq S
  BY <1>3, <1>4 DEF Elements
<1>6. Distinct(s)
  <2> SUFFICES ASSUME NEW k \in 1 .. n, NEW l \in 1 .. n, s[k] = s[l] PROVE k = l
    BY <1>4 DEF Distinct
  <2>1. s[k] \in Int
    <3>1. s[k] \in S
      BY <1>3
    <3>2. S \subseteq Int
      BY EcosystemAssumption DEF Child
    <3>3. QED
      BY <3>1, <3>2
  <2>2. ~(k < l) /\ ~(l < k)
    BY <1>3, <2>1
  <2>3. QED
    BY <2>2
<1>7. QED
  BY <1>4, <1>5, <1>6

LEMMA ElementsAppend ==
  ASSUME NEW s \in Seq(Child), NEW i \in Child
  PROVE  Elements(Append(s, i)) = Elements(s) \cup {i}
BY DEF Elements

LEMMA ElementsTailConcat ==
  ASSUME NEW q \in Seq(Child), q # <<>>, NEW s \in Seq(Child),
         Distinct(q), Distinct(s), Elements(q) \cap Elements(s) = {}
  PROVE  /\ Tail(q) \o s \in Seq(Child)
         /\ Elements(Tail(q) \o s) \subseteq (Elements(q) \ {Head(q)}) \cup Elements(s)
         /\ Distinct(Tail(q) \o s)
<1> DEFINE r == Tail(q) \o s
<1>1. /\ r \in Seq(Child) /\ Len(r) = Len(q) - 1 + Len(s) /\ Len(q) \in Nat \ {0} /\ Len(s) \in Nat
      /\ Head(q) = q[1]
  OBVIOUS
<1>2. ASSUME NEW k \in 1 .. Len(q) - 1
      PROVE  r[k] = q[k + 1] /\ k + 1 \in 1 .. Len(q) /\ k + 1 # 1
  BY <1>1
<1>3. ASSUME NEW k \in 1 .. Len(r), ~(k \in 1 .. Len(q) - 1)
      PROVE  r[k] = s[k - (Len(q) - 1)] /\ k - (Len(q) - 1) \in 1 .. Len(s)
  <2>1. Tail(q) \in Seq(Child) /\ Len(Tail(q)) = Len(q) - 1
    BY <1>1
  <2>2. k \in Int /\ k > Len(Tail(q)) /\ k <= Len(Tail(q)) + Len(s)
    BY <1>1, <1>3, <2>1
  <2>3. r[k] = s[k - Len(Tail(q))]
    BY <2>1, <2>2
  <2>4. k - (Len(q) - 1) \in 1 .. Len(s)
    BY <1>1, <2>1, <2>2
  <2>5. QED
    BY <2>1, <2>3, <2>4
<1>4. ASSUME NEW k \in 1 .. Len(q) - 1
      PROVE  r[k] \in Elements(q) \ {q[1]}
  <2>1. q[k + 1] \in Elements(q)
    BY <1>2 DEF Elements
  <2>2. q[k + 1] # q[1]
    BY <1>1, <1>2 DEF Distinct
  <2>3. QED
    BY <1>2, <2>1, <2>2
<1>5. ASSUME NEW k \in 1 .. Len(r), ~(k \in 1 .. Len(q) - 1)
      PROVE  r[k] \in Elements(s)
  <2>1. PICK l \in 1 .. Len(s) : r[k] = s[l]
    BY <1>3, <1>5
  <2>2. QED
    BY <2>1 DEF Elements
<1>6. Elements(r) \subseteq (Elements(q) \ {Head(q)}) \cup Elements(s)
  <2> SUFFICES ASSUME NEW k \in 1 .. Len(r)
               PROVE  r[k] \in (Elements(q) \ {q[1]}) \cup Elements(s)
    BY <1>1 DEF Elements
  <2>1. QED
    BY <1>4, <1>5
<1>7. Distinct(r)
  <2> SUFFICES ASSUME NEW k \in 1 .. Len(r), NEW l \in 1 .. Len(r), r[k] = r[l] PROVE k = l
    BY DEF Distinct
  <2>1. CASE k \in 1 .. Len(q) - 1 /\ l \in 1 .. Len(q) - 1
    <3>1. q[k + 1] = q[l + 1]
      BY <1>2, <2>1
    <3>2. k + 1 = l + 1
      BY <1>2, <2>1, <3>1 DEF Distinct
    <3>3. QED
      BY <3>2
  <2>2. CASE ~(k \in 1 .. Len(q) - 1) /\ ~(l \in 1 .. Len(q) - 1)
    <3>1. s[k - (Len(q) - 1)] = s[l - (Len(q) - 1)]
      BY <1>3, <2>2
    <3>2. k - (Len(q) - 1) = l - (Len(q) - 1)
      BY <1>3, <2>2, <3>1 DEF Distinct
    <3>3. QED
      BY <1>1, <3>2
  <2>3. CASE k \in 1 .. Len(q) - 1 /\ ~(l \in 1 .. Len(q) - 1)
    BY <1>4, <1>5, <2>3
  <2>4. CASE ~(k \in 1 .. Len(q) - 1) /\ l \in 1 .. Len(q) - 1
    BY <1>4, <1>5, <2>4
  <2>5. QED
    BY <2>1, <2>2, <2>3, <2>4
<1>8. QED
  BY <1>1, <1>6, <1>7

-----------------------------------------------------------------------------
LEMMA InitSort == EcosystemInit => SortInv
<1> SUFFICES ASSUME EcosystemInit PROVE SortInv
  OBVIOUS
<1> DEFINE roots == {i \in enabled : Deps(i) = {}}
<1>1. RegistryOK /\ roots \subseteq Child
  BY DEF EcosystemInit, RegistryOK
<1>2. queue \in Seq(Child) /\ Elements(queue) \subseteq roots /\ Distinct(queue)
  BY <1>1, AscendingElements DEF EcosystemInit
<1>3. ordered = <<>> /\ Done = {}
  BY DEF EcosystemInit, Done, Elements
<1>4. CountersRight
  <2> SUFFICES ASSUME NEW j \in enabled PROVE indegree[j] = Cardinality(Deps(j) \ Done)
    BY DEF CountersRight
  <2>1. j \in Child /\ Deps(j) \ Done = Deps(j)
    BY <1>1, <1>3 DEF RegistryOK
  <2>2. QED
    BY <2>1 DEF EcosystemInit
<1>5. SortTypeOK
  <2>1. \A j \in Child : Cardinality(Deps(j)) \in Int
    BY <1>1, DepsFinite, FS_CardinalityType
  <2>2. indegree \in [Child -> Int]
    BY <2>1 DEF EcosystemInit
  <2>3. QED
    BY <1>2, <1>3, <2>2 DEF SortTypeOK
<1>6. QueueRight
  BY <1>2, <1>3 DEF QueueRight
<1>7. DependenciesFirst
  BY <1>3 DEF DependenciesFirst
<1>8. QED
  BY <1>1, <1>4, <1>5, <1>6, <1>7 DEF SortInv

LEMMA OrderSort == SortInv /\ Order => SortInv'
<1> SUFFICES ASSUME SortInv, Order PROVE SortInv'
  OBVIOUS
<1> USE DEF SortInv
<1> DEFINE i == Head(queue)
           released == {j \in enabled : i \in Deps(j) /\ indegree[j] = 1}
<1>1. /\ queue # <<>> /\ ordered' = Append(ordered, i)
      /\ indegree' = [j \in Child |-> IF j \in enabled /\ i \in Deps(j) THEN indegree[j] - 1 ELSE indegree[j]]
      /\ enabled' = enabled /\ deps' = deps
  BY DEF Order
<1>2. PICK s \in Ascending(released) : queue' = Tail(queue) \o s
  BY DEF Order
<1>3. RegistryOK'
  BY <1>1 DEF RegistryOK
<1>4. \A j \in Child : Deps(j)' = Deps(j)
  BY <1>1 DEF Deps
<1>5. i \in Elements(queue) /\ i \in enabled /\ i \in Child /\ i \notin Done /\ Deps(i) \subseteq Done
  <2>1. i = queue[1] /\ 1 \in 1 .. Len(queue)
    BY <1>1 DEF SortTypeOK
  <2>2. i \in Elements(queue)
    BY <2>1 DEF Elements
  <2>3. QED
    BY <2>2 DEF QueueRight, RegistryOK
<1>6. Done' = Done \cup {i}
  <2>1. Elements(Append(ordered, i)) = Elements(ordered) \cup {i}
    BY <1>5, ElementsAppend DEF SortTypeOK
  <2>2. QED
    BY <1>1, <2>1 DEF Done
<1>7. ASSUME NEW j \in enabled, i \in Deps(j)
      PROVE  /\ Cardinality((Deps(j) \ Done) \ {i}) = indegree[j] - 1
             /\ indegree[j] = 1 => Deps(j) \subseteq Done \cup {i}
             /\ j \notin Done \cup {i} /\ j \notin Elements(queue)
  <2>1. j \in Child /\ IsFiniteSet(Deps(j) \ Done) /\ i \in Deps(j) \ Done
    BY <1>5, <1>7, DepsFinite, FS_Subset DEF RegistryOK
  <2>2. Cardinality((Deps(j) \ Done) \ {i}) = indegree[j] - 1
    BY <2>1, FS_RemoveElement DEF CountersRight
  <2>3. ASSUME indegree[j] = 1 PROVE Deps(j) \subseteq Done \cup {i}
    <3>1. IsFiniteSet((Deps(j) \ Done) \ {i}) /\ Cardinality((Deps(j) \ Done) \ {i}) = 0
      BY <2>1, <2>2, <2>3, FS_Subset
    <3>2. (Deps(j) \ Done) \ {i} = {}
      BY <3>1, FS_EmptySet
    <3>3. QED
      BY <3>2
  <2>4. j # i /\ j \notin Elements(queue)
    BY <1>5, <1>7 DEF QueueRight
  <2>5. j \notin Done
    <3> SUFFICES ASSUME j \in Done PROVE FALSE
      OBVIOUS
    <3>1. PICK k \in 1 .. Len(ordered) : ordered[k] = j
      BY DEF Done, Elements
    <3>2. PICK m \in 1 .. k - 1 : ordered[m] = i
      BY <1>7, <3>1 DEF DependenciesFirst
    <3>3. m \in 1 .. Len(ordered)
      BY <3>1, <3>2 DEF SortTypeOK
    <3>4. i \in Done
      BY <3>2, <3>3 DEF Done, Elements
    <3>5. QED
      BY <1>5, <3>4
  <2>6. QED
    BY <2>2, <2>3, <2>4, <2>5
<1>8. s \in Seq(Child) /\ Elements(s) \subseteq released /\ Distinct(s)
  <2>1. released \subseteq Child
    BY DEF RegistryOK
  <2>2. QED
    BY <1>2, <2>1, AscendingElements
<1>9. /\ queue' \in Seq(Child) /\ Distinct(queue')
      /\ Elements(queue') \subseteq (Elements(queue) \ {i}) \cup Elements(s)
  <2>1. Elements(queue) \cap Elements(s) = {}
    BY <1>7, <1>8
  <2>2. QED
    BY <1>1, <1>2, <1>8, <2>1, ElementsTailConcat DEF SortTypeOK, QueueRight
<1>10. SortTypeOK'
  <2>1. indegree' \in [Child -> Int]
    BY <1>1 DEF SortTypeOK
  <2>2. ordered' \in Seq(Child)
    BY <1>1, <1>5 DEF SortTypeOK
  <2>3. QED
    BY <1>9, <2>1, <2>2 DEF SortTypeOK
<1>11. CountersRight'
  <2> SUFFICES ASSUME NEW j \in enabled PROVE indegree'[j] = Cardinality(Deps(j) \ (Done \cup {i}))
    <3>1. \A j \in enabled : Deps(j)' = Deps(j)
      BY <1>4 DEF RegistryOK
    <3>2. QED
      BY <1>1, <1>6, <3>1 DEF CountersRight
  <2>1. j \in Child
    BY DEF RegistryOK
  <2>2. CASE i \in Deps(j)
    <3>1. Deps(j) \ (Done \cup {i}) = (Deps(j) \ Done) \ {i}
      OBVIOUS
    <3>2. indegree'[j] = indegree[j] - 1
      BY <1>1, <2>1, <2>2
    <3>3. QED
      BY <1>7, <2>2, <3>1, <3>2
  <2>3. CASE i \notin Deps(j)
    <3>1. Deps(j) \ (Done \cup {i}) = Deps(j) \ Done
      BY <2>3
    <3>2. indegree'[j] = indegree[j]
      BY <1>1, <2>1, <2>3
    <3>3. QED
      BY <3>1, <3>2 DEF CountersRight
  <2>4. QED
    BY <2>2, <2>3
<1>12. QueueRight'
  <2>1. ASSUME NEW j \in Elements(queue')
        PROVE  j \in enabled /\ j \notin Done \cup {i} /\ Deps(j) \subseteq Done \cup {i}
    <3>1. CASE j \in Elements(queue) \ {i}
      BY <3>1 DEF QueueRight
    <3>2. CASE j \in Elements(s)
      <4>1. j \in enabled /\ i \in Deps(j) /\ indegree[j] = 1
        BY <1>8, <3>2
      <4>2. QED
        BY <1>7, <4>1
    <3>3. QED
      BY <1>9, <2>1, <3>1, <3>2
  <2>2. ASSUME NEW j \in Elements(queue')
        PROVE  j \in enabled' /\ j \notin Done' /\ Deps(j)' \subseteq Done'
    <3>1. j \in Child
      BY <2>1 DEF RegistryOK
    <3>2. QED
      BY <1>1, <1>4, <1>6, <2>1, <3>1
  <2>3. Elements(queue)' = Elements(queue')
    BY DEF Elements
  <2>4. Distinct(queue)'
    BY <1>9 DEF Distinct
  <2>5. QED
    BY <2>2, <2>3, <2>4 DEF QueueRight
<1>13. DependenciesFirst'
  <2>1. /\ Len(ordered') = Len(ordered) + 1 /\ Len(ordered) \in Nat
        /\ \A m \in 1 .. Len(ordered) : ordered'[m] = ordered[m]
        /\ ordered'[Len(ordered) + 1] = i
    BY <1>1, <1>5 DEF SortTypeOK
  <2> SUFFICES ASSUME NEW k \in 1 .. Len(ordered')
               PROVE  /\ \A j \in deps[ordered'[k]] \cap enabled : \E m \in 1 .. k - 1 : ordered'[m] = j
                      /\ \A m \in 1 .. k - 1 : ordered'[m] # ordered'[k]
    BY <1>1 DEF DependenciesFirst, Deps
  <2>2. CASE k \in 1 .. Len(ordered)
    <3>1. \A m \in 1 .. k - 1 : m \in 1 .. Len(ordered)
      BY <2>1, <2>2
    <3>2. ordered'[k] = ordered[k] /\ \A m \in 1 .. k - 1 : ordered'[m] = ordered[m]
      BY <2>1, <2>2, <3>1
    <3>3. \A j \in deps[ordered[k]] \cap enabled : \E m \in 1 .. k - 1 : ordered[m] = j
      BY <2>2 DEF DependenciesFirst, Deps
    <3>4. \A m \in 1 .. k - 1 : ordered[m] # ordered[k]
      BY <2>2 DEF DependenciesFirst
    <3>5. QED
      BY <3>2, <3>3, <3>4
  <2>3. CASE k = Len(ordered) + 1
    <3>1. \A m \in 1 .. k - 1 : m \in 1 .. Len(ordered) /\ ordered'[m] = ordered[m]
      BY <2>1, <2>3
    <3>2. ASSUME NEW j \in Deps(i) PROVE \E m \in 1 .. k - 1 : ordered'[m] = j
      <4>1. PICK m \in 1 .. Len(ordered) : ordered[m] = j
        BY <1>5, <3>2 DEF Done, Elements
      <4>2. QED
        BY <2>1, <2>3, <4>1
    <3>3. ASSUME NEW m \in 1 .. k - 1 PROVE ordered'[m] # i
      <4>1. ordered[m] \in Done
        BY <3>1 DEF Done, Elements
      <4>2. QED
        BY <1>5, <3>1, <4>1
    <3>4. ordered'[k] = i
      BY <2>1, <2>3
    <3>5. QED
      BY <3>2, <3>3, <3>4 DEF Deps
  <2>4. QED
    BY <2>1, <2>2, <2>3
<1>14. QED
  BY <1>3, <1>10, <1>11, <1>12, <1>13

\* The other steps leave the sort's variables alone.
LEMMA OtherSort == SortInv /\ UNCHANGED <<enabled, deps, indegree, queue, ordered>> => SortInv'
<1> SUFFICES ASSUME SortInv, UNCHANGED <<enabled, deps, indegree, queue, ordered>> PROVE SortInv'
  OBVIOUS
<1> USE DEF SortInv
<1>1. RegistryOK' /\ SortTypeOK'
  BY DEF RegistryOK, SortTypeOK
<1>2. CountersRight'
  BY DEF CountersRight, Deps, Done, Elements
<1>3. QueueRight'
  <2>1. Elements(queue)' = Elements(queue) /\ Done' = Done
    BY DEF Elements, Done
  <2>2. \A j \in enabled : Deps(j)' = Deps(j)
    BY DEF Deps
  <2>3. Distinct(queue)'
    BY DEF QueueRight, Distinct
  <2>4. QED
    BY <2>1, <2>2, <2>3 DEF QueueRight
<1>4. DependenciesFirst'
  BY DEF DependenciesFirst, Deps
<1>5. QED
  BY <1>1, <1>2, <1>3, <1>4

LEMMA NextSort == SortInv /\ [EcosystemNext]_ecosystemVars => SortInv'
<1> SUFFICES ASSUME SortInv, [EcosystemNext]_ecosystemVars PROVE SortInv'
  OBVIOUS
<1>1. CASE Order
  BY <1>1, OrderSort
<1>2. CASE ReportCycle
  BY <1>2, OtherSort DEF ReportCycle
<1>3. CASE Sorted
  BY <1>3, OtherSort DEF Sorted
<1>4. CASE Ask
  BY <1>4, OtherSort DEF Ask
<1>5. CASE BeginAggregate \/ Count \/ Aggregate
  BY <1>5, OtherSort DEF BeginAggregate, Count, Aggregate
<1>6. CASE UNCHANGED ecosystemVars
  BY <1>6, OtherSort DEF ecosystemVars
<1>7. QED
  BY <1>1, <1>2, <1>3, <1>4, <1>5, <1>6 DEF EcosystemNext

\* No child is asked before an enabled child that it depends on, and none twice, for every
\* registry (topological_sort, neurogrim-core/src/ecosystem.rs).
THEOREM OrderIsTopological == EcosystemSpec => []DependenciesFirst
<1>1. SortInv => DependenciesFirst
  BY DEF SortInv
<1>2. QED
  BY InitSort, NextSort, <1>1, PTL DEF EcosystemSpec

-----------------------------------------------------------------------------
(* The cycle error.  A knot is never entered: each of its children waits for  *)
(* another one.  What is left when the queue is empty is a knot, since a child *)
(* with nothing left to wait for is in the queue or ordered.                  *)

\* Whoever waits for nobody is ordered or about to be.
Complete == \A j \in enabled : Deps(j) \subseteq Done => j \in Done \cup Elements(queue)

KnotsApart == \A S \in SUBSET enabled : Knot(S) => S \cap Done = {}

CycleInv ==
  /\ Complete
  /\ KnotsApart
  /\ Done \subseteq enabled
  /\ pc \in {"sort", "invoke", "sum", "done", "failed"}
  /\ pc = "sort" => asked = 0
  /\ pc \in {"invoke", "sum", "done"} => Done = enabled
  /\ CycleExact

\* An ascending sequence has all the elements of its set.
LEMMA AscendingAll ==
  ASSUME NEW S \in SUBSET Child, NEW s \in Ascending(S)
  PROVE  Elements(s) = S
<1>1. IsFiniteSet(S)
  <2>1. IsFiniteSet(Child)
    BY EcosystemAssumption, FS_Interval DEF Child
  <2> QED
    BY <2>1, FS_Subset
<1>2. PICK n \in Nat : n = Cardinality(S)
  BY <1>1, FS_CardinalityType
<1>3. s \in [1 .. n -> S] /\ \A k, l \in 1 .. n : k < l => s[k] < s[l]
  BY <1>2 DEF Ascending
<1>4. Len(s) = n /\ s \in Seq(Child) /\ Distinct(s)
  BY <1>3, AscendingElements
<1>5. IsFiniteSet(1 .. n) /\ Cardinality(1 .. n) = n
  BY FS_Interval
<1>6. s \in Injection(1 .. n, S)
  BY <1>3, <1>4 DEF Injection, IsInjective, Distinct
<1>7. s \in Surjection(1 .. n, S)
  BY <1>1, <1>2, <1>5, <1>6, FS_Injection
<1> QED
  BY <1>3, <1>4, <1>7 DEF Surjection, Elements

\* Nothing but the head leaves the queue.
LEMMA TailConcatKeeps ==
  ASSUME NEW q \in Seq(Child), q # <<>>, NEW s \in Seq(Child)
  PROVE  (Elements(q) \ {Head(q)}) \cup Elements(s) \subseteq Elements(Tail(q) \o s)
<1> DEFINE r == Tail(q) \o s
<1>1. /\ r \in Seq(Child) /\ Len(r) = Len(q) - 1 + Len(s) /\ Len(q) \in Nat \ {0} /\ Len(s) \in Nat
      /\ Head(q) = q[1]
  OBVIOUS
<1>2. ASSUME NEW k \in 1 .. Len(q), k # 1
      PROVE  q[k] \in Elements(r)
  <2>1. k - 1 \in 1 .. Len(r) /\ r[k - 1] = q[k]
    BY <1>1, <1>2
  <2> QED
    BY <2>1 DEF Elements
<1>3. ASSUME NEW k \in 1 .. Len(s)
      PROVE  s[k] \in Elements(r)
  <2>1. Tail(q) \in Seq(Child) /\ Len(Tail(q)) = Len(q) - 1
    BY <1>1
  <2>2. Len(Tail(q)) + k \in 1 .. Len(r)
    BY <1>1, <2>1
  <2>3. r[Len(Tail(q)) + k] = s[k]
    BY <1>1, <2>1, <2>2
  <2> QED
    BY <2>2, <2>3 DEF Elements
<1> HIDE DEF r
<1>4. ASSUME NEW x \in Elements(q) \ {Head(q)}
      PROVE  x \in Elements(r)
  BY <1>1, <1>2 DEF Elements
<1>5. ASSUME NEW x \in Elements(s)
      PROVE  x \in Elements(r)
  BY <1>3 DEF Elements
<1> QED
  BY <1>4, <1>5 DEF r

LEMMA InitCycle == EcosystemInit => CycleInv
<1> SUFFICES ASSUME EcosystemInit PROVE CycleInv
  OBVIOUS
<1>1. Done = {}
  BY DEF EcosystemInit, Done, Elements
<1>2. {i \in enabled : Deps(i) = {}} \in SUBSET Child
  BY DEF EcosystemInit
<1>3. Elements(queue) = {i \in enabled : Deps(i) = {}}
  BY <1>2, AscendingAll DEF EcosystemInit
<1>4. Complete /\ KnotsApart /\ Done \subseteq enabled
  BY <1>1, <1>3 DEF Complete, KnotsApart
<1> QED
  BY <1>1, <1>4 DEF EcosystemInit, CycleInv, CycleExact

\* A child of a knot is not in the queue: it depends on one that is not ordered.
LEMMA KnotsNotQueued ==
  ASSUME QueueRight, KnotsApart, NEW S \in SUBSET enabled, Knot(S), NEW i \in Elements(queue)
  PROVE  i \notin S
<1> SUFFICES ASSUME i \in S PROVE FALSE
  OBVIOUS
<1>1. PICK j \in Deps(i) : j \in S
  BY DEF Knot
<1>2. j \in Done
  BY DEF QueueRight
<1> QED
  BY <1>1, <1>2 DEF KnotsApart

LEMMA OrderCycle ==
  ASSUME SortInv, CycleInv, Order
  PROVE  CycleInv'
<1> DEFINE i == Head(queue)
           released == {j \in enabled : i \in Deps(j) /\ indegree[j] = 1}
<1>1. /\ pc = "sort" /\ queue # <<>> /\ ordered' = Append(ordered, i)
      /\ UNCHANGED <<enabled, deps, pc, involved, asked>>
  BY DEF Order
<1>2. PICK s \in Ascending(released) : queue' = Tail(queue) \o s
  BY DEF Order
<1>3. RegistryOK /\ SortTypeOK /\ CountersRight /\ QueueRight
  BY DEF SortInv
<1>4. i \in Elements(queue) /\ i \in Child /\ queue \in Seq(Child) /\ ordered \in Seq(Child)
  BY <1>1, <1>3 DEF SortTypeOK, Elements
<1>5. i \in enabled
  BY <1>3, <1>4 DEF QueueRight
<1>6. Done' = Done \cup {i}
  BY <1>1, <1>4, ElementsAppend DEF Done
<1>7. released \in SUBSET Child
  BY <1>3 DEF RegistryOK
<1>8. s \in Seq(Child) /\ Elements(s) = released
  BY <1>2, <1>7, AscendingElements, AscendingAll
<1>9. (Elements(queue) \ {i}) \cup released \subseteq Elements(queue')
  BY <1>1, <1>2, <1>4, <1>8, TailConcatKeeps
<1>10. \A j : Deps(j)' = Deps(j)
  BY <1>1 DEF Deps
<1>11. Complete'
  <2> SUFFICES ASSUME NEW j \in enabled, Deps(j) \subseteq Done \cup {i}
               PROVE  j \in (Done \cup {i}) \cup Elements(queue')
    <3>1. Elements(queue)' = Elements(queue')
      BY DEF Elements
    <3> QED
      BY <1>1, <1>6, <1>10, <3>1 DEF Complete
  <2>1. CASE Deps(j) \subseteq Done
    BY <1>9, <2>1 DEF CycleInv, Complete
  <2>2. CASE ~(Deps(j) \subseteq Done)
    <3>1. Deps(j) \ Done = {i}
      BY <2>2
    <3>2. indegree[j] = 1
      BY <1>3, <3>1, FS_Singleton DEF CountersRight
    <3>3. j \in released
      BY <3>1, <3>2
    <3> QED
      BY <1>9, <3>3
  <2> QED
    BY <2>1, <2>2
<1>12. KnotsApart'
  <2> SUFFICES ASSUME NEW S \in SUBSET enabled, Knot(S)
               PROVE  S \cap (Done \cup {i}) = {}
    <3>1. \A S : Knot(S)' = Knot(S)
      BY <1>10 DEF Knot
    <3> QED
      BY <1>1, <1>6, <3>1 DEF KnotsApart
  <2>1. KnotsApart
    BY DEF CycleInv
  <2>2. i \notin S
    BY <1>3, <1>4, <2>1, KnotsNotQueued
  <2> QED
    BY <2>1, <2>2 DEF KnotsApart
<1> QED
  BY <1>1, <1>5, <1>6, <1>11, <1>12 DEF CycleInv, CycleExact

\* What is left over when the queue is empty is what is stuck.
LEMMA LeftOver ==
  ASSUME SortInv, CycleInv, queue = <<>>
  PROVE  /\ Stuck = enabled \ Done
         /\ {i \in enabled : indegree[i] > 0} = Stuck
<1>1. RegistryOK /\ SortTypeOK /\ CountersRight /\ DependenciesFirst
  BY DEF SortInv
<1>2. Complete /\ KnotsApart /\ Done \subseteq enabled
  BY DEF CycleInv
<1>3. Elements(queue) = {}
  BY DEF Elements
<1>4. Knot(enabled \ Done)
  <2> SUFFICES ASSUME NEW i \in enabled \ Done
               PROVE  Deps(i) \cap (enabled \ Done) # {}
    BY DEF Knot
  <2>1. ~(Deps(i) \subseteq Done)
    BY <1>2, <1>3 DEF Complete
  <2> QED
    BY <2>1 DEF Deps
<1>5. Stuck = enabled \ Done
  <2>1. enabled \ Done \subseteq Stuck
    BY <1>4 DEF Stuck
  <2>2. Stuck \subseteq enabled
    BY DEF Stuck
  <2>3. Stuck \cap Done = {}
    BY <1>2 DEF Stuck, KnotsApart
  <2> QED
    BY <2>1, <2>2, <2>3
<1>6. ASSUME NEW i \in enabled
      PROVE  indegree[i] > 0 <=> i \notin Done
  <2>1. indegree[i] = Cardinality(Deps(i) \ Done) /\ IsFiniteSet(Deps(i) \ Done)
    <3>1. i \in Child
      BY <1>1 DEF RegistryOK
    <3>2. IsFiniteSet(Deps(i))
      BY <1>1, <3>1, DepsFinite
    <3> QED
      BY <1>1, <3>2, FS_Subset DEF CountersRight
  <2>2. Cardinality(Deps(i) \ Done) \in Nat
    BY <2>1, FS_CardinalityType
  <2>3. (Cardinality(Deps(i) \ Done) = 0) <=> (Deps(i) \ Done = {})
    BY <2>1, FS_EmptySet
  <2>4. CASE i \in Done
    <3>1. PICK k \in 1 .. Len(ordered) : ordered[k] = i
      BY <2>4 DEF Done, Elements
    <3>2. Len(ordered) \in Nat
      BY <1>1 DEF SortTypeOK
    <3>3. \A j \in Deps(i) : \E m \in 1 .. k - 1 : ordered[m] = j
      BY <1>1, <3>1 DEF DependenciesFirst
    <3>4. \A j \in Deps(i) : j \in Done
      <4> TAKE j \in Deps(i)
      <4>1. PICK m \in 1 .. k - 1 : ordered[m] = j
        BY <3>3
      <4>2. m \in 1 .. Len(ordered)
        BY <3>2
      <4> QED
        BY <4>1, <4>2 DEF Done, Elements
    <3> QED
      BY <2>1, <2>3, <2>4, <3>4
  <2>5. CASE i \notin Done
    <3>1. ~(Deps(i) \subseteq Done)
      BY <1>2, <1>3, <2>5 DEF Complete
    <3> QED
      BY <2>1, <2>2, <2>3, <2>5, <3>1
  <2> QED
    BY <2>4, <2>5
<1> QED
  BY <1>5, <1>6

\* The order is as long as it has children.
LEMMA OrderLength ==
  ASSUME SortInv
  PROVE  IsFiniteSet(Done) /\ Cardinality(Done) = Len(ordered)
<1>1. ordered \in Seq(Child) /\ DependenciesFirst
  BY DEF SortInv, SortTypeOK
<1> DEFINE n == Len(ordered)
<1>2. n \in Nat /\ \A k \in 1 .. n : ordered[k] \in Done
  BY <1>1 DEF Done, Elements
<1>3. IsFiniteSet(1 .. n) /\ Cardinality(1 .. n) = n
  BY <1>2, FS_Interval
<1>4. ordered \in Surjection(1 .. n, Done)
  <2>1. ordered \in [1 .. n -> Done]
    BY <1>1, <1>2
  <2> QED
    BY <2>1 DEF Surjection, Done, Elements
<1>5. \A k, l \in 1 .. n : ordered[k] = ordered[l] => k = l
  <2> SUFFICES ASSUME NEW k \in 1 .. n, NEW l \in 1 .. n, k < l
               PROVE  ordered[k] # ordered[l]
    BY <1>2
  <2>1. k \in 1 .. l - 1
    BY <1>2
  <2> QED
    BY <1>1, <2>1 DEF DependenciesFirst
<1>6. ordered \in Injection(1 .. n, Done)
  <2>1. ordered \in [1 .. n -> Done]
    BY <1>1, <1>2
  <2> QED
    BY <1>5, <2>1 DEF Injection, IsInjective
<1> QED
  BY <1>3, <1>4, <1>6, FS_Surjection

LEMMA EndCycle ==
  ASSUME SortInv, CycleInv, ReportCycle \/ Sorted
  PROVE  CycleInv'
<1>1. /\ pc = "sort" /\ queue = <<>> /\ asked = 0 /\ asked' = asked
      /\ UNCHANGED <<enabled, deps, queue, ordered>>
  BY DEF ReportCycle, Sorted, CycleInv
<1>2. Stuck = enabled \ Done /\ {i \in enabled : indegree[i] > 0} = Stuck
  BY <1>1, LeftOver
<1>3. /\ \A j : Deps(j)' = Deps(j)
      /\ Done' = Done /\ enabled' = enabled
      /\ Elements(queue)' = Elements(queue)
  BY <1>1 DEF Deps, Done, Elements
<1>4. Stuck' = Stuck
  BY <1>3 DEF Stuck, Knot
<1>5. Complete' /\ KnotsApart'
  BY <1>3 DEF CycleInv, Complete, KnotsApart, Knot
<1>6. IsFiniteSet(Done) /\ Cardinality(Done) = Len(ordered) /\ Done \subseteq enabled
  BY OrderLength DEF CycleInv
<1>7. IsFiniteSet(enabled)
  <2>1. IsFiniteSet(Child) /\ enabled \subseteq Child
    BY EcosystemAssumption, FS_Interval DEF Child, SortInv, RegistryOK
  <2> QED
    BY <2>1, FS_Subset
<1>8. CASE ReportCycle
  <2>1. /\ pc' = "failed" /\ involved' = {i \in enabled : indegree[i] > 0}
        /\ Len(ordered) # Cardinality(enabled)
    BY <1>8 DEF ReportCycle
  <2>2. Stuck # {}
    BY <1>2, <1>6, <2>1
  <2> QED
    BY <1>1, <1>2, <1>3, <1>4, <1>5, <1>6, <2>1, <2>2 DEF CycleInv, CycleExact
<1>9. CASE Sorted
  <2>1. pc' = "invoke" /\ Len(ordered) = Cardinality(enabled)
    BY <1>9 DEF Sorted
  <2>2. Done = enabled
    BY <1>6, <1>7, <2>1, FS_Subset
  <2> QED
    BY <1>1, <1>2, <1>3, <1>4, <1>5, <1>6, <2>1, <2>2 DEF CycleInv, CycleExact
<1> QED
  BY <1>8, <1>9

\* Nothing changes the sort after it.
LEMMA AfterCycle ==
  ASSUME CycleInv, UNCHANGED <<enabled, deps, queue, ordered, involved>>,
         \/ pc' = pc /\ asked' = asked
         \/ pc' \in {"invoke", "sum", "done"} /\ pc \in {"invoke", "sum"}
  PROVE  CycleInv'
<1>1. /\ \A j : Deps(j)' = Deps(j)
      /\ Done' = Done /\ enabled' = enabled
      /\ Elements(queue)' = Elements(queue)
  BY DEF Deps, Done, Elements
<1>2. Stuck' = Stuck
  BY <1>1 DEF Stuck, Knot
<1>3. Complete' /\ KnotsApart'
  BY <1>1 DEF CycleInv, Complete, KnotsApart, Knot
<1>4. CASE pc' = pc /\ asked' = asked
  BY <1>1, <1>2, <1>3, <1>4 DEF CycleInv, CycleExact
<1>5. CASE pc' \in {"invoke", "sum", "done"} /\ pc \in {"invoke", "sum"}
  BY <1>1, <1>2, <1>3, <1>5 DEF CycleInv, CycleExact
<1> QED
  BY <1>4, <1>5

LEMMA NextCycle ==
  ASSUME SortInv, CycleInv, [EcosystemNext]_ecosystemVars
  PROVE  CycleInv'
<1>1. CASE Order
  BY <1>1, OrderCycle
<1>2. CASE ReportCycle \/ Sorted
  BY <1>2, EndCycle
<1>3. CASE Ask \/ BeginAggregate
  BY <1>3, AfterCycle DEF Ask, BeginAggregate
<1>4. CASE Count \/ Aggregate
  BY <1>4, AfterCycle DEF Count, Aggregate
<1>5. CASE UNCHANGED ecosystemVars
  BY <1>5, AfterCycle DEF ecosystemVars
<1> QED
  BY <1>1, <1>2, <1>3, <1>4, <1>5 DEF EcosystemNext

\* The cycle error names the children on a cycle or behind one, and appears whenever there
\* is such a child, for every registry (topological_sort, neurogrim-core/src/ecosystem.rs).
THEOREM CycleSafety == EcosystemSpec => []CycleExact
<1>1. EcosystemInit => SortInv /\ CycleInv
  BY InitSort, InitCycle
<1>2. SortInv /\ CycleInv /\ [EcosystemNext]_ecosystemVars => SortInv' /\ CycleInv'
  BY NextSort, NextCycle
<1>3. CycleInv => CycleExact
  BY DEF CycleInv
<1> QED
  BY <1>1, <1>2, <1>3, PTL DEF EcosystemSpec

-----------------------------------------------------------------------------
(* The score.  While the loop runs, sum is a mean of the values averaged so   *)
(* far times their weight; a child that failed moves neither.                 *)

Results == Answer \cup {Failed}

Averaged == {i \in enabled : status[i] \in {"ok", "stale"}}

\* What is averaged, in 400ths.
Values ==
  {Effective(result[i]) : i \in {j \in Averaged : ChildWeight[j] > 0}}
    \cup (IF ParentWeight > 0 THEN {400 * ParentScore} ELSE {})

Balanced ==
  /\ sum \in Int /\ weight \in Nat
  /\ weight = 0 => sum = 0 /\ Values = {}
  /\ weight > 0 =>
       /\ \E v \in Values : sum >= v * weight
       /\ \E v \in Values : sum <= v * weight

\* The status of the children that the loop has passed.
Told ==
  /\ status \in [Child -> {"none", "ok", "stale", "error"}]
  /\ \A k \in 1 .. Len(ordered) :
       LET i == ordered[k] IN
       IF k <= counted THEN status[i] # "none" /\ (status[i] = "error" <=> result[i] = Failed)
                       ELSE status[i] = "none"

Asked ==
  /\ result \in [Child -> Results \cup {NotAsked}]
  /\ asked \in 0 .. Len(ordered)
  /\ \A k \in 1 .. asked : result[ordered[k]] \in Results

ScoreInv ==
  /\ Asked
  /\ counted \in 0 .. Len(ordered)
  /\ pc \in {"sort", "invoke"} => counted = 0 /\ status = [i \in Child |-> "none"]
  /\ pc \in {"sum", "done"} => asked = Len(ordered)
  /\ pc = "sum" => Told /\ Balanced
  /\ FailuresUnbiased

-----------------------------------------------------------------------------
\* A weighted mean stays between the values when another one joins.
LEMMA JoinAbove ==
  ASSUME NEW s \in Int, NEW v \in Int, NEW x \in Int, NEW w \in Nat, NEW u \in Nat, s >= v * w
  PROVE  s + x * u >= v * (w + u) \/ s + x * u >= x * (w + u)
<1>1. v * (w + u) = v * w + v * u /\ x * (w + u) = x * w + x * u
  OBVIOUS
<1>2. CASE x >= v
  <2>1. x * u >= v * u
    BY <1>2
  <2> QED
    BY <1>1, <2>1
<1>3. CASE x < v
  <2>1. v * w >= x * w
    BY <1>3
  <2> QED
    BY <1>1, <2>1
<1> QED
  BY <1>2, <1>3

LEMMA JoinBelow ==
  ASSUME NEW s \in Int, NEW v \in Int, NEW x \in Int, NEW w \in Nat, NEW u \in Nat, s <= v * w
  PROVE  s + x * u <= v * (w + u) \/ s + x * u <= x * (w + u)
<1>1. v * (w + u) = v * w + v * u /\ x * (w + u) = x * w + x * u
  OBVIOUS
<1>2. CASE x <= v
  <2>1. x * u <= v * u
    BY <1>2
  <2> QED
    BY <1>1, <2>1
<1>3. CASE x > v
  <2>1. v * w <= x * w
    BY <1>3
  <2> QED
    BY <1>1, <2>1
<1> QED
  BY <1>2, <1>3

\* A mean that is rounded is off by half a point (200 of 400) at most.
LEMMA RoundedMean ==
  ASSUME NEW s \in Int, NEW w \in Nat \ {0}, NEW v \in Int
  PROVE  /\ Rounded(s, 400 * w) \in Int
         /\ s >= v * w => 400 * Rounded(s, 400 * w) >= v - 200
         /\ s <= v * w => 400 * Rounded(s, 400 * w) <= v + 200
<1> DEFINE d == 800 * w
           q == Rounded(s, 400 * w)
<1>1. d \in Int /\ d > 0 /\ 2 * (400 * w) = d /\ 2 * s + 400 * w \in Int
  OBVIOUS
<1>2. q = (2 * s + 400 * w) \div d
  BY <1>1 DEF Rounded
<1> HIDE DEF q
<1>3. q \in Int /\ d * q <= 2 * s + 400 * w /\ 2 * s + 400 * w < d * (q + 1)
  <2> DEFINE y == 2 * s + 400 * w
  <2>1. y \in Int /\ q = y \div d
    BY <1>1, <1>2
  <2> HIDE DEF y, d
  <2>2. q \in Int /\ d * q <= y /\ y < d * (q + 1)
    BY <1>1, <2>1
  <2> QED
    BY <2>2 DEF y
<1>4. d * q = w * (800 * q) /\ d * (q + 1) = w * (800 * q) + w * 800
  BY <1>3
<1>5. ASSUME s >= v * w
      PROVE  400 * q >= v - 200
  <2>1. w * (800 * q) + w * 800 > 2 * (v * w) + 400 * w
    BY <1>3, <1>4, <1>5
  <2>2. w * (800 * q + 400 - 2 * v) > 0
    BY <1>3, <2>1
  <2>3. 800 * q + 400 - 2 * v > 0
    BY <1>3, <2>2
  <2> QED
    BY <1>3, <2>3
<1>6. ASSUME s <= v * w
      PROVE  400 * q <= v + 200
  <2>1. w * (800 * q) <= 2 * (v * w) + 400 * w
    BY <1>3, <1>4, <1>6
  <2>2. w * (800 * q - 400 - 2 * v) <= 0
    BY <1>3, <2>1
  <2>3. 800 * q - 400 - 2 * v <= 0
    BY <1>3, <2>2
  <2> QED
    BY <1>3, <2>3
<1> QED
  BY <1>3, <1>5, <1>6 DEF q

LEMMA EffectiveType ==
  ASSUME NEW a \in Answer
  PROVE  Effective(a) \in Int
<1>1. a.score \in Score /\ a.confidence \in Confidence /\ a.fresh \in 1 .. 4
  BY DEF Answer, Freshness
<1>2. Score \subseteq 0 .. 100 /\ Confidence \subseteq 0 .. 100
  BY EcosystemAssumption
<1>3. a.score \in 0 .. 100 /\ a.confidence \in 0 .. 100
  BY <1>1, <1>2
<1>4. a.score \in Int /\ a.confidence \in Int /\ a.fresh \in Int
  BY <1>1, <1>3
<1>5. \A s, c, f \in Int : s * c * f \in Int
  OBVIOUS
<1> QED
  BY <1>4, <1>5 DEF Effective

LEMMA InitScore == EcosystemInit => ScoreInv
<1> SUFFICES ASSUME EcosystemInit PROVE ScoreInv
  OBVIOUS
<1>1. Len(ordered) = 0 /\ asked = 0 /\ counted = 0 /\ pc = "sort"
  BY DEF EcosystemInit
<1> QED
  BY <1>1 DEF EcosystemInit, ScoreInv, Asked, FailuresUnbiased

LEMMA SortScore ==
  ASSUME SortInv, ScoreInv, Order \/ ReportCycle \/ Sorted
  PROVE  ScoreInv'
<1>1. ordered \in Seq(Child) /\ ordered' \in Seq(Child) /\ Len(ordered) \in Nat
  BY NextSort DEF EcosystemNext, SortInv, SortTypeOK
<1>2. /\ UNCHANGED <<asked, result, counted, sum, weight, status, score>>
      /\ pc = "sort" /\ pc' \in {"sort", "invoke", "failed"}
  BY DEF Order, ReportCycle, Sorted, sumVars
<1>3. Len(ordered') >= Len(ordered) /\ \A k \in 1 .. Len(ordered) : ordered'[k] = ordered[k]
  <2>1. CASE Order
    <3>1. Head(queue) \in Child /\ ordered' = Append(ordered, Head(queue))
      BY <2>1 DEF Order, SortInv, SortTypeOK
    <3> QED
      BY <1>1, <3>1
  <2>2. CASE ReportCycle \/ Sorted
    BY <1>1, <2>2 DEF ReportCycle, Sorted
  <2> QED
    BY <2>1, <2>2
<1>4. Asked'
  BY <1>1, <1>2, <1>3 DEF ScoreInv, Asked
<1> QED
  BY <1>1, <1>2, <1>3, <1>4 DEF ScoreInv, FailuresUnbiased

LEMMA AskScore ==
  ASSUME SortInv, ScoreInv, Ask
  PROVE  ScoreInv'
<1>1. ordered \in Seq(Child) /\ Len(ordered) \in Nat
  BY DEF SortInv, SortTypeOK
<1>2. /\ UNCHANGED <<ordered, pc, counted, sum, weight, status, score>>
      /\ pc = "invoke" /\ asked < Len(ordered) /\ asked' = asked + 1
  BY DEF Ask, sumVars
<1>3. PICK r \in Results : result' = [result EXCEPT ![ordered[asked + 1]] = r]
  BY DEF Ask, Results
<1>4. Asked'
  <2>1. result \in [Child -> Results \cup {NotAsked}] /\ asked \in 0 .. Len(ordered)
        /\ \A k \in 1 .. asked : result[ordered[k]] \in Results
    BY DEF ScoreInv, Asked
  <2>2. \A k \in 1 .. Len(ordered) : ordered[k] \in Child
    BY <1>1
  <2>3. result' \in [Child -> Results \cup {NotAsked}]
    BY <1>3, <2>1
  <2>4. asked' \in 0 .. Len(ordered)
    BY <1>1, <1>2, <2>1
  <2>5. ASSUME NEW k \in 1 .. asked'
        PROVE  result'[ordered[k]] \in Results
    <3>1. k \in 1 .. Len(ordered) /\ (k \in 1 .. asked \/ k = asked + 1)
      BY <1>1, <1>2, <2>1, <2>4
    <3>2. ordered[k] \in Child
      BY <2>2, <3>1
    <3>3. CASE ordered[k] = ordered[asked + 1]
      BY <1>3, <2>1, <3>2, <3>3
    <3>4. CASE ordered[k] # ordered[asked + 1]
      BY <1>3, <2>1, <3>1, <3>2, <3>4
    <3> QED
      BY <3>3, <3>4
  <2> QED
    BY <1>2, <2>3, <2>4, <2>5 DEF Asked
<1> QED
  BY <1>2, <1>4 DEF ScoreInv, FailuresUnbiased

LEMMA BeginScore ==
  ASSUME SortInv, ScoreInv, BeginAggregate
  PROVE  ScoreInv'
<1>1. ordered \in Seq(Child) /\ Len(ordered) \in Nat
  BY DEF SortInv, SortTypeOK
<1>2. /\ UNCHANGED <<enabled, ordered, asked, result, counted, status, score>>
      /\ pc = "invoke" /\ pc' = "sum" /\ asked = Len(ordered)
      /\ sum' = 400 * ParentScore * ParentWeight /\ weight' = ParentWeight
  BY DEF BeginAggregate
<1>3. counted = 0 /\ status = [i \in Child |-> "none"]
  BY <1>2 DEF ScoreInv
<1>4. Told'
  BY <1>1, <1>2, <1>3 DEF Told
<1>5. Balanced'
  <2>1. ParentScore \in Nat /\ ParentWeight \in Nat
    BY EcosystemAssumption
  <2>2. enabled \subseteq Child
    BY DEF SortInv, RegistryOK
  <2>3. Averaged' = {}
    BY <1>2, <1>3, <2>2 DEF Averaged
  <2>4. Values' = IF ParentWeight > 0 THEN {400 * ParentScore} ELSE {}
    BY <2>3 DEF Values
  <2>5. sum' \in Int /\ weight' \in Nat /\ (weight' = 0 => sum' = 0)
    BY <1>2, <2>1
  <2>6. sum' = (400 * ParentScore) * weight'
    BY <1>2, <2>1
  <2> QED
    BY <1>2, <2>1, <2>4, <2>5, <2>6 DEF Balanced
<1> QED
  BY <1>1, <1>2, <1>3, <1>4, <1>5 DEF ScoreInv, FailuresUnbiased, Asked

\* Where the loop stands.
LEMMA CountFacts ==
  ASSUME SortInv, CycleInv, ScoreInv, Count, NEW i, i = ordered[counted + 1]
  PROVE  /\ i \in enabled /\ i \in Child /\ result[i] \in Results
         /\ status[i] = "none" /\ counted + 1 \in 1 .. Len(ordered)
         /\ \A k \in 1 .. Len(ordered) : ordered[k] \in Child /\ (ordered[k] = i => k = counted + 1)
<1>1. ordered \in Seq(Child) /\ DependenciesFirst /\ Len(ordered) \in Nat
  BY DEF SortInv, SortTypeOK
<1>2. pc = "sum" /\ counted \in 0 .. Len(ordered) /\ counted < Len(ordered) /\ asked = Len(ordered) /\ Told /\ Asked
  BY DEF Count, ScoreInv
<1>3. counted + 1 \in 1 .. Len(ordered) /\ ~(counted + 1 <= counted)
  BY <1>1, <1>2
<1>4. result[i] \in Results /\ status[i] = "none" /\ i \in Child
  <2>1. \A k \in 1 .. asked : result[ordered[k]] \in Results
    BY <1>2 DEF Asked
  <2>2. status[ordered[counted + 1]] = "none"
    BY <1>2, <1>3 DEF Told
  <2> QED
    BY <1>1, <1>2, <1>3, <2>1, <2>2
<1>5. i \in enabled
  BY <1>2, <1>3 DEF CycleInv, Done, Elements
<1>6. ASSUME NEW k \in 1 .. Len(ordered), ordered[k] = i
      PROVE  k = counted + 1
  <2>1. CASE k < counted + 1
    <3>1. k \in 1 .. (counted + 1) - 1
      BY <1>1, <1>2, <2>1
    <3> QED
      BY <1>1, <1>3, <1>6, <3>1 DEF DependenciesFirst
  <2>2. CASE counted + 1 < k
    <3>1. counted + 1 \in 1 .. k - 1
      BY <1>1, <1>2, <2>2
    <3> QED
      BY <1>1, <1>3, <1>6, <3>1 DEF DependenciesFirst
  <2> QED
    BY <1>1, <1>2, <2>1, <2>2
<1> QED
  BY <1>1, <1>3, <1>4, <1>5, <1>6

\* The loop passes a child, which then has one of the statuses.
LEMMA TellStatus ==
  ASSUME SortInv, CycleInv, ScoreInv, Count, NEW i, i = ordered[counted + 1],
         NEW st \in {"ok", "stale", "error"}, st = "error" <=> result[i] = Failed,
         status' = [status EXCEPT ![i] = st]
  PROVE  Told'
<1>1. /\ i \in Child /\ counted + 1 \in 1 .. Len(ordered)
      /\ \A k \in 1 .. Len(ordered) : ordered[k] \in Child /\ (ordered[k] = i => k = counted + 1)
  BY CountFacts
<1>2. Told /\ counted \in Nat /\ Len(ordered) \in Nat
  BY DEF ScoreInv, Count, SortInv, SortTypeOK
<1>3. counted' = counted + 1 /\ ordered' = ordered /\ result' = result
  BY DEF Count
<1>4. status' \in [Child -> {"none", "ok", "stale", "error"}]
  BY <1>1, <1>2 DEF Told
<1>5. ASSUME NEW k \in 1 .. Len(ordered)
      PROVE  IF k <= counted + 1
             THEN status'[ordered[k]] # "none" /\ (status'[ordered[k]] = "error" <=> result[ordered[k]] = Failed)
             ELSE status'[ordered[k]] = "none"
  <2>0. status \in [Child -> {"none", "ok", "stale", "error"}]
    BY <1>2 DEF Told
  <2>1. CASE k = counted + 1
    BY <1>1, <1>2, <2>0, <2>1
  <2>2. CASE k # counted + 1
    <3>1. ordered[k] \in Child /\ ordered[k] # i
      BY <1>1, <2>2
    <3>2. status'[ordered[k]] = status[ordered[k]]
      BY <2>0, <3>1
    <3>3. (k <= counted + 1) <=> (k <= counted)
      BY <1>2, <2>2
    <3> QED
      BY <1>2, <3>2, <3>3 DEF Told
  <2> QED
    BY <2>1, <2>2
<1> QED
  BY <1>3, <1>4, <1>5 DEF Told

LEMMA CountScore ==
  ASSUME SortInv, CycleInv, ScoreInv, Count
  PROVE  ScoreInv'
<1> DEFINE i == ordered[counted + 1]
<1>1. /\ i \in enabled /\ i \in Child /\ result[i] \in Results /\ status[i] = "none"
      /\ counted + 1 \in 1 .. Len(ordered)
  BY CountFacts
<1>2. /\ pc = "sum" /\ pc' = pc /\ counted' = counted + 1
      /\ UNCHANGED <<enabled, ordered, asked, result, score>>
      /\ counted \in Nat /\ Told /\ Balanced
  BY DEF Count, ScoreInv
<1>3. status \in [Child -> {"none", "ok", "stale", "error"}] /\ enabled \subseteq Child
  BY <1>2 DEF Told, SortInv, RegistryOK
<1>4. ASSUME Told', Balanced'
      PROVE  ScoreInv'
  BY <1>1, <1>2, <1>4 DEF ScoreInv, Asked, FailuresUnbiased
<1>5. CASE result[i] = Failed
  <2>1. status' = [status EXCEPT ![i] = "error"] /\ sum' = sum /\ weight' = weight
    BY <1>5 DEF Count
  <2>2. Told'
    BY <1>5, <2>1, TellStatus
  <2>3. Averaged' = Averaged
    BY <1>1, <1>2, <1>3, <2>1 DEF Averaged
  <2>4. Values' = Values
    BY <1>2, <2>3 DEF Values
  <2> QED
    BY <1>2, <1>4, <2>1, <2>2, <2>4 DEF Balanced
<1>6. CASE result[i] # Failed
  <2> DEFINE st == IF result[i].fresh < 2 THEN "stale" ELSE "ok"
             x == Effective(result[i])
             u == ChildWeight[i]
  <2>0. result[i] \in Answer /\ x \in Int /\ u \in Nat
    BY <1>1, <1>6, EffectiveType, EcosystemAssumption DEF Results, Child
  <2>1. status' = [status EXCEPT ![i] = st] /\ sum' = sum + x * u /\ weight' = weight + u
    BY <1>6 DEF Count
  <2>2. Told'
    <3>1. st \in {"ok", "stale", "error"} /\ st # "error"
      OBVIOUS
    <3> HIDE DEF st
    <3> QED
      BY <1>6, <2>1, <3>1, TellStatus
  <2>3. Averaged' = Averaged \cup {i}
    <3>1. st \in {"ok", "stale"}
      OBVIOUS
    <3> HIDE DEF st
    <3> QED
      BY <1>1, <1>2, <1>3, <2>1, <3>1 DEF Averaged
  <2>4. Values' = Values \cup (IF u > 0 THEN {x} ELSE {})
    BY <1>2, <2>3 DEF Values
  <2> HIDE DEF x, u, st, i
  <2>5. /\ sum \in Int /\ weight \in Nat
        /\ weight = 0 => sum = 0 /\ Values = {}
        /\ weight > 0 => /\ \E v \in Values : sum >= v * weight
                         /\ \E v \in Values : sum <= v * weight
    BY <1>2 DEF Balanced
  <2>v. \A v \in Values : v \in Int
    <3>1. ASSUME NEW j \in Averaged
          PROVE  Effective(result[j]) \in Int
      <4>1. j \in Done
        BY <1>2, <3>1 DEF CycleInv, Averaged
      <4>2. PICK k \in 1 .. Len(ordered) : ordered[k] = j
        BY <4>1 DEF Done, Elements
      <4>3. asked = Len(ordered) /\ result[j] \in Results
        BY <1>2, <4>2 DEF ScoreInv, Asked
      <4>4. status[j] # "none" /\ status[j] # "error"
        BY <3>1 DEF Averaged
      <4>5. result[j] # Failed
        BY <1>2, <4>2, <4>4 DEF Told
      <4> QED
        BY <4>3, <4>5, EffectiveType DEF Results
    <3>2. 400 * ParentScore \in Int
      BY EcosystemAssumption
    <3> QED
      BY <3>1, <3>2 DEF Values
  <2>6. sum' \in Int /\ weight' \in Nat
    BY <2>0, <2>1, <2>5
  <2>7. CASE u = 0
    <3>1. Values' = Values /\ sum' = sum /\ weight' = weight
      BY <2>0, <2>1, <2>4, <2>5, <2>7
    <3>2. Balanced'
      BY <2>5, <3>1 DEF Balanced
    <3> QED
      BY <1>4, <2>2, <3>2
  <2>8. CASE u > 0
    <3>1. Values' = Values \cup {x} /\ weight' > 0
      BY <2>0, <2>1, <2>4, <2>5, <2>8
    <3>z. weight = 0 => x * weight' \in Int /\ sum' = x * weight'
      BY <2>0, <2>1, <2>5
    <3>2. \E v \in Values' : sum' >= v * weight'
      <4>1. CASE weight = 0
        BY <3>1, <3>z, <4>1
      <4>2. CASE weight > 0
        <5>1. PICK v \in Values : sum >= v * weight
          BY <2>5, <4>2
        <5>2. v \in Int
          BY <2>v
        <5>3. sum + x * u >= v * (weight + u) \/ sum + x * u >= x * (weight + u)
          BY <2>0, <2>5, <5>1, <5>2, JoinAbove
        <5> QED
          BY <2>1, <3>1, <5>3
      <4> QED
        BY <2>5, <4>1, <4>2
    <3>3. \E v \in Values' : sum' <= v * weight'
      <4>1. CASE weight = 0
        BY <3>1, <3>z, <4>1
      <4>2. CASE weight > 0
        <5>1. PICK v \in Values : sum <= v * weight
          BY <2>5, <4>2
        <5>2. v \in Int
          BY <2>v
        <5>3. sum + x * u <= v * (weight + u) \/ sum + x * u <= x * (weight + u)
          BY <2>0, <2>5, <5>1, <5>2, JoinBelow
        <5> QED
          BY <2>1, <3>1, <5>3
      <4> QED
        BY <2>5, <4>1, <4>2
    <3>4. Balanced'
      BY <2>6, <3>1, <3>2, <3>3 DEF Balanced
    <3> QED
      BY <1>4, <2>2, <3>4
  <2> QED
    BY <2>0, <2>7, <2>8
<1> QED
  BY <1>5, <1>6

LEMMA AggregateScore ==
  ASSUME SortInv, CycleInv, ScoreInv, Aggregate
  PROVE  ScoreInv'
<1>1. /\ pc = "sum" /\ pc' = "done" /\ counted = Len(ordered)
      /\ UNCHANGED <<enabled, ordered, asked, result, counted, sum, weight>>
      /\ status' = [i \in Child |-> IF i \in enabled THEN status[i] ELSE "disabled"]
      /\ score' = IF weight > 0 THEN Rounded(sum, 400 * weight) ELSE 0
  BY DEF Aggregate
<1>2. Told /\ Balanced /\ Done = enabled /\ enabled \subseteq Child /\ asked = Len(ordered)
  BY <1>1 DEF ScoreInv, CycleInv, SortInv, RegistryOK
<1>3. \A i \in enabled : status'[i] = status[i]
  BY <1>1, <1>2
<1>4. ASSUME NEW i \in enabled
      PROVE  status[i] \in {"ok", "stale", "error"} /\ (status[i] = "error" <=> result[i] = Failed)
  <2>1. PICK k \in 1 .. Len(ordered) : ordered[k] = i
    BY <1>2 DEF Done, Elements
  <2>2. k <= counted /\ status[i] \in {"none", "ok", "stale", "error"}
    BY <1>1, <1>2, <2>1 DEF Told, SortInv, SortTypeOK
  <2>3. status[i] # "none" /\ (status[i] = "error" <=> result[i] = Failed)
    BY <1>2, <2>1, <2>2 DEF Told
  <2> QED
    BY <2>2, <2>3
<1>5. \A i \in Child : (status'[i] = "disabled") = (i \notin enabled)
  BY <1>1, <1>3, <1>4
<1>6. \A i \in enabled : (status'[i] = "error") = (result'[i] = Failed)
  BY <1>1, <1>3, <1>4
<1> DEFINE answered == {i \in enabled : status'[i] \in {"ok", "stale"} /\ ChildWeight[i] > 0}
           values == {Effective(result'[i]) : i \in answered}
                       \cup (IF ParentWeight > 0 THEN {400 * ParentScore} ELSE {})
<1>7. values = Values
  <2>1. answered = {j \in Averaged : ChildWeight[j] > 0}
    BY <1>3 DEF Averaged
  <2> QED
    BY <1>1, <2>1 DEF Values
<1>8. \A v \in Values : v \in Int
  <2>1. ASSUME NEW j \in Averaged
        PROVE  Effective(result[j]) \in Int
    <3>1. PICK k \in 1 .. Len(ordered) : ordered[k] = j
      BY <1>2 DEF Averaged, Done, Elements
    <3>2. result[j] \in Results /\ result[j] # Failed
      BY <1>2, <1>4, <2>1, <3>1 DEF ScoreInv, Asked, Averaged
    <3> QED
      BY <3>2, EffectiveType DEF Results
  <2>2. 400 * ParentScore \in Int
    BY EcosystemAssumption
  <2> QED
    BY <2>1, <2>2 DEF Values
<1>9. ASSUME Values # {}
      PROVE  /\ \E v \in Values : 400 * score' >= v - 200
             /\ \E v \in Values : 400 * score' <= v + 200
  <2>1. weight \in Nat \ {0} /\ sum \in Int
    BY <1>2, <1>9 DEF Balanced
  <2>2. score' = Rounded(sum, 400 * weight)
    BY <1>1, <2>1
  <2>3. PICK v \in Values : sum >= v * weight
    BY <1>2, <2>1 DEF Balanced
  <2>4. PICK z \in Values : sum <= z * weight
    BY <1>2, <2>1 DEF Balanced
  <2>5. v \in Int /\ z \in Int
    BY <1>8
  <2>6. 400 * score' >= v - 200 /\ 400 * score' <= z + 200
    BY <2>1, <2>2, <2>3, <2>4, <2>5, RoundedMean
  <2> QED
    BY <2>6
<1>10. FailuresUnbiased'
  <2> HIDE DEF values
  <2>1. /\ values # {} =>
             /\ \E v \in values : 400 * score' >= v - 200
             /\ \E v \in values : 400 * score' <= v + 200
    BY <1>7, <1>9
  <2> QED
    BY <1>1, <1>5, <1>6, <2>1 DEF FailuresUnbiased, values
<1> QED
  BY <1>1, <1>2, <1>10 DEF ScoreInv, Asked

LEMMA NextScore ==
  ASSUME SortInv, CycleInv, ScoreInv, [EcosystemNext]_ecosystemVars
  PROVE  ScoreInv'
<1>1. CASE Order \/ ReportCycle \/ Sorted
  BY <1>1, SortScore
<1>2. CASE Ask
  BY <1>2, AskScore
<1>3. CASE BeginAggregate
  BY <1>3, BeginScore
<1>4. CASE Count
  BY <1>4, CountScore
<1>5. CASE Aggregate
  BY <1>5, AggregateScore
<1>6. CASE UNCHANGED ecosystemVars
  <2>1. /\ UNCHANGED <<enabled, pc, ordered, asked, result, counted, sum, weight, status, score>>
    BY <1>6 DEF ecosystemVars
  <2>2. Averaged' = Averaged /\ Values' = Values
    BY <2>1 DEF Averaged, Values
  <2>3. (Asked => Asked') /\ (Told => Told')
    BY <2>1 DEF Asked, Told
  <2>4. Balanced => Balanced'
    BY <2>1, <2>2 DEF Balanced
  <2>5. FailuresUnbiased => FailuresUnbiased'
    BY <2>1 DEF FailuresUnbiased
  <2> QED
    BY <2>1, <2>3, <2>4, <2>5 DEF ScoreInv
<1> QED
  BY <1>1, <1>2, <1>3, <1>4, <1>5, <1>6 DEF EcosystemNext

\* A child that failed is reported and moves the score neither way: with the weights of
\* those that answered, the score lies between the parent's and theirs, up to rounding,
\* for any registry, answers and weights (aggregate, neurogrim-core/src/ecosystem.rs).
THEOREM ScoreSafety == EcosystemSpec => []FailuresUnbiased
<1>1. EcosystemInit => SortInv /\ CycleInv /\ ScoreInv
  BY InitSort, InitCycle, InitScore
<1>2. SortInv /\ CycleInv /\ ScoreInv /\ [EcosystemNext]_ecosystemVars
        => SortInv' /\ CycleInv' /\ ScoreInv'
  BY NextSort, NextCycle, NextScore
<1>3. ScoreInv => FailuresUnbiased
  BY DEF ScoreInv
<1> QED
  BY <1>1, <1>2, <1>3, PTL DEF EcosystemSpec

-----------------------------------------------------------------------------
(* The emitter's limiter. *)

Phase == {"idle", "permit", "sleep", "send", "release"}

Emitter == [pc : Phase, peer : Peer, wake : Int]

PaceTypeOK ==
  /\ clock \in Nat
  /\ task \in [Task -> Emitter]
  /\ permits \in [Peer -> Nat]
  /\ last \in [Peer -> Nat \cup {Never}]
  /\ grants \in [Peer -> Seq(Nat)]

\* The tasks of tk that hold a permit of p.
Holders(tk, p) == {t \in Task : tk[t].peer = p /\ tk[t].pc \in {"sleep", "send", "release"}}

\* Those that sleep, and wake within the stretch that begins at a.
Early(tk, p, a) ==
  {t \in Task : tk[t].peer = p /\ tk[t].pc = "sleep" /\ tk[t].wake < a + MinInterval}

\* The grants of the stretch that begins with the i-th.
Stretch(g, i) == {j \in DOMAIN g : g[j] - g[i] \in 0 .. MinInterval - 1}

PermitsRight == \A p \in Peer : permits[p] + Cardinality(Holders(task, p)) = MaxInflight

LastRight ==
  \A p \in Peer : last[p] <= clock /\ \A i \in DOMAIN grants[p] : grants[p][i] <= last[p]

Crowd(tk, g, p) ==
  \A i \in DOMAIN g : Cardinality(Stretch(g, i)) + Cardinality(Early(tk, p, g[i])) <= MaxInflight

PaceInv ==
  /\ PaceTypeOK
  /\ PermitsRight
  /\ LastRight
  /\ \A p \in Peer : Crowd(task, grants[p], p)

-----------------------------------------------------------------------------
\* The sets that are counted are finite.
LEMMA Finite ==
  ASSUME NEW tk, NEW p, NEW a, NEW g \in Seq(Nat), NEW i
  PROVE  /\ IsFiniteSet(Holders(tk, p)) /\ Cardinality(Holders(tk, p)) \in Nat
         /\ IsFiniteSet(Early(tk, p, a)) /\ Cardinality(Early(tk, p, a)) \in Nat
         /\ IsFiniteSet(Stretch(g, i)) /\ Cardinality(Stretch(g, i)) \in Nat
<1>1. IsFiniteSet(Holders(tk, p)) /\ IsFiniteSet(Early(tk, p, a))
  <2>1. Holders(tk, p) \subseteq Task /\ Early(tk, p, a) \subseteq Task
    BY DEF Holders, Early
  <2>2. QED
    BY <2>1, FederatedAssumption, FS_Subset
<1>2. IsFiniteSet(Stretch(g, i))
  <2>1. IsFiniteSet(1 .. Len(g))
    BY FS_Interval
  <2>2. Stretch(g, i) \subseteq 1 .. Len(g)
    BY DEF Stretch
  <2>3. QED
    BY <2>1, <2>2, FS_Subset
<1>3. QED
  BY <1>1, <1>2, FS_CardinalityType

\* A task that goes to p without a permit of it, or back, changes no count but p's.
LEMMA HoldersChange ==
  ASSUME NEW tk \in [Task -> Emitter], NEW t \in Task, NEW e \in Emitter, NEW p \in Peer
  PROVE  LET after == [tk EXCEPT ![t] = e]
             held(f) == f.peer = p /\ f.pc \in {"sleep", "send", "release"}
         IN
         /\ held(tk[t]) = held(e) => Holders(after, p) = Holders(tk, p)
         /\ ~held(tk[t]) /\ held(e) => Cardinality(Holders(after, p)) = Cardinality(Holders(tk, p)) + 1
         /\ held(tk[t]) /\ ~held(e) => Cardinality(Holders(after, p)) = Cardinality(Holders(tk, p)) - 1
<1> DEFINE after == [tk EXCEPT ![t] = e]
           held(f) == f.peer = p /\ f.pc \in {"sleep", "send", "release"}
<1>0. \A u \in Task : after[u] = IF u = t THEN e ELSE tk[u]
  OBVIOUS
<1> HIDE DEF after
<1>1. IsFiniteSet(Holders(tk, p))
  BY Finite, <<>> \in Seq(Nat)
<1>2. held(tk[t]) = held(e) => Holders(after, p) = Holders(tk, p)
  BY <1>0 DEF Holders
<1>3. ~held(tk[t]) /\ held(e) => Cardinality(Holders(after, p)) = Cardinality(Holders(tk, p)) + 1
  <2> SUFFICES ASSUME ~held(tk[t]), held(e)
               PROVE  Cardinality(Holders(after, p)) = Cardinality(Holders(tk, p)) + 1
    OBVIOUS
  <2>1. Holders(after, p) = Holders(tk, p) \cup {t} /\ t \notin Holders(tk, p)
    BY <1>0 DEF Holders
  <2>2. QED
    BY <1>1, <2>1, FS_AddElement
<1>4. held(tk[t]) /\ ~held(e) => Cardinality(Holders(after, p)) = Cardinality(Holders(tk, p)) - 1
  <2> SUFFICES ASSUME held(tk[t]), ~held(e)
               PROVE  Cardinality(Holders(after, p)) = Cardinality(Holders(tk, p)) - 1
    OBVIOUS
  <2>1. Holders(after, p) = Holders(tk, p) \ {t} /\ t \in Holders(tk, p)
    BY <1>0 DEF Holders
  <2>2. QED
    BY <1>1, <2>1, FS_RemoveElement
<1>5. QED
  BY <1>2, <1>3, <1>4 DEF after

\* Tasks that wake later, or do not sleep any more, leave the crowd no larger.
LEMMA CrowdStays ==
  ASSUME NEW tk, NEW after, NEW g \in Seq(Nat), NEW p \in Peer, Crowd(tk, g, p),
         \A i \in DOMAIN g : Early(after, p, g[i]) \subseteq Early(tk, p, g[i])
  PROVE  Crowd(after, g, p)
<1> SUFFICES ASSUME NEW i \in DOMAIN g
             PROVE  Cardinality(Stretch(g, i)) + Cardinality(Early(after, p, g[i])) <= MaxInflight
  BY DEF Crowd
<1>1. Cardinality(Early(after, p, g[i])) <= Cardinality(Early(tk, p, g[i]))
  BY Finite, FS_Subset
<1>2. /\ Cardinality(Stretch(g, i)) \in Nat
      /\ Cardinality(Early(after, p, g[i])) \in Nat
      /\ Cardinality(Early(tk, p, g[i])) \in Nat
  BY Finite
<1>3. Cardinality(Stretch(g, i)) + Cardinality(Early(tk, p, g[i])) <= MaxInflight
  BY DEF Crowd
<1>4. QED
  BY <1>1, <1>2, <1>3, FederatedAssumption

\* What a grant at time c adds to the stretches that began before it.
LEMMA StretchAppend ==
  ASSUME NEW g \in Seq(Nat), NEW c \in Nat, \A i \in DOMAIN g : g[i] <= c
  PROVE  LET h == Append(g, c)
             n == Len(g) + 1
         IN
         /\ h \in Seq(Nat) /\ DOMAIN h = DOMAIN g \cup {n} /\ h[n] = c
         /\ \A i \in DOMAIN g :
              /\ h[i] = g[i]
              /\ c < g[i] + MinInterval => /\ Stretch(h, i) = Stretch(g, i) \cup {n}
                                           /\ n \notin Stretch(g, i)
              /\ c >= g[i] + MinInterval => Stretch(h, i) = Stretch(g, i)
              /\ g[i] = c => Stretch(h, n) = Stretch(h, i)
         /\ (\A i \in DOMAIN g : g[i] < c) => Stretch(h, n) = {n}
<1> DEFINE h == Append(g, c)
           n == Len(g) + 1
<1>1. /\ h \in Seq(Nat) /\ DOMAIN h = DOMAIN g \cup {n} /\ h[n] = c /\ DOMAIN g = 1 .. Len(g)
      /\ n \notin DOMAIN g /\ \A i \in DOMAIN g : h[i] = g[i] /\ g[i] \in Nat
  OBVIOUS
<1> HIDE DEF h, n
<1>2. MinInterval \in Nat \ {0}
  BY FederatedAssumption
<1>3. ASSUME NEW i \in DOMAIN g
      PROVE  /\ h[i] = g[i]
             /\ c < g[i] + MinInterval => /\ Stretch(h, i) = Stretch(g, i) \cup {n}
                                          /\ n \notin Stretch(g, i)
             /\ c >= g[i] + MinInterval => Stretch(h, i) = Stretch(g, i)
             /\ g[i] = c => Stretch(h, n) = Stretch(h, i)
  <2>1. h[i] = g[i] /\ g[i] \in Nat /\ g[i] <= c
    BY <1>1
  <2>2. c < g[i] + MinInterval => Stretch(h, i) = Stretch(g, i) \cup {n} /\ n \notin Stretch(g, i)
    <3> SUFFICES ASSUME c < g[i] + MinInterval
                 PROVE  Stretch(h, i) = Stretch(g, i) \cup {n} /\ n \notin Stretch(g, i)
      OBVIOUS
    <3>1. h[n] - h[i] \in 0 .. MinInterval - 1
      BY <1>1, <1>2, <2>1
    <3>2. QED
      BY <1>1, <2>1, <3>1 DEF Stretch
  <2>3. c >= g[i] + MinInterval => Stretch(h, i) = Stretch(g, i)
    <3> SUFFICES ASSUME c >= g[i] + MinInterval PROVE Stretch(h, i) = Stretch(g, i)
      OBVIOUS
    <3>1. h[n] - h[i] \notin 0 .. MinInterval - 1
      BY <1>1, <1>2, <2>1
    <3>2. QED
      BY <1>1, <2>1, <3>1 DEF Stretch
  <2>4. g[i] = c => Stretch(h, n) = Stretch(h, i)
    BY <1>1, <2>1 DEF Stretch
  <2>5. QED
    BY <2>1, <2>2, <2>3, <2>4
<1>4. (\A i \in DOMAIN g : g[i] < c) => Stretch(h, n) = {n}
  <2> SUFFICES ASSUME \A i \in DOMAIN g : g[i] < c PROVE Stretch(h, n) = {n}
    OBVIOUS
  <2>1. \A j \in DOMAIN g : h[j] - h[n] < 0
    BY <1>1
  <2>2. h[n] - h[n] \in 0 .. MinInterval - 1
    BY <1>1, <1>2
  <2>3. \A j \in DOMAIN g : h[j] - h[n] \notin 0 .. MinInterval - 1
    BY <1>1, <1>2, <2>1
  <2>4. QED
    BY <1>1, <2>2, <2>3 DEF Stretch
<1>5. QED
  BY <1>1, <1>3, <1>4 DEF h, n

\* A grant at time c to a task t, asleep or not, that holds a permit: it leaves the
\* sleepers of each stretch it falls into, or falls into none.
LEMMA CrowdGrant ==
  ASSUME NEW tk \in [Task -> Emitter], NEW t \in Task, NEW p \in Peer,
         NEW g \in Seq(Nat), NEW c \in Nat, \A i \in DOMAIN g : g[i] <= c,
         Crowd(tk, g, p), tk[t].peer = p,
         NEW after \in [Task -> Emitter],
         \A u \in Task \ {t} : after[u] = tk[u],
         after[t].peer = p, after[t].pc = "send",
         Cardinality(Holders(after, p)) <= MaxInflight,
         \/ tk[t].pc = "sleep" /\ tk[t].wake <= c
         \/ \A i \in DOMAIN g : c >= g[i] + MinInterval
  PROVE  Crowd(after, Append(g, c), p)
<1> DEFINE h == Append(g, c)
           n == Len(g) + 1
<1>1. /\ h \in Seq(Nat) /\ DOMAIN h = DOMAIN g \cup {n} /\ h[n] = c
      /\ \A i \in DOMAIN g :
           /\ h[i] = g[i]
           /\ c < g[i] + MinInterval => /\ Stretch(h, i) = Stretch(g, i) \cup {n}
                                        /\ n \notin Stretch(g, i)
           /\ c >= g[i] + MinInterval => Stretch(h, i) = Stretch(g, i)
           /\ g[i] = c => Stretch(h, n) = Stretch(h, i)
      /\ (\A i \in DOMAIN g : g[i] < c) => Stretch(h, n) = {n}
  BY StretchAppend
<1>2. \A i \in DOMAIN g : g[i] \in Nat
  OBVIOUS
<1> HIDE DEF h, n
<1>3. MaxInflight \in Nat /\ MinInterval \in Nat \ {0}
  BY FederatedAssumption
<1>4. ASSUME NEW i \in DOMAIN g
      PROVE  Cardinality(Stretch(h, i)) + Cardinality(Early(after, p, h[i])) <= MaxInflight
  <2> DEFINE before == Early(tk, p, g[i])
             now == Early(after, p, g[i])
  <2>1. /\ IsFiniteSet(before) /\ Cardinality(before) \in Nat /\ Cardinality(now) \in Nat
        /\ IsFiniteSet(Stretch(g, i)) /\ Cardinality(Stretch(g, i)) \in Nat
    BY Finite
  <2>2. Cardinality(Stretch(g, i)) + Cardinality(before) <= MaxInflight
    BY DEF Crowd
  <2>3. now = before \ {t}
    BY DEF Early
  <2>4. c < g[i] + MinInterval => t \in before
    BY <1>2, <1>3 DEF Early, Emitter
  <2> HIDE DEF before, now
  <2>5. CASE c < g[i] + MinInterval
    <3>1. t \in before
      BY <2>5, <2>4
    <3>2. Cardinality(now) = Cardinality(before) - 1
      BY <2>1, <2>3, <3>1, FS_RemoveElement
    <3>3. Cardinality(Stretch(h, i)) = Cardinality(Stretch(g, i)) + 1
      <4>1. Stretch(h, i) = Stretch(g, i) \cup {n} /\ n \notin Stretch(g, i)
        BY <1>1, <2>5
      <4>2. QED
        BY <2>1, <4>1, FS_AddElement
    <3>4. now = Early(after, p, h[i])
      BY <1>1 DEF now
    <3>5. QED
      BY <1>3, <2>1, <2>2, <3>2, <3>3, <3>4
  <2>6. CASE ~(c < g[i] + MinInterval)
    <3>1. Stretch(h, i) = Stretch(g, i) /\ now = Early(after, p, h[i])
      BY <1>1, <1>2, <1>3, <2>6 DEF now
    <3>2. Cardinality(now) <= Cardinality(before)
      BY <2>1, <2>3, FS_Subset
    <3>3. QED
      BY <1>3, <2>1, <2>2, <3>1, <3>2
  <2>7. QED
    BY <2>5, <2>6
<1>5. Cardinality(Stretch(h, n)) + Cardinality(Early(after, p, h[n])) <= MaxInflight
  <2>1. CASE \E i \in DOMAIN g : g[i] = c
    <3>1. PICK i \in DOMAIN g : g[i] = c
      BY <2>1
    <3>2. Stretch(h, n) = Stretch(h, i) /\ h[n] = h[i]
      BY <1>1, <3>1
    <3>3. QED
      BY <1>4, <3>2
  <2>2. CASE ~ \E i \in DOMAIN g : g[i] = c
    <3>1. \A i \in DOMAIN g : g[i] < c
      BY <1>2, <2>2
    <3>2. Cardinality(Stretch(h, n)) = 1
      BY <1>1, <3>1, FS_Singleton
    <3>3. Early(after, p, h[n]) \subseteq Holders(after, p) \ {t}
      BY DEF Early, Holders
    <3>4. t \in Holders(after, p) /\ IsFiniteSet(Holders(after, p)) /\ Cardinality(Holders(after, p)) \in Nat
      BY Finite DEF Holders
    <3>5. IsFiniteSet(Holders(after, p) \ {t})
          /\ Cardinality(Holders(after, p) \ {t}) = Cardinality(Holders(after, p)) - 1
      BY <3>4, FS_RemoveElement
    <3>6. Cardinality(Early(after, p, h[n])) <= Cardinality(Holders(after, p)) - 1
      BY <3>3, <3>5, FS_Subset
    <3>7. Cardinality(Early(after, p, h[n])) \in Nat
      BY Finite
    <3>8. QED
      BY <1>3, <3>2, <3>4, <3>6, <3>7
  <2>3. QED
    BY <2>1, <2>2
<1>6. Crowd(after, h, p)
  BY <1>1, <1>4, <1>5 DEF Crowd
<1>7. QED
  BY <1>6 DEF h

-----------------------------------------------------------------------------
LEMMA InitPace == Init => PaceInv
<1> SUFFICES ASSUME Init PROVE PaceInv
  OBVIOUS
<1>1. PaceTypeOK
  BY FederatedAssumption DEF Init, PaceTypeOK, Emitter, Phase, Idle
<1>2. PermitsRight
  <2>1. \A p \in Peer : Holders(task, p) = {}
    BY DEF Init, Idle, Holders
  <2>2. \A p \in Peer : permits[p] = MaxInflight /\ Cardinality(Holders(task, p)) = 0
    BY <2>1, FS_EmptySet DEF Init
  <2>3. QED
    BY <2>2, FederatedAssumption DEF PermitsRight
<1>3. LastRight
  BY DEF Init, LastRight, Never
<1>4. \A p \in Peer : Crowd(task, grants[p], p)
  BY DEF Init, Crowd
<1>5. QED
  BY <1>1, <1>2, <1>3, <1>4 DEF PaceInv

\* Steps without a grant: the permits still add up, and no early sleeper is new.
LEMMA QuietPace ==
  ASSUME PaceInv, PaceTypeOK', clock' = clock, last' = last, grants' = grants,
         \A p \in Peer : permits'[p] - permits[p] = Cardinality(Holders(task, p)) - Cardinality(Holders(task', p)),
         \A p \in Peer : \A i \in DOMAIN grants[p] :
           Early(task', p, grants[p][i]) \subseteq Early(task, p, grants[p][i])
  PROVE  PaceInv'
<1> USE DEF PaceInv
<1>1. PermitsRight'
  <2> SUFFICES ASSUME NEW p \in Peer
               PROVE  permits'[p] + Cardinality(Holders(task', p)) = MaxInflight
    BY DEF PermitsRight
  <2>1. permits[p] + Cardinality(Holders(task, p)) = MaxInflight
    BY DEF PermitsRight
  <2>2. permits[p] \in Nat /\ permits'[p] \in Nat
    BY DEF PaceTypeOK
  <2>3. Cardinality(Holders(task, p)) \in Nat /\ Cardinality(Holders(task', p)) \in Nat
    BY Finite, <<>> \in Seq(Nat)
  <2>4. QED
    BY <2>1, <2>2, <2>3, FederatedAssumption
<1>2. LastRight'
  BY DEF LastRight
<1>3. (\A p \in Peer : Crowd(task, grants[p], p))'
  <2> SUFFICES ASSUME NEW p \in Peer PROVE Crowd(task', grants[p], p)
    OBVIOUS
  <2>1. grants[p] \in Seq(Nat) /\ Crowd(task, grants[p], p)
    BY DEF PaceTypeOK
  <2>2. QED
    BY <2>1, CrowdStays
<1>4. QED
  BY <1>1, <1>2, <1>3

\* A grant to t, which holds a permit of p in the end.
LEMMA GrantPace ==
  ASSUME PaceInv, PaceTypeOK', NEW t \in Task, Grant(t), clock' = clock,
         \A p \in Peer : permits'[p] - permits[p] = Cardinality(Holders(task, p)) - Cardinality(Holders(task', p)),
         \/ At(t, "sleep") /\ clock >= task[t].wake
         \/ ~Soon(task[t].peer)
  PROVE  PaceInv'
<1> USE DEF PaceInv
<1> DEFINE q == task[t].peer
<1>1. /\ q \in Peer
      /\ last' = [last EXCEPT ![q] = clock]
      /\ grants' = [grants EXCEPT ![q] = Append(@, clock)]
      /\ task' = [task EXCEPT ![t].pc = "send"]
  BY DEF Grant, Goto, PaceTypeOK, Emitter
<1>2. \A p \in Peer : permits'[p] + Cardinality(Holders(task', p)) = MaxInflight
  <2> SUFFICES ASSUME NEW p \in Peer
               PROVE  permits'[p] + Cardinality(Holders(task', p)) = MaxInflight
    OBVIOUS
  <2>1. permits[p] + Cardinality(Holders(task, p)) = MaxInflight
    BY DEF PermitsRight
  <2>2. permits[p] \in Nat /\ permits'[p] \in Nat
    BY DEF PaceTypeOK
  <2>3. Cardinality(Holders(task, p)) \in Nat /\ Cardinality(Holders(task', p)) \in Nat
    BY Finite, <<>> \in Seq(Nat)
  <2>4. QED
    BY <2>1, <2>2, <2>3, FederatedAssumption
<1>3. PermitsRight'
  BY <1>2 DEF PermitsRight
<1>4. ASSUME NEW p \in Peer, NEW i \in DOMAIN grants[p]
      PROVE  grants[p][i] <= clock /\ (p = q /\ ~Soon(q) => clock >= grants[p][i] + MinInterval)
  <2>1. grants[p][i] \in Nat /\ grants[p][i] <= last[p] /\ last[p] <= clock /\ clock \in Nat
    BY DEF LastRight, PaceTypeOK
  <2>2. last[p] \in Nat
    BY <2>1 DEF PaceTypeOK, Never
  <2>3. QED
    BY <2>1, <2>2, FederatedAssumption DEF Soon, Never
<1>5. LastRight'
  <2> SUFFICES ASSUME NEW p \in Peer
               PROVE  last'[p] <= clock /\ \A i \in DOMAIN grants'[p] : grants'[p][i] <= last'[p]
    BY DEF LastRight
  <2>1. CASE p = q
    <3>1. last'[q] = clock /\ grants'[q] = Append(grants[q], clock)
      BY <1>1 DEF PaceTypeOK
    <3>2. grants[q] \in Seq(Nat) /\ clock \in Nat
      BY <1>1 DEF PaceTypeOK
    <3>3. \A i \in DOMAIN Append(grants[q], clock) : Append(grants[q], clock)[i] <= clock
      BY <1>1, <1>4, <3>2
    <3>4. QED
      BY <2>1, <3>1, <3>2, <3>3
  <2>2. CASE p # q
    BY <1>1, <2>2 DEF LastRight, PaceTypeOK
  <2>3. QED
    BY <2>1, <2>2
<1>6. ASSUME NEW p \in Peer PROVE Crowd(task', grants'[p], p)
  <2>1. grants[p] \in Seq(Nat) /\ clock \in Nat /\ task \in [Task -> Emitter] /\ task' \in [Task -> Emitter]
    BY DEF PaceTypeOK
  <2>2. CASE p = q
    <3>1. grants'[p] = Append(grants[p], clock)
      BY <1>1, <2>2 DEF PaceTypeOK
    <3>2. /\ \A u \in Task \ {t} : task'[u] = task[u]
          /\ task[t].peer = p /\ task'[t].peer = p /\ task'[t].pc = "send"
      BY <1>1, <2>1, <2>2 DEF Emitter
    <3>3. Cardinality(Holders(task', p)) <= MaxInflight
      <4>1. permits'[p] \in Nat /\ Cardinality(Holders(task', p)) \in Nat
        BY Finite, <<>> \in Seq(Nat) DEF PaceTypeOK
      <4>2. QED
        BY <1>2, <4>1, FederatedAssumption
    <3>4. \/ task[t].pc = "sleep" /\ task[t].wake <= clock
          \/ \A i \in DOMAIN grants[p] : clock >= grants[p][i] + MinInterval
      BY <1>4, <2>1, <2>2 DEF At, Emitter
    <3>5. \A i \in DOMAIN grants[p] : grants[p][i] <= clock
      BY <1>4
    <3>6. Crowd(task, grants[p], p)
      OBVIOUS
    <3>7. QED
      BY <2>1, <3>1, <3>2, <3>3, <3>4, <3>5, <3>6, CrowdGrant
  <2>3. CASE p # q
    <3>1. grants'[p] = grants[p]
      BY <1>1, <2>3 DEF PaceTypeOK
    <3>2. \A i \in DOMAIN grants[p] : Early(task', p, grants[p][i]) \subseteq Early(task, p, grants[p][i])
      BY <1>1, <2>1, <2>3 DEF Early, Emitter
    <3>3. QED
      BY <2>1, <3>1, <3>2, CrowdStays
  <2>4. QED
    BY <2>2, <2>3
<1>7. QED
  BY <1>3, <1>5, <1>6

-----------------------------------------------------------------------------
LEMMA BeginPace == ASSUME PaceInv, NEW t \in Task, Begin(t) PROVE PaceInv'
<1>1. PICK p \in Peer : task' = [task EXCEPT ![t] = [Idle EXCEPT !.pc = "permit", !.peer = p]]
  BY DEF Begin
<1> DEFINE e == [Idle EXCEPT !.pc = "permit", !.peer = p]
<1>2. e \in Emitter /\ e.pc = "permit" /\ task \in [Task -> Emitter] /\ task[t].pc = "idle"
  <2>1. Idle \in Emitter
    BY FederatedAssumption DEF Idle, Emitter, Phase
  <2>2. e \in Emitter /\ e.pc = "permit"
    BY <2>1 DEF Emitter, Phase
  <2>3. QED
    BY <2>2 DEF PaceInv, PaceTypeOK, Begin, At
<1> HIDE DEF e
<1>3. PaceTypeOK'
  BY <1>1, <1>2 DEF e, Begin, PaceInv, PaceTypeOK
<1>4. \A r \in Peer : Holders(task', r) = Holders(task, r)
  BY <1>1, <1>2 DEF e, Holders
<1>5. \A r \in Peer : \A a : Early(task', r, a) \subseteq Early(task, r, a)
  BY <1>1, <1>2 DEF e, Early
<1>6. \A r \in Peer : Cardinality(Holders(task, r)) \in Nat /\ permits[r] \in Nat
  BY Finite, <<>> \in Seq(Nat) DEF PaceInv, PaceTypeOK
<1>7. UNCHANGED <<clock, permits, last, grants>>
  BY DEF Begin
<1>8. \A r \in Peer : permits'[r] - permits[r] = Cardinality(Holders(task, r)) - Cardinality(Holders(task', r))
  BY <1>4, <1>6, <1>7
<1>9. QED
  BY <1>3, <1>5, <1>7, <1>8, QuietPace

LEMMA SendPace == ASSUME PaceInv, NEW t \in Task, Send(t) PROVE PaceInv'
<1>1. task' = [task EXCEPT ![t].pc = "release"] /\ task \in [Task -> Emitter] /\ task[t].pc = "send"
  BY DEF Send, Goto, At, PaceInv, PaceTypeOK
<1>2. PaceTypeOK'
  BY <1>1 DEF Send, PaceInv, PaceTypeOK, Emitter, Phase
<1>3. \A r \in Peer : Holders(task', r) = Holders(task, r)
  BY <1>1 DEF Holders, Emitter
<1>4. \A r \in Peer : \A a : Early(task', r, a) \subseteq Early(task, r, a)
  BY <1>1 DEF Early, Emitter
<1>5. \A r \in Peer : Cardinality(Holders(task, r)) \in Nat /\ permits[r] \in Nat
  BY Finite, <<>> \in Seq(Nat) DEF PaceInv, PaceTypeOK
<1>6. QED
  BY <1>2, <1>3, <1>4, <1>5, QuietPace DEF Send

LEMMA ReleasePace == ASSUME PaceInv, NEW t \in Task, Release(t) PROVE PaceInv'
<1> DEFINE q == task[t].peer
<1>1. /\ task \in [Task -> Emitter] /\ task[t].pc = "release" /\ q \in Peer
      /\ task' = [task EXCEPT ![t] = Idle] /\ Idle \in Emitter /\ Idle.pc = "idle"
      /\ permits \in [Peer -> Nat] /\ permits' = [permits EXCEPT ![q] = @ + 1]
  BY FederatedAssumption DEF Release, At, PaceInv, PaceTypeOK, Emitter, Phase, Idle
<1>2. PaceTypeOK'
  BY <1>1 DEF Release, PaceInv, PaceTypeOK
<1>3. ASSUME NEW r \in Peer
      PROVE  permits'[r] - permits[r] = Cardinality(Holders(task, r)) - Cardinality(Holders(task', r))
  <2>1. Cardinality(Holders(task, r)) \in Nat /\ Cardinality(Holders(task', r)) \in Nat
    BY Finite, <<>> \in Seq(Nat)
  <2>2. CASE r = q
    <3>1. Cardinality(Holders(task', r)) = Cardinality(Holders(task, r)) - 1
      BY <1>1, <2>2, HoldersChange
    <3>2. permits'[r] = permits[r] + 1 /\ permits[r] \in Nat
      BY <1>1, <2>2
    <3>3. QED
      BY <2>1, <3>1, <3>2
  <2>3. CASE r # q
    <3>1. Holders(task', r) = Holders(task, r)
      BY <1>1, <2>3 DEF Holders
    <3>2. permits'[r] = permits[r] /\ permits[r] \in Nat
      BY <1>1, <2>3
    <3>3. QED
      BY <2>1, <3>1, <3>2
  <2>4. QED
    BY <2>2, <2>3
<1>4. \A r \in Peer : \A a : Early(task', r, a) \subseteq Early(task, r, a)
  BY <1>1 DEF Early
<1>5. QED
  BY <1>2, <1>3, <1>4, QuietPace DEF Release

LEMMA StampPace == ASSUME PaceInv, NEW t \in Task, Stamp(t) PROVE PaceInv'
<1>1. /\ task \in [Task -> Emitter] /\ task[t].pc = "sleep" /\ task[t].peer \in Peer
      /\ task' = [task EXCEPT ![t].pc = "send"]
  BY DEF Stamp, Grant, Goto, At, PaceInv, PaceTypeOK, Emitter
<1>2. PaceTypeOK'
  <2>1. task' \in [Task -> Emitter]
    BY <1>1 DEF Emitter, Phase
  <2>2. /\ last' = [last EXCEPT ![task[t].peer] = clock] /\ clock' = clock /\ permits' = permits
        /\ grants' = [grants EXCEPT ![task[t].peer] = Append(@, clock)]
    BY DEF Stamp, Grant
  <2>3. QED
    BY <1>1, <2>1, <2>2 DEF PaceInv, PaceTypeOK
<1>3. \A r \in Peer : Holders(task', r) = Holders(task, r)
  BY <1>1 DEF Holders, Emitter
<1>4. \A r \in Peer : Cardinality(Holders(task, r)) \in Nat /\ permits[r] \in Nat /\ permits'[r] = permits[r]
  BY Finite, <<>> \in Seq(Nat) DEF PaceInv, PaceTypeOK, Stamp
<1>5. QED
  BY <1>2, <1>3, <1>4, GrantPace DEF Stamp

LEMMA AcquirePace == ASSUME PaceInv, NEW t \in Task, Acquire(t) PROVE PaceInv'
<1> DEFINE q == task[t].peer
<1>1. /\ task \in [Task -> Emitter] /\ task[t].pc = "permit" /\ q \in Peer /\ clock' = clock /\ clock \in Nat
      /\ permits \in [Peer -> Nat] /\ permits[q] > 0 /\ permits' = [permits EXCEPT ![q] = @ - 1]
      /\ last \in [Peer -> Nat \cup {Never}] /\ grants \in [Peer -> Seq(Nat)]
  BY DEF Acquire, At, PaceInv, PaceTypeOK, Emitter
<1>2. ASSUME NEW e \in Emitter, e.peer = q, e.pc \in {"sleep", "send"}, task' = [task EXCEPT ![t] = e],
             NEW r \in Peer
      PROVE  permits'[r] - permits[r] = Cardinality(Holders(task, r)) - Cardinality(Holders(task', r))
  <2>1. Cardinality(Holders(task, r)) \in Nat /\ Cardinality(Holders(task', r)) \in Nat
    BY Finite, <<>> \in Seq(Nat)
  <2>2. CASE r = q
    <3>1. Cardinality(Holders(task', r)) = Cardinality(Holders(task, r)) + 1
      BY <1>1, <1>2, <2>2, HoldersChange
    <3>2. permits'[r] = permits[r] - 1 /\ permits[r] \in Nat
      BY <1>1, <2>2
    <3>3. QED
      BY <2>1, <3>1, <3>2
  <2>3. CASE r # q
    <3>1. Holders(task', r) = Holders(task, r)
      BY <1>1, <1>2, <2>3 DEF Holders
    <3>2. permits'[r] = permits[r] /\ permits[r] \in Nat
      BY <1>1, <2>3
    <3>3. QED
      BY <2>1, <3>1, <3>2
  <2>4. QED
    BY <2>2, <2>3
<1>3. CASE ~Soon(q) /\ Grant(t)
  <2> DEFINE e == [task[t] EXCEPT !.pc = "send"]
  <2>1. e \in Emitter /\ e.peer = q /\ e.pc = "send" /\ task' = [task EXCEPT ![t] = e]
    BY <1>1, <1>3 DEF Grant, Goto, Emitter, Phase
  <2> HIDE DEF e
  <2>2. PaceTypeOK'
    BY <1>1, <1>3, <2>1 DEF Grant, PaceTypeOK
  <2>3. QED
    BY <1>1, <1>2, <1>3, <2>1, <2>2, GrantPace
<1>4. CASE /\ Soon(q)
           /\ task' = [task EXCEPT ![t].pc = "sleep", ![t].wake = last[q] + MinInterval]
           /\ UNCHANGED <<last, grants>>
  <2> DEFINE e == [task[t] EXCEPT !.pc = "sleep", !.wake = last[q] + MinInterval]
  <2>1. last[q] \in Nat /\ MinInterval \in Nat
    BY <1>1, <1>4, FederatedAssumption DEF Soon
  <2>2. e \in Emitter /\ e.peer = q /\ e.pc = "sleep" /\ e.wake = last[q] + MinInterval
        /\ task' = [task EXCEPT ![t] = e]
    <3>0. task[t] \in Emitter /\ last[q] + MinInterval \in Int
      BY <1>1, <2>1
    <3>1. e \in Emitter /\ e.peer = q /\ e.pc = "sleep" /\ e.wake = last[q] + MinInterval
      BY <3>0 DEF Emitter, Phase
    <3>2. task' = [task EXCEPT ![t] = e]
      BY <1>1, <1>4 DEF Emitter
    <3>3. QED
      BY <3>1, <3>2
  <2> HIDE DEF e
  <2>3. PaceTypeOK'
    <3>1. task' \in [Task -> Emitter] /\ permits' \in [Peer -> Nat]
      BY <1>1, <2>2
    <3>2. QED
      BY <1>1, <1>4, <3>1 DEF PaceTypeOK
  <2>4. ASSUME NEW r \in Peer, NEW i \in DOMAIN grants[r]
        PROVE  Early(task', r, grants[r][i]) \subseteq Early(task, r, grants[r][i])
    <3>1. r = q => ~(e.wake < grants[r][i] + MinInterval)
      BY <1>1, <2>1, <2>2 DEF PaceInv, LastRight
    <3>2. QED
      BY <1>1, <2>2, <3>1 DEF Early
  <2>5. QED
    BY <1>1, <1>2, <1>4, <2>2, <2>3, <2>4, QuietPace
<1>5. QED
  BY <1>3, <1>4 DEF Acquire

\* The receiver's steps leave the sender alone, and time only moves on.
LEMMA OtherPace ==
  ASSUME PaceInv, clock' \in Nat, clock' >= clock, UNCHANGED <<task, permits, last, grants>>
  PROVE  PaceInv'
<1> USE DEF PaceInv
<1>1. PaceTypeOK'
  BY DEF PaceTypeOK
<1>2. PermitsRight'
  BY DEF PermitsRight
<1>3. LastRight'
  <2>1. \A p \in Peer : last[p] \in Int /\ clock \in Nat
    BY DEF PaceTypeOK, Never
  <2>2. QED
    BY <2>1 DEF LastRight
<1>4. QED
  BY <1>1, <1>2, <1>3

LEMMA NextPace == PaceInv /\ [Next]_vars => PaceInv'
<1> SUFFICES ASSUME PaceInv, [Next]_vars PROVE PaceInv'
  OBVIOUS
<1>0. clock \in Nat
  BY DEF PaceInv, PaceTypeOK
<1>1. ASSUME NEW t \in Task, Begin(t) \/ Emission(t) PROVE PaceInv'
  BY <1>1, BeginPace, AcquirePace, StampPace, SendPace, ReleasePace DEF Emission
<1>2. ASSUME NEW p \in Peer, Receive(p) PROVE PaceInv'
  BY <1>0, <1>2, OtherPace DEF Receive
<1>3. ASSUME NEW p \in Peer, ReceiveForeign(p) PROVE PaceInv'
  BY <1>0, <1>3, OtherPace DEF ReceiveForeign
<1>4. CASE Tick
  BY <1>0, <1>4, OtherPace DEF Tick
<1>5. CASE UNCHANGED vars
  BY <1>0, <1>5, OtherPace DEF vars
<1>6. QED
  BY <1>1, <1>2, <1>3, <1>4, <1>5 DEF Next

\* In any stretch as long as the interval a peer is granted no more permits than there
\* are, for any number of tasks: what the limiter keeps although a sleeper does not look
\* at the last grant again (acquire_emit_permit).
THEOREM PaceKept == Spec => []GrantsPerInterval
<1>1. PaceInv => GrantsPerInterval
  <2> SUFFICES ASSUME PaceInv, NEW p \in Peer, NEW i \in DOMAIN grants[p]
               PROVE  Cardinality({j \in DOMAIN grants[p] :
                        grants[p][j] - grants[p][i] \in 0 .. MinInterval - 1}) <= MaxInflight
    BY DEF GrantsPerInterval
  <2>1. grants[p] \in Seq(Nat)
    BY DEF PaceInv, PaceTypeOK
  <2>2. Cardinality(Stretch(grants[p], i)) + Cardinality(Early(task, p, grants[p][i])) <= MaxInflight
    BY DEF PaceInv, Crowd
  <2>3. /\ Cardinality(Stretch(grants[p], i)) \in Nat
        /\ Cardinality(Early(task, p, grants[p][i])) \in Nat
    BY <2>1, Finite
  <2>4. Cardinality(Stretch(grants[p], i)) <= MaxInflight
    BY <2>2, <2>3, FederatedAssumption
  <2>5. QED
    BY <2>4 DEF Stretch
<1>2. QED
  BY InitPace, NextPace, <1>1, PTL DEF Spec

-----------------------------------------------------------------------------
(* The receiver's window.  It holds the latest admissions, in their order, and *)
(* those it does not hold are older than the window is long: what it counts is *)
(* what was admitted within the window, and a drop adds nothing to it.         *)

Ascends(s) == \A i, j \in DOMAIN s : i <= j => s[i] <= s[j]

\* w is the end of a, and a is older than c before it.
EndOf(w, a, c) ==
  /\ Len(w) <= Len(a)
  /\ \A j \in 1 .. Len(w) : w[j] = a[Len(a) - Len(w) + j]
  /\ \A i \in 1 .. Len(a) - Len(w) : a[i] < c

Fits(a, c) ==
  /\ Ascends(a)
  /\ \A i \in DOMAIN a : a[i] <= c

QuotaInv ==
  /\ clock \in Nat
  /\ window \in [Peer -> [Origin -> Seq(Nat)]]
  /\ admits \in [Peer -> [Origin -> Seq(Nat)]]
  /\ \A p \in Peer, o \in Origin :
       /\ Fits(admits[p][o], clock)
       /\ EndOf(window[p][o], admits[p][o], clock - RecvWindow)
  /\ QuotaExact

-----------------------------------------------------------------------------
\* An initial segment of the positions goes up to its size.
LEMMA SegmentSize ==
  ASSUME NEW n \in Nat, NEW I \in SUBSET (1 .. n), \A i \in I : 1 .. i \subseteq I
  PROVE  Cardinality(I) \in 0 .. n /\ I = 1 .. Cardinality(I)
<1>1. IsFiniteSet(1 .. n) /\ Cardinality(1 .. n) = n
  BY FS_Interval
<1>2. IsFiniteSet(I) /\ Cardinality(I) <= n
  BY <1>1, FS_Subset
<1>3. Cardinality(I) \in Nat
  BY <1>2, FS_CardinalityType
<1> DEFINE m == Cardinality(I)
<1>4. IsFiniteSet(1 .. m) /\ Cardinality(1 .. m) = m
  BY <1>3, FS_Interval
<1>5. ASSUME NEW i \in I
      PROVE  i \in 1 .. m
  <2>1. i \in Nat /\ i >= 1
    OBVIOUS
  <2>2. Cardinality(1 .. i) = i
    BY <2>1, FS_Interval
  <2>3. i <= m
    BY <1>2, <2>2, FS_Subset
  <2> QED
    BY <1>3, <2>1, <2>3
<1>6. I \subseteq 1 .. m
  BY <1>5
<1>7. I = 1 .. m
  BY <1>4, <1>6, FS_Subset
<1> QED
  BY <1>2, <1>3, <1>7

\* Of an ascending deque the loop drops what is older than the cutoff, and no more.
LEMMA SlideFacts ==
  ASSUME NEW s \in Seq(Nat), Ascends(s), clock \in Nat
  PROVE  \E m \in 0 .. Len(s) :
           /\ Slide(s) \in Seq(Nat) /\ Len(Slide(s)) = Len(s) - m
           /\ \A j \in 1 .. Len(s) - m : Slide(s)[j] = s[m + j]
           /\ \A i \in 1 .. m : s[i] < clock - RecvWindow
           /\ \A i \in m + 1 .. Len(s) : s[i] >= clock - RecvWindow
<1> DEFINE c == clock - RecvWindow
           stale == {n \in DOMAIN s : \A i \in 1 .. n : s[i] < c}
           m == Cardinality(stale)
<1>0. Len(s) \in Nat /\ DOMAIN s = 1 .. Len(s) /\ c \in Int /\ \A i \in 1 .. Len(s) : s[i] \in Nat
  BY FederatedAssumption
<1> HIDE DEF c
<1>1. stale \in SUBSET (1 .. Len(s))
  BY <1>0
<1>2. \A n \in stale : 1 .. n \subseteq stale
  <2> SUFFICES ASSUME NEW n \in stale, NEW k \in 1 .. n
               PROVE  k \in stale
    OBVIOUS
  <2>1. n \in 1 .. Len(s) /\ \A i \in 1 .. n : s[i] < c
    BY <1>0
  <2>2. k \in 1 .. Len(s) /\ \A i \in 1 .. k : i \in 1 .. n
    BY <1>0, <2>1
  <2> QED
    BY <1>0, <2>1, <2>2
<1>3. m \in 0 .. Len(s) /\ stale = 1 .. m
  <2> HIDE DEF stale
  <2> QED
    BY <1>0, <1>1, <1>2, SegmentSize
<1>4. Slide(s) = SubSeq(s, m + 1, Len(s))
  BY DEF Slide, c
<1>5. ASSUME NEW i \in 1 .. m
      PROVE  s[i] < c
  <2>1. i \in stale
    BY <1>3
  <2>2. i \in 1 .. i
    BY <1>3
  <2> QED
    BY <2>1, <2>2
<1>6. ASSUME NEW i \in m + 1 .. Len(s)
      PROVE  s[i] >= c
  <2>1. i \notin stale /\ i \in 1 .. Len(s)
    <3> HIDE DEF m, stale
    <3>1. i \in Int /\ i > m /\ i <= Len(s) /\ i >= 1
      BY <1>0, <1>3
    <3> QED
      BY <1>0, <1>3, <3>1
  <2>2. PICK k \in 1 .. i : ~(s[k] < c)
    BY <1>0, <2>1
  <2>3. k \in 1 .. Len(s) /\ k <= i
    BY <1>0, <2>1
  <2>4. s[k] <= s[i] /\ s[k] \in Nat /\ s[i] \in Nat
    BY <1>0, <2>1, <2>3 DEF Ascends
  <2> QED
    BY <1>0, <2>2, <2>4
<1> HIDE DEF m, stale
<1>7. /\ Slide(s) \in Seq(Nat) /\ Len(Slide(s)) = Len(s) - m
      /\ \A j \in 1 .. Len(s) - m : Slide(s)[j] = s[m + j]
  <2>1. m \in Nat /\ m <= Len(s)
    BY <1>0, <1>3
  <2>2. m + 1 \in Int /\ Len(s) \in Int /\ \A i \in m + 1 .. Len(s) : s[i] \in Nat
    BY <1>0, <2>1
  <2>3. /\ Slide(s) \in Seq(Nat)
        /\ Len(Slide(s)) = IF m + 1 <= Len(s) THEN Len(s) - (m + 1) + 1 ELSE 0
        /\ \A i \in 1 .. Len(s) - (m + 1) + 1 : Slide(s)[i] = s[m + 1 + i - 1]
    BY <1>4, <2>2, SubSeqProperties
  <2>4. Len(Slide(s)) = Len(s) - m
    <3>1. CASE m + 1 <= Len(s)
      <4>1. Len(Slide(s)) = Len(s) - (m + 1) + 1
        BY <2>3, <3>1
      <4> QED
        BY <1>0, <2>1, <4>1
    <3>2. CASE ~(m + 1 <= Len(s))
      <4>1. Len(Slide(s)) = 0
        BY <2>3, <3>2
      <4> QED
        <5>1. Len(s) \in Nat /\ m \in Nat /\ m <= Len(s)
          BY <1>0, <2>1
        <5>2. m = Len(s)
          BY <3>2, <5>1
        <5> QED
          BY <4>1, <5>1, <5>2
    <3> QED
      BY <3>1, <3>2
  <2>5. ASSUME NEW j \in 1 .. Len(s) - m
        PROVE  Slide(s)[j] = s[m + j]
    <3>1. j \in 1 .. Len(s) - (m + 1) + 1 /\ m + 1 + j - 1 = m + j
      BY <1>0, <2>1
    <3> QED
      BY <2>3, <3>1
  <2> QED
    BY <2>3, <2>4, <2>5
<1> QED
  BY <1>3, <1>5, <1>6, <1>7 DEF c

\* After the loop the deque is as long as there were admissions within the window.
LEMMA SlideCounts ==
  ASSUME NEW w \in Seq(Nat), NEW a \in Seq(Nat), clock \in Nat,
         Fits(a, clock), EndOf(w, a, clock - RecvWindow)
  PROVE  LET recent == {i \in DOMAIN a : a[i] >= clock - RecvWindow} IN
         /\ Slide(w) \in Seq(Nat) /\ EndOf(Slide(w), a, clock - RecvWindow)
         /\ IsFiniteSet(recent) /\ Cardinality(recent) = Len(Slide(w))
<1> DEFINE c == clock - RecvWindow
           recent == {i \in DOMAIN a : a[i] >= c}
           d == Len(a) - Len(w)
<1>0. /\ Len(a) \in Nat /\ DOMAIN a = 1 .. Len(a) /\ Len(w) \in Nat /\ DOMAIN w = 1 .. Len(w)
      /\ c \in Int /\ d \in Nat /\ \A i \in 1 .. Len(a) : a[i] \in Nat
  <2>1. RecvWindow \in Nat
    BY FederatedAssumption
  <2>2. Len(w) <= Len(a)
    BY DEF EndOf
  <2>3. Len(a) \in Nat /\ DOMAIN a = 1 .. Len(a) /\ Len(w) \in Nat /\ DOMAIN w = 1 .. Len(w)
    OBVIOUS
  <2>4. c \in Int
    BY <2>1
  <2>5. d \in Nat
    BY <2>2, <2>3
  <2> QED
    BY <2>3, <2>4, <2>5
<1> HIDE DEF d, c
<1>1. /\ \A j \in 1 .. Len(w) : w[j] = a[d + j]
      /\ \A i \in 1 .. d : a[i] < c
  BY DEF EndOf, c, d
<1>2. Ascends(w)
  <2> SUFFICES ASSUME NEW i \in 1 .. Len(w), NEW j \in 1 .. Len(w), i <= j
               PROVE  w[i] <= w[j]
    BY <1>0 DEF Ascends
  <2>1. d + i \in 1 .. Len(a) /\ d + j \in 1 .. Len(a) /\ d + i <= d + j
    BY <1>0 DEF d
  <2>2. a[d + i] <= a[d + j]
    BY <1>0, <2>1 DEF Fits, Ascends
  <2> QED
    BY <1>1, <2>2
<1>3. PICK m \in 0 .. Len(w) :
        /\ Slide(w) \in Seq(Nat) /\ Len(Slide(w)) = Len(w) - m
        /\ \A j \in 1 .. Len(w) - m : Slide(w)[j] = w[m + j]
        /\ \A i \in 1 .. m : w[i] < c
        /\ \A i \in m + 1 .. Len(w) : w[i] >= c
  BY <1>2, SlideFacts DEF c
<1> DEFINE n == Len(Slide(w))
<1>4. n \in Nat /\ n = Len(w) - m /\ Len(a) - n = d + m /\ n <= Len(a)
  BY <1>0, <1>3 DEF d
<1> HIDE DEF n
<1>5. ASSUME NEW j \in 1 .. n
      PROVE  Slide(w)[j] = a[Len(a) - n + j]
  <2>1. Slide(w)[j] = w[m + j] /\ m + j \in 1 .. Len(w)
    BY <1>0, <1>3, <1>4
  <2>2. d + (m + j) = Len(a) - n + j
    <3>1. j \in Nat /\ m \in Nat /\ d \in Nat /\ n \in Nat /\ Len(a) \in Nat
      BY <1>0, <1>4
    <3>2. Len(a) - n = d + m
      BY <1>4
    <3>3. d + (m + j) = d + m + j
      BY <3>1
    <3> QED
      BY <3>2, <3>3
  <2> QED
    BY <1>1, <2>1, <2>2
<1>6. ASSUME NEW i \in 1 .. Len(a) - n
      PROVE  a[i] < c
  <2>1. CASE i <= d
    BY <1>0, <1>1, <2>1
  <2>2. CASE ~(i <= d)
    <3>1. i - d \in 1 .. m /\ i - d \in 1 .. Len(w) /\ d + (i - d) = i
      BY <1>0, <1>4, <2>2
    <3>2. a[i] = w[i - d]
      BY <1>1, <3>1
    <3> QED
      BY <1>3, <3>1, <3>2
  <2> QED
    BY <2>1, <2>2
<1>7. ASSUME NEW i \in Len(a) - n + 1 .. Len(a)
      PROVE  a[i] >= c
  <2>1. i - d \in m + 1 .. Len(w) /\ i - d \in 1 .. Len(w) /\ d + (i - d) = i
    BY <1>0, <1>4 DEF d
  <2>2. a[i] = w[i - d]
    BY <1>1, <2>1
  <2> QED
    BY <1>3, <2>1, <2>2
<1>8. recent = Len(a) - n + 1 .. Len(a)
  <2>1. ASSUME NEW i \in recent
        PROVE  i \in Len(a) - n + 1 .. Len(a)
    <3>1. i \in 1 .. Len(a) /\ a[i] >= c
      BY <1>0
    <3>2. ~(i \in 1 .. Len(a) - n)
      BY <1>0, <1>6, <3>1
    <3> QED
      BY <1>0, <1>4, <3>1, <3>2
  <2>2. ASSUME NEW i \in Len(a) - n + 1 .. Len(a)
        PROVE  i \in recent
    <3>1. i \in 1 .. Len(a)
      BY <1>0, <1>4
    <3> QED
      BY <1>0, <1>7, <3>1
  <2> QED
    BY <2>1, <2>2
<1>9. IsFiniteSet(recent) /\ Cardinality(recent) = n
  <2>1. Len(a) - n + 1 \in Int /\ Len(a) \in Int
    BY <1>0, <1>4
  <2>2. IsFiniteSet(Len(a) - n + 1 .. Len(a))
        /\ Cardinality(Len(a) - n + 1 .. Len(a))
             = IF Len(a) - n + 1 > Len(a) THEN 0 ELSE Len(a) - (Len(a) - n + 1) + 1
    BY <2>1, FS_Interval
  <2>3. n = IF Len(a) - n + 1 > Len(a) THEN 0 ELSE Len(a) - (Len(a) - n + 1) + 1
    <3>1. n \in Nat /\ Len(a) \in Nat
      BY <1>0, <1>4
    <3> QED
      BY <3>1
  <2> QED
    BY <1>8, <2>2, <2>3
<1>10. EndOf(Slide(w), a, c)
  BY <1>4, <1>5, <1>6 DEF EndOf, n
<1> QED
  BY <1>3, <1>9, <1>10 DEF n, c

\* The quota of one originator.
QuotaOf(a) ==
  \A i \in DOMAIN a : Cardinality({j \in DOMAIN a : a[j] - a[i] \in 0 .. RecvWindow}) <= RecvMax

\* An admission while the window has room.
LEMMA AdmitOne ==
  ASSUME NEW w \in Seq(Nat), NEW a \in Seq(Nat), clock \in Nat, QuotaOf(a),
         Fits(a, clock), EndOf(w, a, clock - RecvWindow), Len(Slide(w)) + 1 <= RecvMax
  PROVE  LET b == Append(a, clock)
             v == Append(Slide(w), clock)
         IN  b \in Seq(Nat) /\ v \in Seq(Nat) /\ Fits(b, clock)
             /\ EndOf(v, b, clock - RecvWindow) /\ QuotaOf(b)
<1> DEFINE b == Append(a, clock)
           s == Slide(w)
           v == Append(s, clock)
           c == clock - RecvWindow
           n == Len(a) + 1
           recent == {i \in DOMAIN a : a[i] >= c}
<1>0. /\ s \in Seq(Nat) /\ EndOf(s, a, c)
      /\ IsFiniteSet(recent) /\ Cardinality(recent) = Len(s)
  BY SlideCounts
<1> HIDE DEF s
<1>1. /\ Len(a) \in Nat /\ DOMAIN a = 1 .. Len(a) /\ Len(s) \in Nat /\ c \in Int
      /\ RecvWindow \in Nat /\ RecvMax \in Nat
      /\ \A i \in 1 .. Len(a) : a[i] \in Nat
  <2>1. RecvWindow \in Nat /\ RecvMax \in Nat
    BY FederatedAssumption
  <2>2. Len(a) \in Nat /\ DOMAIN a = 1 .. Len(a) /\ \A i \in 1 .. Len(a) : a[i] \in Nat
    OBVIOUS
  <2>3. Len(s) \in Nat
    BY <1>0
  <2>4. c \in Int
    BY <2>1
  <2> QED
    BY <2>1, <2>2, <2>3, <2>4
<1>2. /\ b \in Seq(Nat) /\ Len(b) = n /\ DOMAIN b = 1 .. n /\ b[n] = clock
      /\ \A i \in 1 .. Len(a) : b[i] = a[i]
  BY <1>1
<1>3. /\ v \in Seq(Nat) /\ Len(v) = Len(s) + 1 /\ v[Len(s) + 1] = clock
      /\ \A j \in 1 .. Len(s) : v[j] = s[j]
  BY <1>0, <1>1
<1> HIDE DEF b, v
<1>4. \A i \in 1 .. Len(a) : a[i] <= clock
  BY <1>1 DEF Fits
<1>5. Fits(b, clock)
  <2>1. ASSUME NEW i \in 1 .. n
        PROVE  b[i] <= clock
    <3>1. CASE i = n
      BY <1>2, <3>1
    <3>2. CASE i # n
      <4>1. i \in 1 .. Len(a)
        BY <1>1, <3>2
      <4> QED
        BY <1>2, <1>4, <4>1
    <3> QED
      BY <3>1, <3>2
  <2>2. ASSUME NEW i \in 1 .. n, NEW j \in 1 .. n, i <= j
        PROVE  b[i] <= b[j]
    <3>1. CASE j = n
      BY <1>2, <2>1, <3>1
    <3>2. CASE j # n
      <4>1. i \in 1 .. Len(a) /\ j \in 1 .. Len(a)
        BY <1>1, <2>2, <3>2
      <4>2. a[i] <= a[j]
        BY <1>1, <2>2, <4>1 DEF Fits, Ascends
      <4> QED
        BY <1>2, <4>1, <4>2
    <3> QED
      BY <3>1, <3>2
  <2> QED
    BY <1>2, <2>1, <2>2 DEF Fits, Ascends
<1>6. EndOf(v, b, c)
  <2>0. Len(s) <= Len(a) /\ Len(b) - Len(v) = Len(a) - Len(s) /\ Len(v) <= Len(b)
    BY <1>0, <1>1, <1>2, <1>3 DEF EndOf
  <2>1. ASSUME NEW j \in 1 .. Len(v)
        PROVE  v[j] = b[Len(b) - Len(v) + j]
    <3>1. CASE j = Len(s) + 1
      <4>1. Len(b) - Len(v) + j = n
        BY <1>1, <1>2, <1>3, <2>0, <3>1
      <4> QED
        BY <1>2, <1>3, <3>1, <4>1
    <3>2. CASE j # Len(s) + 1
      <4>1. j \in 1 .. Len(s) /\ Len(a) - Len(s) + j \in 1 .. Len(a)
        <5>1. j \in Nat /\ j >= 1 /\ j <= Len(s) + 1 /\ Len(s) + 1 \in Nat
          BY <1>1, <1>3
        <5>2. j <= Len(s)
          BY <1>1, <3>2, <5>1
        <5> QED
          BY <1>1, <2>0, <5>1, <5>2
      <4>2. s[j] = a[Len(a) - Len(s) + j]
        BY <1>0, <4>1 DEF EndOf
      <4> QED
        BY <1>2, <1>3, <2>0, <4>1, <4>2
    <3> QED
      BY <3>1, <3>2
  <2>2. ASSUME NEW i \in 1 .. Len(b) - Len(v)
        PROVE  b[i] < c
    <3>1. i \in 1 .. Len(a) - Len(s) /\ i \in 1 .. Len(a)
      BY <1>1, <2>0
    <3>2. a[i] < c
      BY <1>0, <3>1 DEF EndOf
    <3> QED
      BY <1>2, <3>1, <3>2
  <2> QED
    BY <2>0, <2>1, <2>2 DEF EndOf
<1>7. QuotaOf(b)
  <2> SUFFICES ASSUME NEW i \in 1 .. n
               PROVE  Cardinality({j \in 1 .. n : b[j] - b[i] \in 0 .. RecvWindow}) <= RecvMax
    BY <1>2 DEF QuotaOf
  <2> DEFINE near == {j \in 1 .. n : b[j] - b[i] \in 0 .. RecvWindow}
  <2>0. b[i] \in Nat
    BY <1>2
  <2>1. CASE b[i] >= c
    <3>1. near \subseteq recent \cup {n}
      <4> SUFFICES ASSUME NEW j \in 1 .. Len(a), b[j] - b[i] \in 0 .. RecvWindow
                   PROVE  a[j] >= c
        <5>1. \A j \in near : j \in 1 .. Len(a) \/ j = n
          BY <1>1
        <5>2. \A j \in near : b[j] - b[i] \in 0 .. RecvWindow
          OBVIOUS
        <5>3. \A j \in 1 .. Len(a) : a[j] >= c => j \in recent
          BY <1>1
        <5> HIDE DEF near, recent, n, c
        <5> QED
          BY <5>1, <5>2, <5>3
      <4>1. b[j] = a[j] /\ a[j] \in Nat
        BY <1>1, <1>2
      <4>2. a[j] >= b[i]
        BY <2>0, <4>1
      <4>3. a[j] \in Int /\ b[i] \in Int /\ c \in Int /\ b[i] >= c
        BY <1>1, <2>0, <2>1, <4>1
      <4> HIDE DEF c, near, recent, n
      <4> QED
        BY <4>2, <4>3
    <3>2. n \notin recent
      BY <1>1 DEF n, recent
    <3>3. IsFiniteSet(recent \cup {n}) /\ Cardinality(recent \cup {n}) = Len(s) + 1
      BY <1>0, <3>2, FS_AddElement
    <3>4. Cardinality(near) <= Len(s) + 1 /\ IsFiniteSet(near)
      BY <3>1, <3>3, FS_Subset
    <3>5. Cardinality(near) \in Nat /\ Len(s) + 1 <= RecvMax
      BY <3>4, FS_CardinalityType DEF s
    <3> QED
      BY <1>1, <3>4, <3>5
  <2>2. CASE b[i] < c
    <3>1. i \in 1 .. Len(a) /\ a[i] = b[i]
      BY <1>1, <1>2, <2>2
    <3>2. ~(b[n] - b[i] \in 0 .. RecvWindow)
      BY <1>1, <1>2, <2>0, <2>2
    <3>3. near = {j \in DOMAIN a : a[j] - a[i] \in 0 .. RecvWindow}
      <4>1. \A j \in 1 .. Len(a) : b[j] - b[i] = a[j] - a[i]
        BY <1>2, <3>1
      <4>2. \A j \in 1 .. n : j \in 1 .. Len(a) \/ j = n
        BY <1>1
      <4>3. \A j \in 1 .. Len(a) : j \in 1 .. n
        BY <1>1
      <4>4. \A j \in near : j \in 1 .. Len(a)
        BY <3>2, <4>2
      <4>5. \A j \in near : b[j] - b[i] \in 0 .. RecvWindow
        OBVIOUS
      <4>6. \A j \in 1 .. n : b[j] - b[i] \in 0 .. RecvWindow => j \in near
        OBVIOUS
      <4> HIDE DEF near, n
      <4> QED
        BY <1>1, <4>1, <4>3, <4>4, <4>5, <4>6
    <3> QED
      BY <1>1, <3>1, <3>3 DEF QuotaOf
  <2> QED
    BY <1>1, <2>0, <2>1, <2>2
<1> QED
  BY <1>2, <1>3, <1>5, <1>6, <1>7 DEF b, v, s

-----------------------------------------------------------------------------
LEMMA InitQuota == Init => QuotaInv
<1> SUFFICES ASSUME Init PROVE QuotaInv
  OBVIOUS
<1>1. /\ clock = 0 /\ drops = {}
      /\ window = [p \in Peer |-> [o \in Origin |-> <<>>]]
      /\ admits = [p \in Peer |-> [o \in Origin |-> <<>>]]
  BY DEF Init
<1>2. <<>> \in Seq(Nat) /\ Len(<<>>) = 0 /\ DOMAIN <<>> = {}
  OBVIOUS
<1>3. Fits(<<>>, 0) /\ EndOf(<<>>, <<>>, 0 - RecvWindow)
  BY <1>2 DEF Fits, Ascends, EndOf
<1>4. QuotaExact
  BY <1>1, <1>2 DEF QuotaExact
<1> QED
  BY <1>1, <1>2, <1>3, <1>4 DEF QuotaInv

LEMMA AdmitQuota ==
  ASSUME QuotaInv, NEW p \in Peer, NEW o \in Origin, Admit(p, o), clock' = clock
  PROVE  QuotaInv'
<1> DEFINE w == window[p][o]
           a == admits[p][o]
           c == clock - RecvWindow
<1>0. /\ w \in Seq(Nat) /\ a \in Seq(Nat) /\ clock \in Nat /\ Fits(a, clock) /\ EndOf(w, a, c)
      /\ window \in [Peer -> [Origin -> Seq(Nat)]] /\ admits \in [Peer -> [Origin -> Seq(Nat)]]
  BY DEF QuotaInv
<1>1. /\ Slide(w) \in Seq(Nat) /\ EndOf(Slide(w), a, c)
      /\ Within(p, o) = Len(Slide(w))
  BY <1>0, SlideCounts DEF Within
<1>2. \A q \in Peer, r \in Origin : QuotaOf(admits[q][r])
  BY DEF QuotaInv, QuotaExact, QuotaOf
<1>3. ASSUME NEW wn \in Seq(Nat), NEW an \in Seq(Nat), Fits(an, clock), EndOf(wn, an, c), QuotaOf(an),
             window' = [window EXCEPT ![p][o] = wn], admits' = [admits EXCEPT ![p][o] = an],
             \A d \in drops' : d.within >= RecvMax
      PROVE  QuotaInv'
  <2>1. /\ window' \in [Peer -> [Origin -> Seq(Nat)]] /\ admits' \in [Peer -> [Origin -> Seq(Nat)]]
    BY <1>0, <1>3
  <2>2. ASSUME NEW q \in Peer, NEW r \in Origin
        PROVE  /\ Fits(admits'[q][r], clock)
               /\ EndOf(window'[q][r], admits'[q][r], c)
               /\ QuotaOf(admits'[q][r])
    <3>1. CASE q = p /\ r = o
      <4>1. admits'[q][r] = an /\ window'[q][r] = wn
        BY <1>0, <1>3, <3>1
      <4> QED
        BY <1>3, <4>1
    <3>2. CASE ~(q = p /\ r = o)
      <4>1. admits'[q][r] = admits[q][r] /\ window'[q][r] = window[q][r]
        BY <1>0, <1>3, <3>2
      <4> QED
        BY <1>2, <4>1 DEF QuotaInv
    <3> QED
      BY <3>1, <3>2
  <2>3. QuotaExact'
    BY <1>3, <2>2 DEF QuotaExact, QuotaOf
  <2> QED
    BY <1>0, <2>1, <2>2, <2>3 DEF QuotaInv
<1> HIDE DEF w, a
<1>4. CASE Len(Slide(w)) + 1 > RecvMax
  <2>1. /\ window' = [window EXCEPT ![p][o] = Slide(w)]
        /\ drops' = drops \cup {[peer |-> p, origin |-> o, within |-> Within(p, o)]}
        /\ admits' = admits
    <3>1. RecvMax \in Nat /\ Len(Slide(w)) \in Nat
      BY <1>0, <1>1, FederatedAssumption
    <3>2. ~(Len(Slide(w)) + 1 <= RecvMax)
      BY <1>4, <3>1
    <3> QED
      BY <3>2 DEF Admit, w
  <2>2. admits' = [admits EXCEPT ![p][o] = a]
    BY <1>0, <2>1 DEF a
  <2>3. \A d \in drops' : d.within >= RecvMax
    <3>1. Within(p, o) >= RecvMax
      BY <1>0, <1>1, <1>4, FederatedAssumption
    <3> QED
      BY <2>1, <3>1 DEF QuotaInv, QuotaExact
  <2>4. QuotaOf(a)
    BY <1>2 DEF a
  <2> QED
    BY <1>0, <1>1, <1>3, <2>1, <2>2, <2>3, <2>4
<1>5. CASE ~(Len(Slide(w)) + 1 > RecvMax)
  <2>0. Len(Slide(w)) + 1 <= RecvMax
    BY <1>1, <1>5, FederatedAssumption
  <2>1. /\ window' = [window EXCEPT ![p][o] = Append(Slide(w), clock)]
        /\ admits' = [admits EXCEPT ![p][o] = Append(a, clock)]
        /\ drops' = drops
    BY <1>5 DEF Admit, w, a
  <2>2. QuotaOf(a)
    BY <1>2 DEF a
  <2>3. /\ Append(a, clock) \in Seq(Nat) /\ Append(Slide(w), clock) \in Seq(Nat)
        /\ Fits(Append(a, clock), clock) /\ EndOf(Append(Slide(w), clock), Append(a, clock), c)
        /\ QuotaOf(Append(a, clock))
    BY <1>0, <2>0, <2>2, AdmitOne
  <2>4. \A d \in drops' : d.within >= RecvMax
    BY <2>1 DEF QuotaInv, QuotaExact
  <2> QED
    BY <1>3, <2>1, <2>3, <2>4
<1> QED
  BY <1>4, <1>5

LEMMA NextQuota ==
  ASSUME QuotaInv, [Next]_vars
  PROVE  QuotaInv'
<1>0. ASSUME UNCHANGED <<admits, drops>>
      PROVE  QuotaExact'
  <2>1. QuotaExact
    BY DEF QuotaInv
  <2>2. admits' = admits /\ drops' = drops
    BY <1>0
  <2> QED
    BY <2>1, <2>2 DEF QuotaExact
<1>1. ASSUME UNCHANGED <<clock, window, admits, drops>>
      PROVE  QuotaInv'
  <2>1. QuotaExact'
    BY <1>0, <1>1
  <2> QED
    BY <1>1, <2>1 DEF QuotaInv
<1>2. ASSUME NEW t \in Task, Begin(t) \/ Emission(t)
      PROVE  QuotaInv'
  BY <1>1, <1>2 DEF Begin, Emission, Acquire, Stamp, Send, Release
<1>3. ASSUME NEW p \in Peer, Receive(p)
      PROVE  QuotaInv'
  BY <1>3, AdmitQuota DEF Receive, Origin
<1>4. ASSUME NEW p \in Peer, ReceiveForeign(p)
      PROVE  QuotaInv'
  <2>1. PICK o \in Origin, kind \in Refused \cup Counted :
          \/ kind \in Refused /\ UNCHANGED <<window, admits, drops>>
          \/ kind \in Counted /\ Admit(p, o)
    BY <1>4 DEF ReceiveForeign
  <2>2. clock' = clock
    BY <1>4 DEF ReceiveForeign
  <2> QED
    BY <1>1, <2>1, <2>2, AdmitQuota
<1>5. CASE Tick
  <2>1. clock' = clock + 1 /\ UNCHANGED <<window, admits, drops>>
    BY <1>5 DEF Tick
  <2>2. clock \in Nat /\ RecvWindow \in Nat
    BY FederatedAssumption DEF QuotaInv
  <2>3. ASSUME NEW p \in Peer, NEW o \in Origin
        PROVE  Fits(admits[p][o], clock + 1) /\ EndOf(window[p][o], admits[p][o], clock + 1 - RecvWindow)
    <3> DEFINE w == window[p][o]
               a == admits[p][o]
    <3>1. a \in Seq(Nat) /\ w \in Seq(Nat) /\ Fits(a, clock) /\ EndOf(w, a, clock - RecvWindow)
      BY DEF QuotaInv
    <3> HIDE DEF w, a
    <3>2. Fits(a, clock + 1)
      BY <2>2, <3>1 DEF Fits
    <3>3. EndOf(w, a, clock + 1 - RecvWindow)
      <4>1. \A i \in 1 .. Len(a) - Len(w) : a[i] \in Nat
        BY <3>1 DEF EndOf
      <4> QED
        BY <2>2, <3>1, <4>1 DEF EndOf
    <3> QED
      BY <3>2, <3>3 DEF w, a
  <2>4. QuotaExact'
    BY <1>0, <2>1
  <2> QED
    BY <2>1, <2>2, <2>3, <2>4 DEF QuotaInv
<1>6. CASE UNCHANGED vars
  BY <1>1, <1>6 DEF vars
<1> QED
  BY <1>2, <1>3, <1>4, <1>5, <1>6 DEF Next

\* No window holds more admissions of an originator than the quota, and a message is
\* dropped only when as many lay within the window, for any window, quota and number of
\* originators (admit_receipt).
THEOREM QuotaKept == Spec => []QuotaExact
<1>1. QuotaInv => QuotaExact
  BY DEF QuotaInv
<1> QED
  BY InitQuota, NextQuota, <1>1, PTL DEF Spec

================================================================================
