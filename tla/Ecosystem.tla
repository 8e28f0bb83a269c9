------------------------------- MODULE Ecosystem -------------------------------
(***************************************************************************)
(* Scoring an ecosystem of Brains (score_ecosystem of neurogrim-ecosystem  *)
(* over the pure core of neurogrim-core, ecosystem.rs).  The disabled      *)
(* children are dropped with the dependencies on them, the others sorted   *)
(* by Kahn's algorithm, asked one after another as subprocesses or over    *)
(* A2A, and their answers averaged with the parent's score.                *)
(*                                                                         *)
(* Children are numbered in the order of their ids, which is the order the *)
(* registry holds them in.  A child that is asked may fail in any way, and *)
(* its answer be of any age.                                               *)
(***************************************************************************)
EXTENDS Integers, Sequences, FiniteSets

CONSTANTS
  N,           \* children of the registry
  Unknown,     \* an id that no child has
  Score,       \* the scores children answer with
  Confidence,  \* and their mean confidences, in percent
  ParentScore,
  ParentWeight,
  ChildWeight

ASSUME EcosystemAssumption ==
  /\ N \in Nat
  /\ Unknown \notin 1 .. N
  /\ Score \subseteq 0 .. 100
  /\ Confidence \subseteq 0 .. 100
  /\ ParentScore \in 0 .. 100
  /\ ParentWeight \in Nat
  /\ ChildWeight \in [1 .. N -> Nat]

VARIABLES
  enabled,  \* the registry: the enabled children
  deps,     \* the registry: per child, the ids it depends on
  pc,       \* "sort", "invoke", "sum", "done", "failed"
  indegree, \* per child, dependencies not yet ordered
  queue,    \* children whose dependencies are all ordered
  ordered,  \* the execution order
  involved, \* the children a cycle error names
  asked,    \* how many of the order were asked
  result,   \* per child, what asking it came to
  counted,  \* how many of the order were averaged
  sum,      \* the contributions averaged so far, weighted, in 400ths
  weight,   \* and their weight
  status,   \* per child, its reported status
  score     \* the ecosystem's score

ecosystemVars == <<enabled, deps, pc, indegree, queue, ordered, involved, asked, result, counted, sum, weight,
                   status, score>>

sumVars == <<counted, sum, weight, status, score>>

Child == 1 .. N

\* Children in the order the registry holds them.
Ascending(S) ==
  {s \in [1 .. Cardinality(S) -> S] : \A k, l \in DOMAIN s : k < l => s[k] < s[l]}

\* enabled_only: dependencies on disabled children are dropped.  So are those on ids no
\* child has, and the sort's check for unknown ids never finds one.
Deps(i) == deps[i] \cap enabled

\* Quarters of the freshness multiplier: up to a day, three days, a week, older.
Freshness == 1 .. 4

Answer == [score : Score, confidence : Confidence, fresh : Freshness]

NotAsked == [kind |-> "not asked"]

Failed == [kind |-> "failed"]

EcosystemInit ==
  /\ enabled \in SUBSET Child
  /\ deps \in [Child -> SUBSET (Child \cup {Unknown})]
  /\ pc = "sort"
  /\ indegree = [i \in Child |-> Cardinality(Deps(i))]
  /\ queue \in Ascending({i \in enabled : Deps(i) = {}})
  /\ ordered = <<>>
  /\ involved = {}
  /\ asked = 0
  /\ result = [i \in Child |-> NotAsked]
  /\ counted = 0
  /\ sum = 0
  /\ weight = 0
  /\ status = [i \in Child |-> "none"]
  /\ score = 0

-----------------------------------------------------------------------------
\* topological_sort.

\* Seeded fault: a dependent joins the queue when its first dependency is ordered.
OrderEagerly ==
  /\ pc = "sort" /\ queue # <<>>
  /\ LET i == Head(queue)
         released == {j \in enabled : i \in Deps(j) /\ indegree[j] > 0}
     IN
     /\ ordered' = Append(ordered, i)
     /\ indegree' = [j \in Child |-> IF j \in enabled /\ i \in Deps(j) THEN 0 ELSE indegree[j]]
     /\ \E s \in Ascending(released) : queue' = Tail(queue) \o s
  /\ UNCHANGED <<enabled, deps, pc, involved, asked, result, sumVars>>

\* A pass of the loop: the head of the queue is ordered, and its dependents with no other
\* dependency left join the queue.
Order ==
  /\ pc = "sort" /\ queue # <<>>
  /\ LET i == Head(queue)
         released == {j \in enabled : i \in Deps(j) /\ indegree[j] = 1}
     IN
     /\ ordered' = Append(ordered, i)
     /\ indegree' = [j \in Child |-> IF j \in enabled /\ i \in Deps(j) THEN indegree[j] - 1 ELSE indegree[j]]
     /\ \E s \in Ascending(released) : queue' = Tail(queue) \o s
  /\ UNCHANGED <<enabled, deps, pc, involved, asked, result, sumVars>>

\* Seeded fault: the error names only the children that depend on themselves.
ReportSelfLoops ==
  /\ pc = "sort" /\ queue = <<>>
  /\ Len(ordered) # Cardinality(enabled)
  /\ pc' = "failed"
  /\ involved' = {i \in enabled : i \in Deps(i)}
  /\ UNCHANGED <<enabled, deps, indegree, queue, ordered, asked, result, sumVars>>

\* Children left over are on a cycle or behind one: the whole pass ends with an error.
ReportCycle ==
  /\ pc = "sort" /\ queue = <<>>
  /\ Len(ordered) # Cardinality(enabled)
  /\ pc' = "failed"
  /\ involved' = {i \in enabled : indegree[i] > 0}
  /\ UNCHANGED <<enabled, deps, indegree, queue, ordered, asked, result, sumVars>>

Sorted ==
  /\ pc = "sort" /\ queue = <<>>
  /\ Len(ordered) = Cardinality(enabled)
  /\ pc' = "invoke"
  /\ UNCHANGED <<enabled, deps, indegree, queue, ordered, involved, asked, result, sumVars>>

-----------------------------------------------------------------------------
\* score_ecosystem, after the sort.

\* invoke_child.  A subprocess does not start, exits with an error or prints no output
\* that parses; a peer's card is not found, does not accept the request or names another
\* version, the task fails or its answer is of another type or does not parse, or the
\* answer's own time does not: the failure is recorded and the pass goes on, with the
\* child's dependents too.  Nothing limits how long a child may take.
Ask ==
  /\ pc = "invoke" /\ asked < Len(ordered)
  /\ asked' = asked + 1
  /\ \E r \in Answer \cup {Failed} : result' = [result EXCEPT ![ordered[asked + 1]] = r]
  /\ UNCHANGED <<enabled, deps, pc, indegree, queue, ordered, involved, sumVars>>

\* A child counts with its score, dampened by confidence and freshness (in 400ths).
Effective(a) == a.score * a.confidence * a.fresh

Rounded(numerator, denominator) == (2 * numerator + denominator) \div (2 * denominator)

\* aggregate: the parent's own contribution.
BeginAggregate ==
  /\ pc = "invoke" /\ asked = Len(ordered)
  /\ pc' = "sum"
  /\ sum' = 400 * ParentScore * ParentWeight
  /\ weight' = ParentWeight
  /\ UNCHANGED <<enabled, deps, indegree, queue, ordered, involved, asked, result, counted, status, score>>

\* Seeded fault: a child that failed counts as a zero of its full weight.
CountZero ==
  /\ pc = "sum" /\ counted < Len(ordered)
  /\ counted' = counted + 1
  /\ LET i == ordered[counted + 1] IN
     \/ /\ result[i] = Failed
        /\ status' = [status EXCEPT ![i] = "error"]
        /\ weight' = weight + ChildWeight[i]
        /\ UNCHANGED sum
     \/ /\ result[i] # Failed
        /\ status' = [status EXCEPT ![i] = IF result[i].fresh < 2 THEN "stale" ELSE "ok"]
        /\ sum' = sum + Effective(result[i]) * ChildWeight[i]
        /\ weight' = weight + ChildWeight[i]
  /\ UNCHANGED <<enabled, deps, pc, indegree, queue, ordered, involved, asked, result, score>>

\* A pass of its loop: a failed child is left out of both sums, a stale one counts.
Count ==
  /\ pc = "sum" /\ counted < Len(ordered)
  /\ counted' = counted + 1
  /\ LET i == ordered[counted + 1] IN
     \/ /\ result[i] = Failed
        /\ status' = [status EXCEPT ![i] = "error"]
        /\ UNCHANGED <<sum, weight>>
     \/ /\ result[i] # Failed
        /\ status' = [status EXCEPT ![i] = IF result[i].fresh < 2 THEN "stale" ELSE "ok"]
        /\ sum' = sum + Effective(result[i]) * ChildWeight[i]
        /\ weight' = weight + ChildWeight[i]
  /\ UNCHANGED <<enabled, deps, pc, indegree, queue, ordered, involved, asked, result, score>>

\* The disabled children come last, and the sum is divided by the weight.
Aggregate ==
  /\ pc = "sum" /\ counted = Len(ordered)
  /\ pc' = "done"
  /\ status' = [i \in Child |-> IF i \in enabled THEN status[i] ELSE "disabled"]
  /\ score' = IF weight > 0 THEN Rounded(sum, 400 * weight) ELSE 0
  /\ UNCHANGED <<enabled, deps, indegree, queue, ordered, involved, asked, result, counted, sum, weight>>

EcosystemNext == Order \/ ReportCycle \/ Sorted \/ Ask \/ BeginAggregate \/ Count \/ Aggregate

EcosystemSpec == EcosystemInit /\ [][EcosystemNext]_ecosystemVars

-----------------------------------------------------------------------------
\* When a child is asked, every enabled child it depends on has been asked before, and no
\* child is asked twice: the order is a topological one, whatever the registry.
DependenciesFirst ==
  \A k \in 1 .. Len(ordered) :
    /\ \A j \in Deps(ordered[k]) : \E m \in 1 .. k - 1 : ordered[m] = j
    /\ \A m \in 1 .. k - 1 : ordered[m] # ordered[k]

\* Children none of which can come first, as each depends on one of them.
Knot(S) == \A i \in S : Deps(i) \cap S # {}

\* The children that lie on a cycle of dependencies or behind one.
Stuck == UNION {S \in SUBSET enabled : Knot(S)}

\* The cycle error is exact: it names the enabled children on a cycle or behind one, it
\* appears whenever there is such a child, and then nobody was asked.
CycleExact ==
  /\ pc = "failed" => involved = Stuck /\ Stuck # {} /\ asked = 0
  /\ pc \in {"invoke", "sum", "done"} => Stuck = {}

\* Failures are reported and do not bias: every child has the status of what became of
\* it, and the score lies between those of the parent and of the children that answered.
FailuresUnbiased ==
  pc = "done" =>
    LET answered == {i \in enabled : status[i] \in {"ok", "stale"} /\ ChildWeight[i] > 0}
        values == {Effective(result[i]) : i \in answered}
                    \cup (IF ParentWeight > 0 THEN {400 * ParentScore} ELSE {})
    IN
    /\ \A i \in Child : (status[i] = "disabled") = (i \notin enabled)
    /\ \A i \in enabled : (status[i] = "error") = (result[i] = Failed)
    /\ values # {} =>
         /\ \E v \in values : 400 * score >= v - 200
         /\ \E v \in values : 400 * score <= v + 200

=============================================================================
