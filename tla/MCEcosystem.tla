----------------------------- MODULE MCEcosystem -----------------------------
EXTENDS Ecosystem

MCChildWeight == [i \in Child |-> i - 1]

\* What Stuck calls a knot, told by paths: a child on a cycle leads to itself, and one
\* behind a cycle leads to a child that does.  The two agree for all dependencies d.
KnotsAreCycles ==
  \A d \in [Child -> SUBSET Child] :
    LET to[n \in 0 .. N] ==
          IF n = 0 THEN d
          ELSE [i \in Child |-> to[n - 1][i] \cup UNION {d[j] : j \in to[n - 1][i]}]
        reaches == to[N]
    IN  UNION {S \in SUBSET Child : \A i \in S : d[i] \cap S # {}}
          = {i \in Child : \E j \in reaches[i] \cup {i} : j \in reaches[j]}

ASSUME CyclesAssumption == KnotsAreCycles

=============================================================================
