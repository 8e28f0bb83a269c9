---------------------------- MODULE SnapshotDelta ----------------------------
(***************************************************************************)
(* The snapshot delta a trace record carries instead of the broker's whole *)
(* overlay (neurogrim-brokers, trace.rs).  An overlay is a JSON object: a  *)
(* partial function from top-level keys to values.  Only top-level keys    *)
(* are compared, so a value is opaque here.                                *)
(***************************************************************************)
CONSTANTS Key,   \* top-level keys of an overlay object
          Val    \* values an overlay key can hold

\* Every overlay object over Key and Val.
Overlay == UNION {[S -> Val] : S \in SUBSET Key}

EmptyOverlay == [k \in {} |-> k]

\* SnapshotDelta::compute(prior, current).
Compute(prior, current) ==
  [added   |-> [k \in DOMAIN current \ DOMAIN prior |-> current[k]],
   removed |-> DOMAIN prior \ DOMAIN current,
   changed |-> [k \in {k \in DOMAIN prior \cap DOMAIN current :
                          prior[k] # current[k]} |->
                   [from |-> prior[k], to |-> current[k]]]]

\* The recovery the module documentation of trace.rs promises:
\* apply_delta(prior, delta) = current.  The repository has no such function.
ApplyDelta(prior, delta) ==
  [k \in (DOMAIN prior \ delta.removed) \cup DOMAIN delta.added |->
     IF k \in DOMAIN delta.added THEN delta.added[k]
     ELSE IF k \in DOMAIN delta.changed THEN delta.changed[k].to
     ELSE prior[k]]
==============================================================================
