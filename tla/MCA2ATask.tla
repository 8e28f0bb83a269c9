------------------------------- MODULE MCA2ATask -----------------------------
(* Instances of A2ATask for TLC: a client with two callers that repeat one   *)
(* message, and a client with a message of its own and one that is refused.  *)
EXTENDS A2ATask, TLC

CONSTANTS a1, a2, b1, b2, A, B, x, y, z

MCClientOf == a1 :> A @@ a2 :> A @@ b1 :> B @@ b2 :> B

MCMidOf == a1 :> x @@ a2 :> x @@ b1 :> y @@ b2 :> z

PairClientOf == a1 :> A @@ a2 :> A

PairMidOf == a1 :> x @@ a2 :> x
==============================================================================
