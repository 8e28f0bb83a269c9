----------------------------- MODULE MCJsonlQueue ----------------------------
(* Instances of JsonlQueue for TLC. *)
EXTENDS JsonlQueue, TLC

CONSTANTS m1, m2, m3

\* m1 may expire, the others are alike.
Alike == Permutations({m2, m3})

==============================================================================
