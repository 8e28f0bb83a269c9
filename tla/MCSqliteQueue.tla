----------------------------- MODULE MCSqliteQueue ---------------------------
(* Instances of SqliteQueue for TLC: a group of two members and one of one. *)
EXTENDS SqliteQueue, TLC

CONSTANTS g1, g2, w1, w2, w3

MCGroupOf == w1 :> g1 @@ w2 :> g1 @@ w3 :> g2

==============================================================================
