--------------------------- MODULE MCDashboardBus ----------------------------
(* Instances of DashboardBus for TLC: two publishers, JSONL and SQLite.       *)
EXTENDS DashboardBus, TLC

CONSTANTS p1, p2

MCFirstOffset == [jsonl |-> 0, sqlite |-> 1]

==============================================================================
