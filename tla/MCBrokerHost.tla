---------------------------- MODULE MCBrokerHost -----------------------------
(* Instances of BrokerHost for TLC: two clients, two slots, two work units.   *)
EXTENDS BrokerHost, TLC

CONSTANTS c1, c2, m1, m2, u1, u2

MCOrder == <<"work", "sensor">>

MCSegmentOrder ==
  <<"governance", "work", "sensor">>

HostSymmetry == Permutations(Client) \cup Permutations(Slot) \cup Permutations(Unit)
==============================================================================
