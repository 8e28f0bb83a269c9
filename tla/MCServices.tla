----------------------------- MODULE MCServices ------------------------------
(* Instances of Services for TLC: one peer, two ports, requests in pairs.     *)
EXTENDS Services, TLC

CONSTANTS p1, r1, r2, q1, q2
==============================================================================
