---------------------------- MODULE BrokerClients ----------------------------
(* What the brokers of one host share: the callers of BrokerHost::dispatch,   *)
(* each with at most one dispatch under way.                                  *)

CONSTANT Client
==============================================================================
