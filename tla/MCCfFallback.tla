---------------------------- MODULE MCCfFallback ----------------------------
(* CfFallback with small sets.                                              *)
EXTENDS CfFallback, TLC

CONSTANTS c1, c2, d1, d2, d3

MCClients == {c1, c2}
MCDomains == {d1, d2, d3}
MCThrottled == {d1}

\* Clients and the domains that never throttle are interchangeable.
Sym == Permutations(MCClients) \cup Permutations(MCDomains \ MCThrottled)

=============================================================================
