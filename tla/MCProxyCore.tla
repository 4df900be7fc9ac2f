----------------------------- MODULE MCProxyCore -----------------------------
(* Instances of ProxyCore for TLC. *)
EXTENDS ProxyCore, TLC

CONSTANTS c1, c2, h1, h2, p1, p2

CallersOne == {c1}
CallersTwo == {c1, c2}
HandlersOne == {h1}
HandlersTwo == {h1, h2}
PortsOne == {p1}
PortsTwo == {p1, p2}

\* Clients and ports are interchangeable.
Sym == Permutations(HandlersTwo) \cup Permutations(PortsTwo)
=============================================================================
