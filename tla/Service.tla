------------------------------- MODULE Service -------------------------------
(***************************************************************************)
(* What the Rust core promises to the application that hosts it, whatever   *)
(* the threads, tasks and locks behind StartProxy and StopProxy do: at most *)
(* one session is up; it begins on a port on which no session listens, and  *)
(* only a stop ends it; a stop returns before the listener is dropped, so   *)
(* the port stays in use for a while.  A listener never appears without a   *)
(* start, and the one of the session that is up is never dropped.           *)
(***************************************************************************)
CONSTANTS Ports, NoPort

VARIABLES
    up,         \* the port of the session that is up, or NoPort
    open        \* the ports on which sessions listen

vars == <<up, open>>

Init == up = NoPort /\ open = {}

Start(p) ==
    /\ up = NoPort /\ p \notin open
    /\ up' = p
    /\ open' = open \cup {p}

Stop ==
    /\ up # NoPort
    /\ up' = NoPort
    /\ UNCHANGED open

Drop(p) ==
    /\ p \in open /\ p # up
    /\ open' = open \ {p}
    /\ UNCHANGED up

Next == Stop \/ \E p \in Ports : Start(p) \/ Drop(p)

Spec == Init /\ [][Next]_vars

\* iOS takes the sockets of a suspended application: the session is up for
\* the core and for its host, but nobody listens.
Lose ==
    /\ up \in open
    /\ open' = open \ {up}
    /\ UNCHANGED up

SuspendedSpec == Init /\ [][Next \/ Lose]_vars

=============================================================================
