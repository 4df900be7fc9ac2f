------------------------------ MODULE IdlePool ------------------------------
(***************************************************************************)
(* What the connection pool promises to the client handlers, without its   *)
(* refill protocol: each slot keeps at most MaxIdle idle connections, one   *)
(* appears or several are dropped at any moment, and a handler is handed    *)
(* one that was idle, at most once.                                         *)
(***************************************************************************)
EXTENDS Integers

CONSTANTS Slots, Handlers, MaxIdle

VARIABLES idle,     \* slot -> number of idle connections
          handed    \* the handlers that got one

vars == <<idle, handed>>

Init ==
    /\ idle = [s \in Slots |-> 0]
    /\ handed = {}

Supply(s) ==
    /\ idle[s] < MaxIdle
    /\ idle' = [idle EXCEPT ![s] = @ + 1]
    /\ UNCHANGED handed

\* Entries too old to be used are dropped on the way to the one handed out.
Take(h, s) ==
    /\ h \notin handed
    /\ handed' = handed \cup {h}
    /\ \E n \in 0..(idle[s] - 1) : idle' = [idle EXCEPT ![s] = n]

Drop(s) ==
    /\ \E n \in 0..(idle[s] - 1) : idle' = [idle EXCEPT ![s] = n]
    /\ UNCHANGED handed

Next ==
    \E s \in Slots :
        \/ Supply(s)
        \/ Drop(s)
        \/ \E h \in Handlers : Take(h, s)

Spec == Init /\ [][Next]_vars

=============================================================================
