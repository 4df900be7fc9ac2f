-------------------------------- MODULE Bridge --------------------------------
(***************************************************************************)
(* What a bridge promises to handle_client, whichever transport it has: two *)
(* directions carry bytes until each of them has stopped, a direction that  *)
(* has stopped never carries again, the token of the session is never taken *)
(* back, and the call returns only after both have stopped and, unless the  *)
(* connection is gone already, the server has been told once.               *)
(***************************************************************************)
EXTENDS Naturals

VARIABLES
    token,      \* the session is cancelled
    carrying,   \* the directions that still carry bytes
    told,       \* how often the server has been told of the end
    over        \* the call has returned

vars == <<token, carrying, told, over>>

Init ==
    /\ token = FALSE
    /\ carrying = {"up", "down"}
    /\ told = 0
    /\ over = FALSE

Cancel == ~token /\ token' = TRUE /\ UNCHANGED <<carrying, told, over>>

\* The answer to the server's own CLOSE stops the downward direction with it.
Stop(s) ==
    /\ s \in carrying
    /\ carrying' = carrying \ {s}
    /\ \/ told' = told
       \/ s = "down" /\ told = 0 /\ told' = 1
    /\ UNCHANGED <<token, over>>

Return ==
    /\ carrying = {} /\ ~over
    /\ over' = TRUE
    /\ \/ told' = told
       \/ told = 0 /\ told' = 1
    /\ UNCHANGED <<token, carrying>>

Next == Cancel \/ Return \/ \E s \in {"up", "down"} : Stop(s)

Spec == Init /\ [][Next]_vars
=============================================================================
