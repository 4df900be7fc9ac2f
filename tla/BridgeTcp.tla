------------------------------ MODULE BridgeTcp ------------------------------
(***************************************************************************)
(* One client bridged over plain TCP: bridge_tcp (src-wrapper/src/proxy.rs).*)
(*                                                                         *)
(* Two futures of one task, joined, carry the bytes: `up` from the client   *)
(* to the data centre, `down` back.  Each waits inside a select! for the    *)
(* session's token, the other side's notify_waiters and a read of at most   *)
(* 120 s.  The write that follows is outside the select!, so a notification *)
(* is lost on a side that writes, and has no timeout in either direction.   *)
(* The ciphers have a mutex each that only one side ever takes.             *)
(***************************************************************************)

Sides == {"up", "down"}

VARIABLES
    token,      \* the session's CancellationToken
    pc,         \* side -> where it is
    woken       \* the sides whose pending `notified()` has fired

vars == <<token, pc, woken>>

-----------------------------------------------------------------------------

TypeOK ==
    /\ token \in BOOLEAN
    /\ pc \in [Sides -> {"select", "write", "leave", "done"}]
    /\ woken \in SUBSET Sides

Init ==
    /\ token = FALSE
    /\ pc = [s \in Sides |-> "select"]
    /\ woken = {}

\* A branch of the select! wins: the notification received so far is dropped.
Goto(s, p) ==
    /\ pc[s] = "select"
    /\ pc' = [pc EXCEPT ![s] = p]
    /\ woken' = woken \ {s}
    /\ UNCHANGED token

\* Mutant of Stopped: no branch for the token.
StoppedByPeer(s) == s \in woken /\ Goto(s, "leave")

Stopped(s) == (token \/ s \in woken) /\ Goto(s, "leave")

Read(s) == Goto(s, "write")

\* Mutant of ReadEnds: no timeout around the read.
ReadEndsNever(s) == FALSE /\ Goto(s, "leave")

\* The end of the stream, an error or 120 s without a byte.
ReadEnds(s) == Goto(s, "leave")

Write(s) ==
    /\ pc[s] = "write"
    /\ \E p \in {"select", "leave"} : pc' = [pc EXCEPT ![s] = p]
    /\ UNCHANGED <<token, woken>>

\* The last statement of each side.
Leave(s) ==
    /\ pc[s] = "leave"
    /\ pc' = [pc EXCEPT ![s] = "done"]
    /\ woken' = (woken \cup {t \in Sides : pc[t] = "select"})
    /\ UNCHANGED token

\* StopProxy.
Cancel ==
    /\ ~token
    /\ token' = TRUE
    /\ UNCHANGED <<pc, woken>>

Step(s) == Stopped(s) \/ Read(s) \/ ReadEnds(s) \/ Write(s) \/ Leave(s)

Next == Cancel \/ \E s \in Sides : Step(s)

Spec == Init /\ [][Next]_vars

\* select! polls its branches in random order, so one that is ready again and
\* again is taken sooner or later.
Fairness == \A s \in Sides : SF_vars(Stopped(s)) /\ WF_vars(Leave(s))

-----------------------------------------------------------------------------
(* Properties *)

\* join! returns, and with it the handler.
Over == \A s \in Sides : pc[s] = "done"

\* What the code cannot enforce: that both peers go on reading ...
PeersRead == \A s \in Sides : WF_vars(Write(s))

\* ... and do not talk for ever.
PeersFallSilent == \A s \in Sides : SF_vars(ReadEnds(s))

\* One side that ends takes the other side along, at the latest when the peers
\* fall silent: the notification may be lost on a side that writes.
OneSideEndsBoth ==
    PeersRead /\ PeersFallSilent => ((\E s \in Sides : pc[s] = "done") ~> Over)

\* A cancelled session ends its bridge as long as both peers go on reading.
CancelEndsReadingBridge == PeersRead => (token ~> Over)

=============================================================================
