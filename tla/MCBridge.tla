------------------------------- MODULE MCBridge -------------------------------
(* One bridged client over either transport: BridgeWs, with a count of the   *)
(* writes each task begins too late, or BridgeTcp.  The one that the client  *)
(* does not use is over from the start.                                      *)
EXTENDS BridgeWs

VARIABLES
    late,       \* task -> how often it got the mutex while `closed` was set
    side,       \* BridgeTcp's pc
    sideWoken   \* BridgeTcp's woken

tcpVars == <<side, sideWoken>>
Tcp == INSTANCE BridgeTcp WITH pc <- side, woken <- sideWoken

WsInit == Init /\ side = [s \in Tcp!Sides |-> "done"] /\ sideWoken = {}

TcpInit ==
    /\ Tcp!Init
    /\ pc = [t \in Tasks |-> "done"]
    /\ closed = TRUE /\ eof = FALSE /\ aborted = TRUE /\ torn = FALSE
    /\ woken = {} /\ writers = <<>> /\ closeFrames = 0

HInit == (WsInit \/ TcpInit) /\ late = [t \in Tasks |-> 0]

WsNext ==
    /\ Next
    /\ late' = [t \in Tasks |->
          IF closed' /\ writers' # <<>> /\ Head(writers') = t /\ ~Holds(t)
          THEN late[t] + 1 ELSE late[t]]
    /\ UNCHANGED tcpVars

TcpNext ==
    /\ Tcp!Next
    /\ UNCHANGED <<closed, pc, woken, writers, eof, aborted, io, late>>

HSpec == HInit /\ [][WsNext \/ TcpNext]_<<vars, late, tcpVars>>

HFairSpec == HSpec /\ Fairness /\ Tcp!Fairness

-----------------------------------------------------------------------------
(* Properties *)

\* The flag is tested before the mutex and set by others while a task waits for
\* it, and the answers to control frames do not test it at all.  A connection
\* that failed, and may have lost a part of a frame, still sees at most one
\* more write of each task.
LateWritesBounded == \A t \in Tasks : late[t] <= 1

\* One side that ends takes the other side along, over either transport,
\* although the wakeup of notify_waiters is lost on a task that is not waiting:
\* at the latest when the peers fall silent.
OneSideEndsEither == OneSideEndsBoth /\ Tcp!OneSideEndsBoth

\* A cancelled session ends its bridges, however busy the peers are, as long as
\* they go on reading.
CancelEndsEither == CancelEndsReadingBridge /\ Tcp!CancelEndsReadingBridge

\* What a handler may rely on.  A direction stops when its task leaves the loop.
Carries(p) == p \notin {"leave", "done"}

Abstract ==
    INSTANCE Bridge WITH
        carrying <- {s \in Tcp!Sides : Carries(pc[s]) \/ Carries(side[s])},
        told <- closeFrames,
        over <- pc["main"] = "done" /\ Tcp!Over

\* Both transports keep what Bridge promises.
ImplementsBridge == Abstract!Spec

=============================================================================
