------------------------------ MODULE BridgeProofs ------------------------------
(***************************************************************************)
(* Theorems about MCBridge: the connection of a bridge is ended once, a     *)
(* frame is cut short only at its end, each task writes at most once more   *)
(* after a failure, and both transports implement Bridge.                   *)
(***************************************************************************)
EXTENDS MCBridge, TLAPS

Pc(t) ==
    IF t = "down" THEN {"recv", "read", "pong", "reply", "deliver", "leave", "done"}
    ELSE IF t = "main" THEN {"join_up", "join_down", "abort", "close", "write", "done"}
    ELSE {"select", "send", "write", "leave", "done"}

Types ==
    /\ token \in BOOLEAN /\ closed \in BOOLEAN
    /\ closeFrames \in Nat
    /\ DOMAIN pc = Tasks /\ pc = [t \in Tasks |-> pc[t]]
    /\ \A t \in Tasks : pc[t] \in Pc(t)

\* The order in which the tasks end: `main` joins up, then down.
JoinInv ==
    /\ pc["main"] # "join_up" => pc["up"] = "done"
    /\ pc["main"] \notin {"join_up", "join_down"} => pc["down"] = "done"
    /\ aborted => pc["up"] = "done"

\* A CLOSE frame is written, or about to be, only by whoever set the flag first;
\* down may still find it set by a failed write and answer the server's CLOSE.
CloseInv ==
    /\ closeFrames <= 1
    /\ closeFrames = 1 \/ pc["down"] = "reply" \/ pc["main"] = "write" => closed
    /\ pc["down"] \notin {"leave", "done"} => closeFrames = 0
    /\ pc["main"] = "write" => closeFrames = 0

\* down is woken only by a task that knows of the end.
TornInv ==
    /\ TornOnlyAtEnd
    /\ "down" \in woken => closed \/ pc["up"] = "done"
    /\ pc["ping"] = "leave" => closed

WsInv == Types /\ JoinInv /\ CloseInv /\ TornInv

-----------------------------------------------------------------------------

\* Each task moves alone.
Alone(t, p) ==
    /\ pc'[t] = p
    /\ \A u \in Tasks \ {t} : pc'[u] = pc[u]
    /\ DOMAIN pc' = Tasks /\ pc' = [u \in Tasks |-> pc'[u]]

LEMMA GotoFacts ==
    ASSUME Types, NEW t \in Tasks, NEW p, Goto(t, p) \/ NotifyWaiters(t, p)
    PROVE  Alone(t, p)
  BY DEF Types, Goto, NotifyWaiters, Alone

LEMMA GotoWakes ==
    ASSUME NEW t \in Tasks, NEW p, Goto(t, p)
    PROVE  "down" \in woken' => "down" \in woken
  BY DEF Goto

LEMMA UpKeeps ==
    ASSUME WsInv, UpStopped \/ UpRead \/ UpEof \/ UpReadFails \/ Send("up") \/ UpWrite
    PROVE  WsInv' /\ (\A t \in Tasks \ {"up"} : pc'[t] = pc[t]) /\ token' = token
           /\ closeFrames' = closeFrames /\ pc["up"] \notin {"leave", "done"}
           /\ pc'["up"] # "done"
<1>1. PICK p \in {"select", "send", "write", "leave"} : Goto("up", p)
  BY DEF UpStopped, UpRead, UpEof, UpReadFails, Send, UpWrite
<1>2. Alone("up", p) /\ ("down" \in woken' => "down" \in woken)
  BY <1>1, GotoFacts, GotoWakes DEF WsInv, Tasks
<1>3. /\ token' = token /\ closeFrames' = closeFrames /\ aborted' = aborted
      /\ pc["up"] \in {"select", "send", "write"}
      /\ \/ closed' = closed /\ torn' = torn
         \/ closed' = TRUE /\ torn' = TRUE
  BY DEF UpStopped, UpRead, UpEof, UpReadFails, Send, UpWrite, WriteOk, WriteFails, io
<1>4. Types'
  BY <1>2, <1>3 DEF WsInv, Types, Alone, Tasks, Pc
<1>5. JoinInv' /\ CloseInv'
  BY <1>2, <1>3 DEF WsInv, JoinInv, CloseInv, Alone, Tasks
<1>6. TornInv'
  BY <1>2, <1>3 DEF WsInv, TornInv, TornOnlyAtEnd, Alone, Tasks
<1>. QED  BY <1>2, <1>3, <1>4, <1>5, <1>6 DEF WsInv, Alone

LEMMA DownKeeps ==
    ASSUME WsInv,
           DownStopped \/ DownCheck \/ DownFrame \/ DownReadFails \/ DownTimeout
           \/ DownPong \/ DownDeliver
    PROVE  WsInv' /\ (\A t \in Tasks \ {"down"} : pc'[t] = pc[t]) /\ token' = token
           /\ closeFrames' = closeFrames /\ pc["down"] \notin {"leave", "done"}
           /\ pc'["down"] # "done"
<1>1. PICK p \in {"recv", "read", "pong", "reply", "deliver", "leave"} : Goto("down", p)
  BY DEF DownStopped, DownCheck, DownFrame, DownReadFails, DownTimeout, DownPong, DownDeliver
<1>2. Alone("down", p) /\ ("down" \in woken' => "down" \in woken)
  BY <1>1, GotoFacts, GotoWakes DEF WsInv, Tasks
<1>3. /\ token' = token /\ closeFrames' = closeFrames /\ aborted' = aborted
      /\ pc["down"] \in {"recv", "read", "pong", "reply", "deliver"}
      /\ closed => closed'
      /\ closed' \in BOOLEAN
  BY DEF DownStopped, DownCheck, DownFrame, DownReadFails, DownTimeout, DownPong,
         DownDeliver, WriteOk, WriteFails, io, InSelect, WsInv, Types
<1>4. pc'["down"] = "reply" => closed'
  <2>1. CASE DownFrame
    BY <1>2, <2>1 DEF DownFrame, Goto, Alone, WsInv, Types, Tasks
  <2>2. CASE DownStopped \/ DownCheck \/ DownReadFails \/ DownTimeout \/ DownPong \/ DownDeliver
    BY <1>2, <2>2 DEF DownStopped, DownCheck, DownReadFails, DownTimeout, DownPong,
                      DownDeliver, Goto, Alone, WsInv, Types, Tasks
  <2>. QED  BY <2>1, <2>2
<1>5. Types'
  BY <1>2, <1>3 DEF WsInv, Types, Alone, Tasks, Pc
<1>6. JoinInv' /\ CloseInv'
  BY <1>2, <1>3, <1>4 DEF WsInv, JoinInv, CloseInv, Alone, Tasks
<1>7. torn' => torn \/ closed' \/ token \/ pc["up"] = "done"
  BY DEF DownStopped, DownCheck, DownFrame, DownReadFails, DownTimeout, DownPong,
         DownDeliver, WriteOk, WriteFails, io, WsInv, TornInv
<1>8. TornInv'
  BY <1>2, <1>3, <1>7 DEF WsInv, TornInv, TornOnlyAtEnd, Alone, Tasks
<1>. QED  BY <1>2, <1>3, <1>5, <1>6, <1>8 DEF WsInv, Alone

LEMMA ReplyKeeps ==
    ASSUME WsInv, DownReply
    PROVE  WsInv' /\ (\A t \in Tasks \ {"down"} : pc'[t] = pc[t]) /\ token' = token
           /\ closeFrames = 0 /\ closeFrames' = 1 /\ pc["down"] = "reply"
           /\ pc'["down"] = "leave"
<1>1. Alone("down", "leave") /\ ("down" \in woken' => "down" \in woken)
  BY GotoFacts, GotoWakes DEF WsInv, Tasks, DownReply
<1>2. /\ token' = token /\ aborted' = aborted /\ pc["down"] = "reply"
      /\ closeFrames' = closeFrames + 1
      /\ closed' = closed \/ closed' = TRUE
  BY DEF DownReply, WriteOk, WriteFails
<1>5. /\ closeFrames = 0 /\ closed /\ closed \in BOOLEAN
      /\ pc["main"] # "write"
  BY <1>2 DEF WsInv, CloseInv, JoinInv, Types
<1>6. closeFrames' = 1
  BY <1>2, <1>5
<1>7. closed' /\ closed' \in BOOLEAN
  BY <1>2, <1>5
<1>3. Types' /\ JoinInv' /\ CloseInv'
  BY <1>1, <1>2, <1>5, <1>6, <1>7 DEF WsInv, Types, JoinInv, CloseInv, Alone, Tasks, Pc
<1>4. TornInv'
  BY <1>1, <1>2, <1>5, <1>6, <1>7 DEF WsInv, TornInv, TornOnlyAtEnd, Alone, Tasks
<1>. QED  BY <1>1, <1>2, <1>5, <1>6, <1>7, <1>3, <1>4 DEF WsInv, Alone

LEMMA LeaveKeeps ==
    ASSUME WsInv, NEW t \in {"up", "down", "ping"}, Leave(t)
    PROVE  WsInv' /\ (\A u \in Tasks \ {t} : pc'[u] = pc[u]) /\ token' = token
           /\ closeFrames' = closeFrames /\ pc[t] = "leave" /\ pc'[t] = "done"
<1>1. Alone(t, "done") /\ pc[t] = "leave" /\ t \in Tasks
  BY GotoFacts DEF WsInv, Leave, Tasks
<1>2. /\ UNCHANGED <<token, closed, aborted, torn, closeFrames>>
      /\ t = "down" => "down" \notin woken'
  BY DEF Leave, NotifyWaiters, io
<1>3. Types' /\ JoinInv' /\ CloseInv'
  BY <1>1, <1>2 DEF WsInv, Types, JoinInv, CloseInv, Alone, Tasks, Pc
<1>4. TornInv'
  BY <1>1, <1>2 DEF WsInv, TornInv, TornOnlyAtEnd, Alone, Tasks
<1>. QED  BY <1>1, <1>2, <1>3, <1>4 DEF WsInv, Alone

LEMMA PingKeeps ==
    ASSUME WsInv, PingStopped \/ PingDue \/ Send("ping") \/ PingWrite \/ PingAborted
    PROVE  WsInv' /\ (\A t \in Tasks \ {"ping"} : pc'[t] = pc[t]) /\ token' = token
           /\ closeFrames' = closeFrames /\ pc["ping"] # "done"
<1>1. PICK p \in {"select", "send", "write", "leave", "done"} : Goto("ping", p)
  BY DEF PingStopped, PingDue, Send, PingWrite, PingAborted
<1>2. Alone("ping", p) /\ ("down" \in woken' => "down" \in woken)
  BY <1>1, GotoFacts, GotoWakes DEF WsInv, Tasks
<1>3. /\ token' = token /\ closeFrames' = closeFrames /\ aborted' = aborted
      /\ closed => closed'
      /\ closed' \in BOOLEAN /\ pc["ping"] # "done"
  BY DEF PingStopped, PingDue, Send, PingWrite, PingAborted, WriteOk, WriteFails, io,
         WsInv, Types
<1>4. pc'["ping"] = "leave" => closed'
  <2>1. CASE PingStopped \/ PingDue \/ PingAborted
    BY <1>2, <2>1 DEF PingStopped, PingDue, PingAborted, Goto, Alone, WsInv, Types, Tasks
  <2>2. CASE Send("ping")
    BY <1>2, <2>2 DEF Send, Goto, Alone, WsInv, Types, Tasks
  <2>3. CASE PingWrite
    BY <1>2, <2>3 DEF PingWrite, WriteFails, Goto, Alone, WsInv, Types, Tasks
  <2>. QED  BY <2>1, <2>2, <2>3
<1>5. torn' => torn \/ closed' \/ pc["up"] = "done"
  BY DEF PingStopped, PingDue, Send, PingWrite, PingAborted, WriteOk, WriteFails, io,
         WsInv, JoinInv
<1>6. Types' /\ JoinInv' /\ CloseInv'
  BY <1>2, <1>3 DEF WsInv, Types, JoinInv, CloseInv, Alone, Tasks, Pc
<1>7. TornInv'
  BY <1>2, <1>3, <1>4, <1>5 DEF WsInv, TornInv, TornOnlyAtEnd, Alone, Tasks
<1>. QED  BY <1>2, <1>3, <1>6, <1>7 DEF WsInv, Alone

LEMMA MainKeeps ==
    ASSUME WsInv, Join \/ Abort \/ Close \/ CloseWrite
    PROVE  WsInv' /\ (\A t \in Tasks \ {"main"} : pc'[t] = pc[t]) /\ token' = token
           /\ pc["main"] # "done"
           /\ \/ pc'["main"] # "done" /\ closeFrames' = closeFrames
              \/ /\ pc'["main"] = "done" /\ pc["up"] = "done" /\ pc["down"] = "done"
                 /\ closeFrames' = closeFrames \/ (closeFrames = 0 /\ closeFrames' = 1)
<1>1. CASE Join
  <2>1. PICK p \in {"join_down", "abort"} :
           /\ Goto("main", p)
           /\ p = "join_down" => pc["main"] = "join_up" /\ pc["up"] = "done"
           /\ p = "abort" => pc["main"] = "join_down" /\ pc["down"] = "done"
    BY <1>1 DEF Join
  <2>2. Alone("main", p) /\ ("down" \in woken' => "down" \in woken)
    BY <2>1, GotoFacts, GotoWakes DEF WsInv, Tasks
  <2>3. UNCHANGED <<token, closed, aborted, torn, closeFrames>>
    BY <1>1 DEF Join, io
  <2>4. Types' /\ JoinInv' /\ CloseInv' /\ TornInv'
    BY <2>1, <2>2, <2>3
       DEF WsInv, Types, JoinInv, CloseInv, TornInv, TornOnlyAtEnd, Alone, Tasks, Pc
  <2>. QED  BY <2>1, <2>2, <2>3, <2>4 DEF WsInv, Alone, Tasks
<1>2. CASE Abort
  <2>1. Alone("main", "close") /\ pc["main"] = "abort"
    BY <1>2, GotoFacts DEF WsInv, Tasks, Abort
  <2>2. UNCHANGED <<token, closed, torn, closeFrames>>
    BY <1>2 DEF Abort, io
  <2>3. pc["up"] = "done" /\ pc["down"] = "done"
    BY <2>1 DEF WsInv, JoinInv
  <2>4. Types' /\ JoinInv' /\ CloseInv' /\ TornInv'
    BY <2>1, <2>2, <2>3
       DEF WsInv, Types, JoinInv, CloseInv, TornInv, TornOnlyAtEnd, Alone, Tasks, Pc
  <2>. QED  BY <2>1, <2>2, <2>4 DEF WsInv, Alone, Tasks
<1>3. CASE Close
  <2>1. PICK p \in {"done", "write"} :
           Goto("main", p) /\ (p = "done" <=> closed) /\ (p = "write" <=> ~closed)
    BY <1>3 DEF Close
  <2>2. Alone("main", p) /\ ("down" \in woken' => "down" \in woken)
    BY <2>1, GotoFacts, GotoWakes DEF WsInv, Tasks
  <2>3. UNCHANGED <<token, aborted, torn, closeFrames>> /\ closed' = TRUE
        /\ pc["main"] = "close"
    BY <1>3 DEF Close, io
  <2>4. pc["up"] = "done" /\ pc["down"] = "done"
    BY <2>3 DEF WsInv, JoinInv
  <2>5. p = "write" => closeFrames = 0
    BY <2>1 DEF WsInv, CloseInv, Types
  <2>6. Types' /\ JoinInv' /\ CloseInv' /\ TornInv'
    BY <2>1, <2>2, <2>3, <2>4, <2>5
       DEF WsInv, Types, JoinInv, CloseInv, TornInv, TornOnlyAtEnd, Alone, Tasks, Pc
  <2>. QED  BY <2>1, <2>2, <2>3, <2>4, <2>6 DEF WsInv, Alone, Tasks
<1>4. CASE CloseWrite
  <2>1. Alone("main", "done") /\ ("down" \in woken' => "down" \in woken)
    BY <1>4, GotoFacts, GotoWakes DEF WsInv, Tasks, CloseWrite
  <2>2. /\ pc["main"] = "write" /\ closeFrames' = closeFrames + 1
        /\ token' = token /\ aborted' = aborted
        /\ closed' = closed \/ closed' = TRUE
    BY <1>4 DEF CloseWrite, WriteOk, WriteFails
  <2>3. /\ pc["up"] = "done" /\ pc["down"] = "done" /\ closed
        /\ closeFrames = 0 /\ closeFrames' = 1
    BY <2>2 DEF WsInv, JoinInv, CloseInv, Types
  <2>5. closed' /\ closed' \in BOOLEAN
    BY <2>2, <2>3 DEF WsInv, Types
  <2>4. Types' /\ JoinInv' /\ CloseInv' /\ TornInv'
    BY <2>1, <2>2, <2>3, <2>5
       DEF WsInv, Types, JoinInv, CloseInv, TornInv, TornOnlyAtEnd, Alone, Tasks, Pc
  <2>. QED  BY <2>1, <2>2, <2>3, <2>4 DEF WsInv, Alone, Tasks
<1>. QED  BY <1>1, <1>2, <1>3, <1>4

-----------------------------------------------------------------------------
(* Either transport.                                                         *)

WsMode == \A s \in Tcp!Sides : side[s] = "done"

TcpMode ==
    /\ \A t \in Tasks : pc[t] = "done"
    /\ side \in [Tcp!Sides -> {"select", "write", "leave", "done"}]

BridgeInv == WsInv /\ (WsMode \/ TcpMode)

\* The mapping, by name.
carryingNow == {s \in Tcp!Sides : Carries(pc[s]) \/ Carries(side[s])}
overNow == pc["main"] = "done" /\ Tcp!Over

\* A step of the abstract bridge, or none.
AbstractStep ==
    \/ /\ ~token /\ token' = TRUE
       /\ UNCHANGED <<carryingNow, closeFrames, overNow>>
    \/ /\ \E s \in carryingNow :
             /\ carryingNow' = carryingNow \ {s}
             /\ \/ closeFrames' = closeFrames
                \/ s = "down" /\ closeFrames = 0 /\ closeFrames' = 1
       /\ UNCHANGED <<token, overNow>>
    \/ /\ carryingNow = {} /\ ~overNow /\ overNow'
       /\ closeFrames' = closeFrames \/ (closeFrames = 0 /\ closeFrames' = 1)
       /\ UNCHANGED <<token, carryingNow>>
    \/ UNCHANGED <<token, carryingNow, closeFrames, overNow>>

LEMMA StepIsAbstract ==
    ASSUME AbstractStep
    PROVE  [Abstract!Next]_(Abstract!vars)
<1>1. overNow \in BOOLEAN /\ overNow' \in BOOLEAN
  BY DEF overNow
<1>. QED
  BY <1>1 DEF AbstractStep, Abstract!Next, Abstract!vars, Abstract!Cancel, Abstract!Stop,
              Abstract!Return, carryingNow, overNow, Tcp!Sides

\* A task of the WebSocket bridge that moves alone.
LEMMA WsMoves ==
    ASSUME WsMode, side' = side, token' = token,
           \/ /\ \E t \in {"up", "down"} :
                    /\ \A u \in Tasks \ {t} : pc'[u] = pc[u]
                    /\ Carries(pc[t])
                    /\ \/ closeFrames' = closeFrames
                       \/ ~Carries(pc'[t]) /\ t = "down"
                          /\ closeFrames = 0 /\ closeFrames' = 1
           \/ /\ \A u \in {"up", "down"} : Carries(pc'[u]) <=> Carries(pc[u])
              /\ pc'["main"] = "done" <=> pc["main"] = "done"
              /\ closeFrames' = closeFrames
    PROVE  AbstractStep
<1>1. Tcp!Sides = {"up", "down"} /\ ~Carries("done") /\ Tasks = {"up", "down", "ping", "main"}
  BY DEF Tcp!Sides, Carries, Tasks
<1>2. /\ carryingNow = {s \in {"up", "down"} : Carries(pc[s])}
      /\ carryingNow' = {s \in {"up", "down"} : Carries(pc'[s])}
  BY <1>1 DEF WsMode, carryingNow, Carries
<1>3. Tcp!Over /\ Tcp!Over'
  BY DEF WsMode, Tcp!Over
<1>4. ASSUME NEW t \in {"up", "down"}, \A u \in Tasks \ {t} : pc'[u] = pc[u], Carries(pc[t]),
             \/ closeFrames' = closeFrames
             \/ ~Carries(pc'[t]) /\ t = "down" /\ closeFrames = 0 /\ closeFrames' = 1
      PROVE  AbstractStep
  <2>1. overNow' = overNow
    BY <1>1, <1>3, <1>4 DEF overNow
  <2>2. CASE Carries(pc'[t])
    <3>1. carryingNow' = carryingNow /\ closeFrames' = closeFrames
      BY <1>1, <1>2, <1>4, <2>2
    <3>. QED  BY <2>1, <3>1 DEF AbstractStep
  <2>3. CASE ~Carries(pc'[t])
    <3>1. t \in carryingNow /\ carryingNow' = carryingNow \ {t}
      BY <1>1, <1>2, <1>4, <2>3
    <3>. QED  BY <1>4, <2>1, <3>1 DEF AbstractStep
  <2>. QED  BY <2>2, <2>3
<1>5. ASSUME \A u \in {"up", "down"} : Carries(pc'[u]) <=> Carries(pc[u]),
             pc'["main"] = "done" <=> pc["main"] = "done", closeFrames' = closeFrames
      PROVE  AbstractStep
  BY <1>2, <1>3, <1>5 DEF AbstractStep, overNow
<1>. QED  BY <1>4, <1>5

\* Which actions the WebSocket bridge takes.
LEMMA WsCases ==
    ASSUME Next
    PROVE  \/ UpStopped \/ UpRead \/ UpEof \/ UpReadFails \/ Send("up") \/ UpWrite
           \/ DownStopped \/ DownCheck \/ DownFrame \/ DownReadFails \/ DownTimeout
           \/ DownPong \/ DownDeliver \/ DownReply
           \/ Leave("up") \/ Leave("down") \/ Leave("ping")
           \/ PingStopped \/ PingDue \/ Send("ping") \/ PingWrite \/ PingAborted
           \/ Join \/ Abort \/ Close \/ CloseWrite
           \/ Cancel
  BY DEF Next, UpRuns, DownRuns, PingRuns, MainRuns, Outside

LEMMA CancelKeeps ==
    ASSUME WsInv, ~token, token' = TRUE,
           UNCHANGED <<closed, pc, woken, aborted, torn, closeFrames>>
    PROVE  WsInv'
  BY DEF WsInv, Types, JoinInv, CloseInv, TornInv, TornOnlyAtEnd

LEMMA CancelMaps ==
    ASSUME ~token, token' = TRUE, UNCHANGED <<pc, side, closeFrames>>
    PROVE  AbstractStep
  BY DEF AbstractStep, carryingNow, overNow, Tcp!Over

LEMMA WsStep ==
    ASSUME BridgeInv, WsNext
    PROVE  BridgeInv' /\ AbstractStep
<1>1. side' = side /\ Next
  BY DEF WsNext, tcpVars
<1>2. CASE Cancel
  <2>1. ~token /\ token' = TRUE /\ UNCHANGED <<closed, pc, woken, aborted, torn, closeFrames>>
    BY <1>2 DEF Cancel, io
  <2>2. WsInv'
    BY <2>1, CancelKeeps DEF BridgeInv
  <2>3. AbstractStep
    BY <1>1, <2>1, CancelMaps
  <2>. QED  BY <1>1, <2>1, <2>2, <2>3 DEF BridgeInv, WsMode, TcpMode
<1>3. CASE ~Cancel
  <2>1. ~(\A t \in Tasks : pc[t] = "done")
    BY <1>1, <1>3, WsCases
       DEF UpStopped, UpRead, UpEof, UpReadFails, Send, UpWrite, DownStopped, DownCheck,
           DownFrame, DownReadFails, DownTimeout, DownPong, DownDeliver, DownReply, Leave,
           PingStopped, PingDue, PingWrite, PingAborted, Join, Abort, Close, CloseWrite,
           Tasks, InSelect
  <2>2. WsMode /\ WsMode' /\ WsInv
    BY <1>1, <2>1 DEF BridgeInv, WsMode, TcpMode
  <2>3. CASE UpStopped \/ UpRead \/ UpEof \/ UpReadFails \/ Send("up") \/ UpWrite
    <3>1. WsInv' /\ (\A t \in Tasks \ {"up"} : pc'[t] = pc[t]) /\ token' = token
          /\ closeFrames' = closeFrames /\ Carries(pc["up"])
      BY <2>2, <2>3, UpKeeps DEF Carries
    <3>2. AbstractStep
      BY <1>1, <2>2, <3>1, WsMoves
    <3>. QED  BY <2>2, <3>1, <3>2 DEF BridgeInv
  <2>4. CASE DownStopped \/ DownCheck \/ DownFrame \/ DownReadFails \/ DownTimeout
             \/ DownPong \/ DownDeliver
    <3>1. WsInv' /\ (\A t \in Tasks \ {"down"} : pc'[t] = pc[t]) /\ token' = token
          /\ closeFrames' = closeFrames /\ Carries(pc["down"])
      BY <2>2, <2>4, DownKeeps DEF Carries
    <3>2. AbstractStep
      BY <1>1, <2>2, <3>1, WsMoves
    <3>. QED  BY <2>2, <3>1, <3>2 DEF BridgeInv
  <2>5. CASE DownReply
    <3>1. WsInv' /\ (\A t \in Tasks \ {"down"} : pc'[t] = pc[t]) /\ token' = token
          /\ closeFrames = 0 /\ closeFrames' = 1 /\ Carries(pc["down"])
          /\ ~Carries(pc'["down"])
      BY <2>2, <2>5, ReplyKeeps DEF Carries
    <3>2. AbstractStep
      BY <1>1, <2>2, <3>1, WsMoves
    <3>. QED  BY <2>2, <3>1, <3>2 DEF BridgeInv
  <2>6. ASSUME NEW t \in {"up", "down", "ping"}, Leave(t)
        PROVE  BridgeInv' /\ AbstractStep
    <3>1. WsInv' /\ (\A u \in Tasks \ {t} : pc'[u] = pc[u]) /\ token' = token
          /\ closeFrames' = closeFrames /\ pc[t] = "leave" /\ pc'[t] = "done"
      BY <2>2, <2>6, LeaveKeeps
    <3>2. (\A u \in {"up", "down"} : Carries(pc'[u]) <=> Carries(pc[u]))
          /\ pc'["main"] = pc["main"]
      BY <3>1 DEF Carries, Tasks
    <3>3. AbstractStep
      BY <1>1, <2>2, <3>1, <3>2, WsMoves
    <3>. QED  BY <2>2, <3>1, <3>3 DEF BridgeInv
  <2>7. CASE PingStopped \/ PingDue \/ Send("ping") \/ PingWrite \/ PingAborted
    <3>1. WsInv' /\ (\A t \in Tasks \ {"ping"} : pc'[t] = pc[t]) /\ token' = token
          /\ closeFrames' = closeFrames
      BY <2>2, <2>7, PingKeeps
    <3>2. (\A u \in {"up", "down"} : Carries(pc'[u]) <=> Carries(pc[u]))
          /\ pc'["main"] = pc["main"]
      BY <3>1 DEF Tasks
    <3>3. AbstractStep
      BY <1>1, <2>2, <3>1, <3>2, WsMoves
    <3>. QED  BY <2>2, <3>1, <3>3 DEF BridgeInv
  <2>8. CASE Join \/ Abort \/ Close \/ CloseWrite
    <3>1. WsInv' /\ (\A t \in Tasks \ {"main"} : pc'[t] = pc[t]) /\ token' = token
          /\ pc["main"] # "done"
      BY <2>2, <2>8, MainKeeps
    <3>2. \A u \in {"up", "down"} : pc'[u] = pc[u]
      BY <3>1 DEF Tasks
    <3>3. CASE pc'["main"] # "done" /\ closeFrames' = closeFrames
      BY <1>1, <2>2, <3>1, <3>2, <3>3, WsMoves DEF BridgeInv
    <3>4. CASE /\ pc'["main"] = "done" /\ pc["up"] = "done" /\ pc["down"] = "done"
               /\ closeFrames' = closeFrames \/ (closeFrames = 0 /\ closeFrames' = 1)
      <4>1. carryingNow = {} /\ carryingNow' = {}
        BY <1>1, <2>2, <3>2, <3>4 DEF carryingNow, Carries, WsMode, Tcp!Sides
      <4>2. ~overNow /\ overNow'
        BY <2>2, <3>1, <3>4 DEF overNow, WsMode, Tcp!Over
      <4>3. AbstractStep
        BY <3>1, <3>4, <4>1, <4>2 DEF AbstractStep
      <4>. QED  BY <2>2, <3>1, <4>3 DEF BridgeInv
    <3>. QED  BY <2>2, <2>8, <3>3, <3>4, MainKeeps
  <2>. QED  BY <1>1, <1>3, <2>3, <2>4, <2>5, <2>6, <2>7, <2>8, WsCases
<1>. QED  BY <1>2, <1>3

LEMMA TcpStep ==
    ASSUME BridgeInv, TcpNext
    PROVE  BridgeInv' /\ AbstractStep
<1>1. /\ UNCHANGED <<closed, pc, woken, aborted, torn, closeFrames>>
      /\ Tcp!Next
  BY DEF TcpNext, io
<1>2. CASE Tcp!Cancel
  <2>1. ~token /\ token' = TRUE /\ side' = side
    BY <1>2 DEF Tcp!Cancel
  <2>2. WsInv'
    BY <1>1, <2>1, CancelKeeps DEF BridgeInv
  <2>3. AbstractStep
    BY <1>1, <2>1, CancelMaps
  <2>. QED  BY <1>1, <2>1, <2>2, <2>3 DEF BridgeInv, WsMode, TcpMode
<1>3. ASSUME NEW s \in Tcp!Sides, Tcp!Step(s)
      PROVE  BridgeInv' /\ AbstractStep
  <2>1. token' = token /\ side[s] # "done"
    BY <1>3 DEF Tcp!Step, Tcp!Stopped, Tcp!Read, Tcp!ReadEnds, Tcp!Write, Tcp!Leave, Tcp!Goto
  <2>2. TcpMode /\ WsInv
    BY <2>1 DEF BridgeInv, WsMode
  <2>3. WsInv'
    BY <1>1, <2>1, <2>2 DEF WsInv, Types, JoinInv, CloseInv, TornInv, TornOnlyAtEnd
  <2>4. \E p \in {"select", "write", "leave", "done"} :
           /\ side' = [side EXCEPT ![s] = p]
           /\ \/ side[s] = "leave" /\ p = "done"
              \/ side[s] \in {"select", "write"} /\ p # "done"
    BY <1>3 DEF Tcp!Step, Tcp!Stopped, Tcp!Read, Tcp!ReadEnds, Tcp!Write, Tcp!Leave, Tcp!Goto
  <2>5. TcpMode'
    BY <1>1, <2>2, <2>4 DEF TcpMode
  <2>6. /\ \A u \in Tcp!Sides \ {s} : side'[u] = side[u]
        /\ \/ side[s] = "leave" /\ side'[s] = "done"
           \/ side[s] \in {"select", "write"} /\ side'[s] # "done"
    BY <2>2, <2>4 DEF TcpMode
  <2>7. /\ carryingNow = {u \in Tcp!Sides : Carries(side[u])}
        /\ carryingNow' = {u \in Tcp!Sides : Carries(side'[u])}
        /\ overNow = Tcp!Over /\ overNow' = Tcp!Over'
    BY <1>1, <2>2 DEF carryingNow, overNow, TcpMode, Carries, Tasks, Tcp!Sides, Tcp!Over
  <2>10. overNow \in BOOLEAN /\ overNow' \in BOOLEAN
    BY DEF overNow
  <2>8. CASE side[s] = "leave" /\ side'[s] = "done"
    <3>1. carryingNow' = carryingNow /\ ~overNow /\ overNow \in BOOLEAN /\ overNow' \in BOOLEAN
      BY <2>6, <2>7, <2>8 DEF Carries, Tcp!Over, overNow
    <3>2. CASE overNow'
      <4>1. carryingNow' = {}
        BY <2>7, <3>2 DEF Tcp!Over, Carries
      <4>. QED  BY <1>1, <2>1, <2>3, <2>5, <3>1, <3>2, <4>1 DEF AbstractStep, BridgeInv
    <3>3. CASE ~overNow'
      BY <1>1, <2>1, <2>3, <2>5, <3>1, <3>3 DEF AbstractStep, BridgeInv
    <3>. QED  BY <3>2, <3>3
  <2>9. CASE side[s] \in {"select", "write"} /\ side'[s] # "done"
    <3>1. s \in carryingNow /\ ~overNow /\ ~overNow'
      BY <2>7, <2>9 DEF Carries, Tcp!Over
    <3>2. CASE Carries(side'[s])
      <4>1. carryingNow' = carryingNow
        BY <2>6, <2>7, <2>9, <3>2 DEF Carries
      <4>. QED  BY <1>1, <2>1, <2>3, <2>5, <2>10, <3>1, <4>1 DEF AbstractStep, BridgeInv
    <3>3. CASE ~Carries(side'[s])
      <4>1. carryingNow' = carryingNow \ {s}
        BY <2>6, <2>7, <2>9, <3>3 DEF Carries
      <4>. QED  BY <1>1, <2>1, <2>3, <2>5, <2>10, <3>1, <4>1 DEF AbstractStep, BridgeInv
    <3>. QED  BY <3>2, <3>3
  <2>. QED  BY <2>6, <2>8, <2>9
<1>. QED  BY <1>1, <1>2, <1>3 DEF Tcp!Next

LEMMA StutterStep ==
    ASSUME BridgeInv, UNCHANGED <<vars, late, tcpVars>>
    PROVE  BridgeInv' /\ AbstractStep
  BY DEF BridgeInv, WsInv, Types, JoinInv, CloseInv, TornInv, TornOnlyAtEnd, WsMode, TcpMode,
         AbstractStep, carryingNow, overNow, Tcp!Over, vars, io, tcpVars

LEMMA StartMaps ==
    ASSUME token = FALSE, carryingNow = {"up", "down"}, closeFrames = 0, overNow = FALSE
    PROVE  Abstract!Init
  BY DEF Abstract!Init, carryingNow, overNow

LEMMA BridgeInit ==
    ASSUME HInit
    PROVE  BridgeInv /\ Abstract!Init
<1>1. CASE WsInit
  <2>1. /\ closeFrames = 0 /\ token = FALSE /\ closed = FALSE /\ aborted = FALSE
        /\ torn = FALSE /\ woken = {} /\ pc["main"] = "join_up"
        /\ pc["up"] = "select" /\ pc["down"] = "recv" /\ pc["ping"] = "select"
        /\ DOMAIN pc = Tasks /\ pc = [t \in Tasks |-> pc[t]]
    BY <1>1 DEF WsInit, Init, Tasks
  <2>2. WsMode
    BY <1>1 DEF WsInit, WsMode
  <2>3. WsInv
    <3>1. Types
      BY <2>1 DEF Types, Tasks, Pc
    <3>2. JoinInv /\ CloseInv /\ TornInv
      BY <2>1 DEF JoinInv, CloseInv, TornInv, TornOnlyAtEnd, Tasks
    <3>. QED  BY <3>1, <3>2 DEF WsInv
  <2>4. carryingNow = {"up", "down"} /\ overNow = FALSE
    BY <2>1 DEF carryingNow, overNow, Carries, Tcp!Sides
  <2>. QED  BY <2>1, <2>2, <2>3, <2>4, StartMaps DEF BridgeInv
<1>2. CASE TcpInit
  <2>1. /\ closeFrames = 0 /\ token = FALSE /\ closed = TRUE /\ aborted = TRUE
        /\ torn = FALSE /\ woken = {} /\ (\A t \in Tasks : pc[t] = "done")
        /\ DOMAIN pc = Tasks /\ pc = [t \in Tasks |-> pc[t]]
        /\ side = [s \in Tcp!Sides |-> "select"]
    BY <1>2 DEF TcpInit, Tcp!Init
  <2>2. TcpMode /\ \A s \in Tcp!Sides : side[s] = "select"
    BY <2>1 DEF TcpMode
  <2>3. WsInv
    <3>1. Types
      BY <2>1 DEF Types, Tasks, Pc
    <3>2. JoinInv /\ CloseInv /\ TornInv
      BY <2>1 DEF JoinInv, CloseInv, TornInv, TornOnlyAtEnd, Tasks
    <3>. QED  BY <3>1, <3>2 DEF WsInv
  <2>4. carryingNow = {"up", "down"} /\ overNow = FALSE
    BY <2>2 DEF carryingNow, overNow, Carries, Tcp!Sides, Tcp!Over
  <2>. QED  BY <2>1, <2>2, <2>3, <2>4, StartMaps DEF BridgeInv
<1>. QED  BY <1>1, <1>2 DEF HInit

-----------------------------------------------------------------------------
(* Writes that begin late.                                                   *)

\* The tasks that hold the mutex or wait for it.
Waits(t) == IF t = "down" THEN pc[t] \in {"pong", "reply"} ELSE pc[t] = "write"

\* Everyone in the queue waits, and stands there once.
WaitInv ==
    /\ writers \in Seq(Tasks)
    /\ \A i, j \in 1..Len(writers) : writers[i] = writers[j] => i = j
    /\ \A i \in 1..Len(writers) : Waits(writers[i])

\* Where a task will not ask for the mutex again once `closed` is set.
Spent(t) ==
    IF t = "down" THEN pc[t] \in {"recv", "leave", "done"}
    ELSE IF t = "main" THEN pc[t] = "done"
    ELSE pc[t] # "write"

\* A task that got the mutex late either has it still or is spent.
LateInv ==
    /\ late = [t \in Tasks |-> late[t]]
    /\ \A t \in Tasks :
          /\ late[t] \in {0, 1}
          /\ late[t] = 1 => closed /\ (Holds(t) \/ Spent(t))

\* t joins the queue at its end.
LEMMA AskFacts ==
    ASSUME WaitInv, NEW t \in Tasks, Ask(t)
    PROVE  /\ writers' \in Seq(Tasks) /\ Len(writers') = Len(writers) + 1
           /\ \A i \in 1..Len(writers) : writers'[i] = writers[i]
           /\ writers'[Len(writers) + 1] = t
           /\ \A u \in Tasks : Holds(u) => Holds(u)'
           /\ \A u \in Tasks \ {t} : Holds(u)' => Holds(u)
  BY DEF WaitInv, Ask, Holds

LEMMA Joined ==
    ASSUME NEW S, NEW a \in Seq(S), NEW b \in Seq(S)
    PROVE  /\ a \o b \in Seq(S) /\ Len(a \o b) = Len(a) + Len(b)
           /\ \A i \in 1..(Len(a) + Len(b)) :
                 (a \o b)[i] = IF i <= Len(a) THEN a[i] ELSE b[i - Len(a)]
  OBVIOUS

\* t leaves the queue, if it stands there; the others keep their order.
LEMMA ReleaseFacts ==
    ASSUME WaitInv, NEW t \in Tasks, Release(t)
    PROVE  /\ writers' \in Seq(Tasks)
           /\ \A i, j \in 1..Len(writers') : writers'[i] = writers'[j] => i = j
           /\ \A i \in 1..Len(writers') :
                 writers'[i] # t /\ \E j \in 1..Len(writers) : writers'[i] = writers[j]
           /\ \A u \in Tasks \ {t} : Holds(u) => Holds(u)'
<1>1. writers \in Seq(Tasks) /\ \A i, j \in 1..Len(writers) : writers[i] = writers[j] => i = j
  BY DEF WaitInv
<1>2. CASE t \notin Range(writers) /\ UNCHANGED writers
  BY <1>1, <1>2 DEF Range, Holds
<1>3. CASE \E i \in DOMAIN writers : writers[i] = t /\ writers' = RemoveAt(writers, i)
  <2>1. PICK k \in 1..Len(writers) : writers[k] = t /\ writers' = RemoveAt(writers, k)
    BY <1>1, <1>3
  <2>2. /\ SubSeq(writers, 1, k - 1) \in Seq(Tasks) /\ Len(SubSeq(writers, 1, k - 1)) = k - 1
        /\ \A i \in 1..(k - 1) : SubSeq(writers, 1, k - 1)[i] = writers[i]
    BY <1>1, <2>1
  <2>3. /\ SubSeq(writers, k + 1, Len(writers)) \in Seq(Tasks)
        /\ Len(SubSeq(writers, k + 1, Len(writers))) = Len(writers) - k
        /\ \A i \in 1..(Len(writers) - k) :
              SubSeq(writers, k + 1, Len(writers))[i] = writers[i + k]
    BY <1>1, <2>1
  <2>4. /\ writers' \in Seq(Tasks) /\ Len(writers') = Len(writers) - 1
        /\ \A i \in 1..(Len(writers) - 1) :
              writers'[i] = IF i < k THEN writers[i] ELSE writers[i + 1]
    <3>1. PICK a \in Seq(Tasks), b \in Seq(Tasks) :
             /\ Len(a) = k - 1 /\ (\A i \in 1..(k - 1) : a[i] = writers[i])
             /\ Len(b) = Len(writers) - k
             /\ (\A i \in 1..(Len(writers) - k) : b[i] = writers[i + k])
             /\ writers' = a \o b
      BY <2>1, <2>2, <2>3 DEF RemoveAt
    <3>2. Len(writers) \in Nat /\ Len(a) + Len(b) = Len(writers) - 1 /\ Len(a) = k - 1
      BY <1>1, <2>1, <3>1
    <3>3. /\ a \o b \in Seq(Tasks) /\ Len(a \o b) = Len(a) + Len(b)
          /\ \A i \in 1..(Len(a) + Len(b)) :
                (a \o b)[i] = IF i <= Len(a) THEN a[i] ELSE b[i - Len(a)]
      BY Joined
    <3>4. ASSUME NEW i \in 1..(Len(writers) - 1)
          PROVE  (a \o b)[i] = IF i < k THEN writers[i] ELSE writers[i + 1]
      <4>1. CASE i < k
        BY <2>1, <3>1, <3>2, <3>3, <4>1
      <4>2. CASE ~(i < k)
        <5>1. i - Len(a) \in 1..(Len(writers) - k) /\ (i - Len(a)) + k = i + 1
          BY <2>1, <3>2, <4>2
        <5>2. b[i - Len(a)] = writers[i + 1]
          BY <3>1, <5>1
        <5>3. i \in 1..(Len(a) + Len(b)) /\ ~(i <= Len(a))
          BY <2>1, <3>2, <4>2
        <5>. QED  BY <3>3, <4>2, <5>2, <5>3
      <4>. QED  BY <4>1, <4>2
    <3>. QED  BY <3>1, <3>2, <3>3, <3>4
  <2>5. \A u \in Tasks \ {t} : Holds(u) => Holds(u)'
    BY <1>1, <2>1, <2>4 DEF Holds
  <2>. DEFINE was(i) == IF i < k THEN i ELSE i + 1
  <2>6. Len(writers) \in Nat /\ k \in 1..Len(writers)
    BY <1>1, <2>1
  <2>7. \A i \in 1..(Len(writers) - 1) :
           was(i) \in 1..Len(writers) /\ was(i) # k /\ writers'[i] = writers[was(i)]
    BY <2>4, <2>6
  <2>8. \A i, j \in 1..(Len(writers) - 1) : was(i) = was(j) => i = j
    BY <2>6
  <2>9. \A i, j \in 1..(Len(writers) - 1) : writers'[i] = writers'[j] => i = j
    <3>. HIDE DEF was
    <3>. QED  BY <1>1, <2>7, <2>8
  <2>10. \A i \in 1..(Len(writers) - 1) : writers'[i] # t
    <3>. HIDE DEF was
    <3>. QED  BY <1>1, <2>1, <2>7
  <2>. QED  BY <2>4, <2>5, <2>7, <2>9, <2>10
<1>. QED  BY <1>2, <1>3 DEF Release

\* What a step of the WebSocket bridge is to the queue: one task moves, and
\* either leaves it as it is, asks (once `closed` is set only as down, from
\* "read") or releases.
Moves(t) ==
    /\ \A u \in Tasks \ {t} : pc'[u] = pc[u]
    /\ closed => closed'
    /\ \/ UNCHANGED writers /\ (Waits(t) => Waits(t)') /\ (Spent(t) /\ closed => Spent(t)')
       \/ Ask(t) /\ ~Waits(t) /\ Waits(t)' /\ ~(closed /\ Spent(t))
       \/ Release(t) /\ ~Waits(t)' /\ (closed /\ (Holds(t) \/ Spent(t)) => Spent(t)')

LEMMA MovesKeep ==
    ASSUME WaitInv, LateInv, NEW t \in Tasks, Moves(t),
           late' = [u \in Tasks |->
                       IF closed' /\ writers' # <<>> /\ Head(writers') = u /\ ~Holds(u)
                       THEN late[u] + 1 ELSE late[u]]
    PROVE  WaitInv' /\ LateInv'
<1>1. WaitInv'
  <2>1. \A u \in Tasks \ {t} : Waits(u) => Waits(u)'
    BY DEF Moves, Waits
  <2>2. CASE UNCHANGED writers /\ (Waits(t) => Waits(t)')
    BY <2>1, <2>2 DEF WaitInv
  <2>3. CASE Ask(t) /\ ~Waits(t) /\ Waits(t)'
    BY <2>1, <2>3, AskFacts DEF WaitInv
  <2>4. CASE Release(t) /\ ~Waits(t)'
    BY <2>1, <2>4, ReleaseFacts DEF WaitInv
  <2>. QED  BY <2>2, <2>3, <2>4 DEF Moves
<1>2. ASSUME NEW u \in Tasks
      PROVE  /\ late'[u] \in {0, 1}
             /\ late'[u] = 1 => closed' /\ (Holds(u)' \/ Spent(u)')
  <2>1. /\ late[u] \in {0, 1} /\ (late[u] = 1 => closed /\ (Holds(u) \/ Spent(u)))
        /\ late'[u] = IF closed' /\ Holds(u)' /\ ~Holds(u) THEN late[u] + 1 ELSE late[u]
    BY <1>2 DEF LateInv, Holds
  <2>2. Spent(u) => ~Holds(u)
    BY DEF WaitInv, Holds, Spent, Waits
  <2>3. CASE late[u] = 0
    BY <2>1, <2>3
  <2>4. CASE late[u] = 1
    <3>1. closed /\ closed' /\ (Holds(u) \/ Spent(u))
      BY <2>1, <2>4 DEF Moves
    <3>2. CASE Holds(u) /\ u # t
      <4>1. Holds(u)'
        BY <3>2, AskFacts, ReleaseFacts, <1>2 DEF Moves, Holds
      <4>. QED  BY <2>1, <2>4, <3>1, <3>2, <4>1
    <3>3. CASE Holds(u) /\ u = t
      <4>1. Holds(u)' \/ Spent(u)'
        BY <3>1, <3>3, AskFacts DEF Moves, Holds
      <4>. QED  BY <2>1, <2>4, <3>1, <3>3, <4>1
    <3>4. CASE Spent(u)
      <4>1. Spent(u)'
        <5>1. CASE u = t
          BY <3>1, <3>4, <5>1 DEF Moves
        <5>2. CASE u # t
          BY <3>4, <5>2, <1>2 DEF Moves, Spent
        <5>. QED  BY <5>1, <5>2
      <4>2. ~Holds(u)'
        BY <1>1, <4>1 DEF WaitInv, Holds, Spent, Waits
      <4>. QED  BY <2>1, <2>4, <3>1, <4>1, <4>2
    <3>. QED  BY <3>1, <3>2, <3>3, <3>4
  <2>. QED  BY <2>1, <2>3, <2>4
<1>. QED  BY <1>1, <1>2 DEF LateInv

LEMMA UpMoves ==
    ASSUME Types,
           UpStopped \/ UpRead \/ UpEof \/ UpReadFails \/ Send("up") \/ UpWrite \/ Leave("up")
    PROVE  Moves("up")
<1>1. PICK p : Goto("up", p) \/ NotifyWaiters("up", p)
  BY DEF UpStopped, UpRead, UpEof, UpReadFails, Send, UpWrite, Leave
<1>2. Alone("up", pc'["up"])
  BY <1>1, GotoFacts DEF Tasks, Alone
<1>3. CASE UpStopped \/ UpRead \/ UpEof \/ UpReadFails \/ Leave("up")
  BY <1>2, <1>3 DEF UpStopped, UpRead, UpEof, UpReadFails, Leave, Goto, NotifyWaiters,
                    Moves, Alone, Waits, Spent, Types, Tasks
<1>4. CASE Send("up")
  BY <1>2, <1>4 DEF Send, Goto, Moves, Alone, Waits, Spent, Types, Tasks
<1>5. CASE UpWrite
  BY <1>2, <1>5 DEF UpWrite, WriteOk, WriteFails, Goto, Moves, Alone, Waits, Spent, Types, Tasks
<1>. QED  BY <1>3, <1>4, <1>5

LEMMA PingMoves ==
    ASSUME Types,
           PingStopped \/ PingDue \/ Send("ping") \/ PingWrite \/ PingAborted \/ Leave("ping")
    PROVE  Moves("ping")
<1>1. PICK p : Goto("ping", p) \/ NotifyWaiters("ping", p)
  BY DEF PingStopped, PingDue, Send, PingWrite, PingAborted, Leave
<1>2. Alone("ping", pc'["ping"])
  BY <1>1, GotoFacts DEF Tasks, Alone
<1>3. CASE PingStopped \/ PingDue \/ Leave("ping")
  BY <1>2, <1>3 DEF PingStopped, PingDue, Leave, Goto, NotifyWaiters,
                    Moves, Alone, Waits, Spent, Types, Tasks
<1>4. CASE Send("ping")
  BY <1>2, <1>4 DEF Send, Goto, Moves, Alone, Waits, Spent, Types, Tasks
<1>5. CASE PingWrite \/ PingAborted
  BY <1>2, <1>5 DEF PingWrite, PingAborted, WriteOk, WriteFails, Goto,
                    Moves, Alone, Waits, Spent, Types, Tasks
<1>. QED  BY <1>3, <1>4, <1>5

LEMMA DownMoves ==
    ASSUME Types,
           DownStopped \/ DownCheck \/ DownFrame \/ DownReadFails \/ DownTimeout
           \/ DownPong \/ DownReply \/ DownDeliver \/ Leave("down")
    PROVE  Moves("down")
<1>1. PICK p : Goto("down", p) \/ NotifyWaiters("down", p)
  BY DEF DownStopped, DownCheck, DownFrame, DownReadFails, DownTimeout, DownPong, DownReply,
         DownDeliver, Leave
<1>2. Alone("down", pc'["down"])
  BY <1>1, GotoFacts DEF Tasks, Alone
<1>3. CASE DownCheck \/ DownReadFails \/ DownTimeout \/ DownDeliver \/ Leave("down")
  BY <1>2, <1>3 DEF DownCheck, DownReadFails, DownTimeout, DownDeliver, Leave, Goto,
                    NotifyWaiters, Moves, Alone, Waits, Spent, Types, Tasks
<1>4. CASE DownFrame
  BY <1>2, <1>4 DEF DownFrame, Goto, Moves, Alone, Waits, Spent, Types, Tasks
<1>5. CASE DownStopped \/ DownPong \/ DownReply
  BY <1>2, <1>5 DEF DownStopped, DownPong, DownReply, WriteOk, WriteFails, Goto,
                    Moves, Alone, Waits, Spent, Types, Tasks
<1>. QED  BY <1>3, <1>4, <1>5

LEMMA MainMoves ==
    ASSUME Types, Join \/ Abort \/ Close \/ CloseWrite
    PROVE  Moves("main")
<1>1. PICK p : Goto("main", p) \/ NotifyWaiters("main", p)
  BY DEF Join, Abort, Close, CloseWrite
<1>2. Alone("main", pc'["main"])
  BY <1>1, GotoFacts DEF Tasks, Alone
<1>3. CASE Join \/ Abort
  BY <1>2, <1>3 DEF Join, Abort, Goto, NotifyWaiters, Moves, Alone, Waits, Spent, Types, Tasks
<1>4. CASE Close
  BY <1>2, <1>4 DEF Close, Goto, Moves, Alone, Waits, Spent, Types, Tasks
<1>5. CASE CloseWrite
  BY <1>2, <1>5 DEF CloseWrite, WriteOk, WriteFails, Goto,
                    Moves, Alone, Waits, Spent, Types, Tasks
<1>. QED  BY <1>3, <1>4, <1>5

LEMMA LateInit ==
    ASSUME HInit
    PROVE  WaitInv /\ LateInv
<1>1. writers = <<>> /\ late = [t \in Tasks |-> 0]
  BY DEF HInit, WsInit, TcpInit, Init
<1>. QED  BY <1>1 DEF WaitInv, LateInv

LEMMA LateStep ==
    ASSUME BridgeInv, WaitInv, LateInv, [WsNext \/ TcpNext]_<<vars, late, tcpVars>>
    PROVE  WaitInv' /\ LateInv'
<1>1. CASE WsNext /\ ~Cancel
  <2>1. \E t \in Tasks : Moves(t)
    BY <1>1, WsCases, UpMoves, PingMoves, DownMoves, MainMoves
       DEF WsNext, BridgeInv, WsInv, Tasks
  <2>. QED  BY <1>1, <2>1, MovesKeep DEF WsNext
<1>2. CASE Cancel /\ WsNext
  <2>1. UNCHANGED <<closed, pc, writers, late>>
    <3>1. UNCHANGED <<closed, pc, writers>>
      BY <1>2 DEF Cancel
    <3>2. \A t \in Tasks : late'[t] = late[t]
      BY <1>2, <3>1 DEF WsNext, Holds
    <3>. QED  BY <1>2, <3>1, <3>2 DEF WsNext, LateInv
  <2>. QED  BY <2>1 DEF WaitInv, LateInv, Waits, Holds, Spent
<1>3. CASE TcpNext \/ UNCHANGED <<vars, late, tcpVars>>
  <2>1. UNCHANGED <<closed, pc, writers, late>>
    BY <1>3 DEF TcpNext, vars
  <2>. QED  BY <2>1 DEF WaitInv, LateInv, Waits, Holds, Spent
<1>. QED  BY <1>1, <1>2, <1>3

-----------------------------------------------------------------------------

LEMMA BridgeStep ==
    ASSUME BridgeInv, [WsNext \/ TcpNext]_<<vars, late, tcpVars>>
    PROVE  BridgeInv' /\ [Abstract!Next]_(Abstract!vars)
  BY WsStep, TcpStep, StutterStep, StepIsAbstract

\* The server is told at most once that the connection ends.
THEOREM CloseFrameOnceHolds == HSpec => []CloseFrameOnce
<1>1. BridgeInv => CloseFrameOnce
  BY DEF BridgeInv, WsInv, CloseInv, CloseFrameOnce
<1>. QED  BY <1>1, BridgeInit, BridgeStep, PTL DEF HSpec

\* A frame is cut short without the flag only by the end of the bridge.
THEOREM TornOnlyAtEndHolds == HSpec => []TornOnlyAtEnd
<1>1. BridgeInv => TornOnlyAtEnd
  BY DEF BridgeInv, WsInv, TornInv
<1>. QED  BY <1>1, BridgeInit, BridgeStep, PTL DEF HSpec

\* A connection that has failed sees at most one more write of each task, although
\* the flag is tested before the mutex, or not at all.
THEOREM LateWritesBoundedHolds == HSpec => []LateWritesBounded
<1>1. LateInv => LateWritesBounded
  BY DEF LateInv, LateWritesBounded
<1>. QED  BY <1>1, BridgeInit, LateInit, BridgeStep, LateStep, PTL DEF HSpec

\* Both transports implement what a bridge promises to its handler.
THEOREM BridgeRefinement == HSpec => ImplementsBridge
  BY BridgeInit, BridgeStep, PTL DEF HSpec, ImplementsBridge, Abstract!Spec

-----------------------------------------------------------------------------
(* The types.                                                                *)

\* What the invariants above leave open.
FlagTypes ==
    /\ eof \in BOOLEAN /\ aborted \in BOOLEAN /\ torn \in BOOLEAN
    /\ woken \in SUBSET Tasks
    /\ side \in [Tcp!Sides -> {"select", "write", "leave", "done"}]
    /\ sideWoken \in SUBSET Tcp!Sides

LEMMA FlagStep ==
    ASSUME FlagTypes, [WsNext \/ TcpNext]_<<vars, late, tcpVars>>
    PROVE  FlagTypes'
<1>1. CASE WsNext
  <2>1. Next /\ side' = side /\ sideWoken' = sideWoken
    BY <1>1 DEF WsNext, tcpVars
  <2>2. woken' \in SUBSET Tasks
    <3>1. ASSUME NEW t, NEW p, Goto(t, p) \/ NotifyWaiters(t, p)
          PROVE  woken' \in SUBSET Tasks
      BY <3>1 DEF FlagTypes, Goto, NotifyWaiters
    <3>2. woken' = woken => woken' \in SUBSET Tasks
      BY DEF FlagTypes
    <3>. QED
      BY <2>1, <3>1, <3>2, WsCases, Zenon
         DEF UpStopped, UpRead, UpEof, UpReadFails, Send, UpWrite, DownStopped, DownCheck,
             DownFrame, DownReadFails, DownTimeout, DownPong, DownDeliver, DownReply, Leave,
             PingStopped, PingDue, PingWrite, PingAborted, Join, Abort, Close, CloseWrite,
             Cancel
  <2>3. eof' \in BOOLEAN /\ aborted' \in BOOLEAN
    BY <2>1, WsCases, Zenon
       DEF FlagTypes, UpStopped, UpRead, UpEof, UpReadFails, Send, UpWrite, DownStopped,
           DownCheck, DownFrame, DownReadFails, DownTimeout, DownPong, DownDeliver, DownReply,
           Leave, PingStopped, PingDue, PingWrite, PingAborted, Join, Abort, Close, CloseWrite,
           Cancel
  <2>4. torn' \in BOOLEAN
    <3>1. \A t : (torn \/ Holds(t)) \in BOOLEAN
      BY Zenon
    <3>. QED
      BY <2>1, <3>1, WsCases, Zenon
         DEF FlagTypes, UpStopped, UpRead, UpEof, UpReadFails, Send, UpWrite, DownStopped,
             DownCheck, DownFrame, DownReadFails, DownTimeout, DownPong, DownDeliver, DownReply,
             Leave, PingStopped, PingDue, PingWrite, PingAborted, Join, Abort, Close, CloseWrite,
             Cancel, WriteOk, WriteFails, io
  <2>. QED  BY <2>1, <2>2, <2>3, <2>4, Zenon DEF FlagTypes
<1>2. CASE TcpNext
  <2>1. /\ UNCHANGED <<eof, aborted, torn, woken>> /\ Tcp!Next
    BY <1>2, Zenon DEF TcpNext, io
  <2>2. /\ side' \in [Tcp!Sides -> {"select", "write", "leave", "done"}]
        /\ sideWoken' \in SUBSET Tcp!Sides
    BY <2>1 DEF FlagTypes, Tcp!Next, Tcp!Cancel, Tcp!Step, Tcp!Stopped, Tcp!Read, Tcp!ReadEnds,
                Tcp!Write, Tcp!Leave, Tcp!Goto
  <2>. QED  BY <2>1, <2>2, Zenon DEF FlagTypes
<1>3. CASE UNCHANGED <<vars, late, tcpVars>>
  BY <1>3, Zenon DEF FlagTypes, vars, io, tcpVars
<1>. QED  BY <1>1, <1>2, <1>3, Zenon

LEMMA TypesFollow ==
    ASSUME BridgeInv, WaitInv, FlagTypes
    PROVE  TypeOK /\ Tcp!TypeOK
<1>1. /\ token \in BOOLEAN /\ closed \in BOOLEAN /\ closeFrames \in Nat
      /\ DOMAIN pc = Tasks /\ \A t \in Tasks : pc[t] \in Pc(t)
  BY Zenon DEF BridgeInv, WsInv, Types
<1>2. {token, closed, eof, aborted, torn} \subseteq BOOLEAN
  BY <1>1, Zenon DEF FlagTypes
<1>3. /\ pc["up"] \in {"select", "send", "write", "leave", "done"}
      /\ pc["down"] \in {"recv", "read", "pong", "reply", "deliver", "leave", "done"}
      /\ pc["ping"] \in {"select", "send", "write", "leave", "done"}
      /\ pc["main"] \in {"join_up", "join_down", "abort", "close", "write", "done"}
  BY <1>1 DEF Tasks, Pc
<1>4. IsInjective(writers) /\ Range(writers) \subseteq Tasks
  BY DEF WaitInv, IsInjective, Range
<1>5. TypeOK
  BY <1>1, <1>2, <1>3, <1>4, Zenon DEF TypeOK, FlagTypes
<1>6. Tcp!TypeOK
  BY <1>1, Zenon DEF FlagTypes, Tcp!TypeOK
<1>. QED  BY <1>5, <1>6

\* Every task is at one of its own places, and the mutex of the write half is
\* asked for by each task at most once at a time.
THEOREM TypeCorrect == HSpec => [](TypeOK /\ Tcp!TypeOK)
<1>1. HInit => FlagTypes
  BY DEF HInit, WsInit, TcpInit, Init, Tcp!Init, FlagTypes
<1>. QED  BY <1>1, BridgeInit, LateInit, BridgeStep, LateStep, FlagStep, TypesFollow, PTL DEF HSpec

=============================================================================
