------------------------------- MODULE BridgeWs -------------------------------
(***************************************************************************)
(* One bridged client: bridge_ws (src-wrapper/src/proxy.rs) over the shared *)
(* connection RawWebSocket (src-wrapper/src/ws.rs).                         *)
(*                                                                         *)
(* Three tasks share the connection.  `up` carries the client's bytes into  *)
(* frames, `down` answers control frames and carries the payload of data    *)
(* frames to the client, `ping` keeps an idle connection alive.  `main`,    *)
(* the handler, waits for up, then for down, aborts ping and closes.  The   *)
(* frames go out through a fair mutex; the flag `closed` is tested before   *)
(* the mutex is asked for and is set after a failed write.                  *)
(*                                                                         *)
(* The tasks tell each other to stop by Notify::notify_waiters, which       *)
(* reaches only those that wait inside a select! at that moment, and by the *)
(* CancellationToken of the session, which stays set.  A branch that wins a *)
(* select! drops the futures of the others: the whole of recv_with_timeout  *)
(* is such a future, its answers to control frames included.                *)
(*                                                                         *)
(* Payloads, the cipher streams and last_activity (ping's idle test is left *)
(* open) are abstracted; a read or a write ends well, badly or not at all.  *)
(***************************************************************************)
EXTENDS Naturals, Sequences, SequencesExt

Tasks == {"up", "down", "ping", "main"}

\* Where a task waits inside a select! that has a `notified()` branch.
InSelect(t, p) ==
    \/ t \in {"up", "ping"} /\ p = "select"
    \/ t = "down" /\ p \in {"recv", "read", "pong", "reply"}

VARIABLES
    token,      \* the session's CancellationToken
    closed,     \* RawWebSocket.closed
    pc,         \* task -> where it is
    woken,      \* the tasks whose pending `notified()` has fired
    writers,    \* the mutex of the write half: its holder and those who wait
    eof,        \* up has seen the end of the client's stream
    aborted,    \* ping_task.abort() was called
    torn,       \* a write stopped inside a frame
    closeFrames \* CLOSE frames written

io == <<torn, closeFrames>>
vars == <<token, closed, pc, woken, writers, eof, aborted, io>>

-----------------------------------------------------------------------------

TypeOK ==
    /\ {token, closed, eof, aborted, torn} \subseteq BOOLEAN
    /\ pc["up"] \in {"select", "send", "write", "leave", "done"}
    /\ pc["down"] \in {"recv", "read", "pong", "reply", "deliver", "leave", "done"}
    /\ pc["ping"] \in {"select", "send", "write", "leave", "done"}
    /\ pc["main"] \in {"join_up", "join_down", "abort", "close", "write", "done"}
    /\ DOMAIN pc = Tasks
    /\ woken \in SUBSET Tasks
    /\ IsInjective(writers)
    /\ Range(writers) \subseteq Tasks
    /\ closeFrames \in Nat

Init ==
    /\ token = FALSE
    /\ closed = FALSE
    /\ pc = [t \in Tasks |-> IF t = "down" THEN "recv"
                            ELSE IF t = "main" THEN "join_up" ELSE "select"]
    /\ woken = {}
    /\ writers = <<>>
    /\ eof = FALSE
    /\ aborted = FALSE
    /\ torn = FALSE
    /\ closeFrames = 0

\* Going on to p.  A notification received so far is gone, unless down stays
\* inside the one recv_with_timeout that its select! polls.
Goto(t, p) ==
    /\ pc' = [pc EXCEPT ![t] = p]
    /\ woken' = IF t = "down" /\ InSelect(t, p) /\ pc[t] # "deliver"
                THEN woken ELSE woken \ {t}

\* cancel.notify_waiters(), by a task that goes on to p.
NotifyWaiters(t, p) ==
    /\ pc' = [pc EXCEPT ![t] = p]
    /\ woken' = (woken \cup {u \in Tasks : InSelect(u, pc[u])}) \ {t}

Holds(t) == writers # <<>> /\ Head(writers) = t
Ask(t) == writers' = Append(writers, t)
Release(t) ==
    \/ t \notin Range(writers) /\ UNCHANGED writers
    \/ \E i \in DOMAIN writers : writers[i] = t /\ writers' = RemoveAt(writers, i)

\* Mutant of WriteFails: the connection is not marked.
WriteFailsQuietly(t) == Holds(t) /\ Release(t) /\ UNCHANGED closed /\ torn' = TRUE

\* A write that ends well, and one that fails or times out.
WriteOk(t) == Holds(t) /\ Release(t) /\ UNCHANGED <<closed, torn>>
WriteFails(t) == Holds(t) /\ Release(t) /\ closed' = TRUE /\ torn' = TRUE

-----------------------------------------------------------------------------
(* up *)

UpStopped ==
    /\ pc["up"] = "select"
    /\ token \/ "up" \in woken
    /\ Goto("up", "leave")
    /\ UNCHANGED <<token, closed, writers, eof, aborted, io>>

\* A chunk arrives; the splitter makes no, one or several frames of it.
UpRead ==
    /\ pc["up"] = "select"
    /\ Goto("up", "send") \/ Goto("up", "select")
    /\ UNCHANGED <<token, closed, writers, eof, aborted, io>>

\* The client closes its side: the splitter's rest is sent, if there is any.
UpEof ==
    /\ pc["up"] = "select"
    /\ eof' = TRUE
    /\ Goto("up", "send") \/ Goto("up", "leave")
    /\ UNCHANGED <<token, closed, writers, aborted, io>>

\* The read fails, or 120 s pass without a byte.
UpReadFails ==
    /\ pc["up"] = "select"
    /\ Goto("up", "leave")
    /\ UNCHANGED <<token, closed, writers, eof, aborted, io>>

\* Mutant of Send: the flag is not tested.
SendAnyway(t) ==
    /\ pc[t] = "send"
    /\ Goto(t, "write") /\ Ask(t)
    /\ UNCHANGED <<token, closed, eof, aborted, io>>

\* send and send_batch: the flag is tested, then the mutex is asked for.
Send(t) ==
    /\ pc[t] = "send"
    /\ \/ closed /\ Goto(t, "leave") /\ UNCHANGED writers
       \/ ~closed /\ Goto(t, "write") /\ Ask(t)
    /\ UNCHANGED <<token, closed, eof, aborted, io>>

UpWrite ==
    /\ pc["up"] = "write"
    /\ \/ WriteOk("up") /\ Goto("up", IF eof THEN "leave" ELSE "select")
       \/ WriteFails("up") /\ Goto("up", "leave")
    /\ UNCHANGED <<token, eof, aborted, closeFrames>>

\* The last statement of both data tasks.
Leave(t) ==
    /\ pc[t] = "leave"
    /\ NotifyWaiters(t, "done")
    /\ UNCHANGED <<token, closed, writers, eof, aborted, io>>

-----------------------------------------------------------------------------
(* down *)

\* Mutant of DownStopped: no branch for the token.
DownStoppedByPeers ==
    /\ InSelect("down", pc["down"])
    /\ "down" \in woken
    /\ Goto("down", "leave")
    /\ Release("down")
    /\ torn' = (torn \/ Holds("down"))
    /\ UNCHANGED <<token, closed, eof, aborted, closeFrames>>

\* The future of recv_with_timeout is dropped wherever it is; in the middle of
\* a write it leaves a part of a frame behind.
DownStopped ==
    /\ InSelect("down", pc["down"])
    /\ token \/ "down" \in woken
    /\ Goto("down", "leave")
    /\ Release("down")
    /\ torn' = (torn \/ Holds("down"))
    /\ UNCHANGED <<token, closed, eof, aborted, closeFrames>>

\* The top of the loop of recv_with_timeout.
DownCheck ==
    /\ pc["down"] = "recv"
    /\ Goto("down", IF closed THEN "leave" ELSE "read")
    /\ UNCHANGED <<token, closed, writers, eof, aborted, io>>

DownFrame ==
    /\ pc["down"] = "read"
    /\ \/ Goto("down", "deliver") /\ UNCHANGED <<closed, writers>>             \* data
       \/ Goto("down", "recv") /\ UNCHANGED <<closed, writers>>                \* PONG
       \/ Goto("down", "pong") /\ Ask("down") /\ UNCHANGED closed              \* PING
       \/ Goto("down", "reply") /\ Ask("down") /\ closed' = TRUE               \* CLOSE
    /\ UNCHANGED <<token, eof, aborted, io>>

\* The read fails; only then is the connection marked.
DownReadFails ==
    /\ pc["down"] = "read"
    /\ closed' = TRUE
    /\ Goto("down", "leave")
    /\ UNCHANGED <<token, writers, eof, aborted, io>>

\* Mutant of DownTimeout: no timeout, so a lost wakeup is never made up for.
DownTimeoutNever == pc["down"] = "nowhere"

\* 120 s without a frame.
DownTimeout ==
    /\ pc["down"] = "read"
    /\ Goto("down", "leave")
    /\ UNCHANGED <<token, closed, writers, eof, aborted, io>>

\* The answer to a PING; its result is ignored.
DownPong ==
    /\ pc["down"] = "pong"
    /\ WriteOk("down") \/ WriteFails("down")
    /\ Goto("down", "recv")
    /\ UNCHANGED <<token, eof, aborted, closeFrames>>

\* The answer to a CLOSE.
DownReply ==
    /\ pc["down"] = "reply"
    /\ WriteOk("down") \/ WriteFails("down")
    /\ closeFrames' = closeFrames + 1
    /\ Goto("down", "leave")
    /\ UNCHANGED <<token, eof, aborted>>

\* write_all to the client, outside the select! and without a timeout.
DownDeliver ==
    /\ pc["down"] = "deliver"
    /\ Goto("down", "recv") \/ Goto("down", "leave")
    /\ UNCHANGED <<token, closed, writers, eof, aborted, io>>

-----------------------------------------------------------------------------
(* ping *)

PingStopped ==
    /\ pc["ping"] = "select"
    /\ token \/ "ping" \in woken
    /\ Goto("ping", "done")
    /\ UNCHANGED <<token, closed, writers, eof, aborted, io>>

\* The interval ticks; a PING is due if nothing came in or went out for 30 s.
PingDue ==
    /\ pc["ping"] = "select"
    /\ Goto("ping", "send") \/ Goto("ping", "select")
    /\ UNCHANGED <<token, closed, writers, eof, aborted, io>>

PingWrite ==
    /\ pc["ping"] = "write"
    /\ \/ WriteOk("ping") /\ Goto("ping", "select")
       \/ WriteFails("ping") /\ Goto("ping", "leave")
    /\ UNCHANGED <<token, eof, aborted, closeFrames>>

\* The abort takes effect at an await, which may be inside a write.
PingAborted ==
    /\ aborted
    /\ pc["ping"] # "done"
    /\ Goto("ping", "done")
    /\ Release("ping")
    /\ torn' = (torn \/ Holds("ping"))
    /\ UNCHANGED <<token, closed, eof, aborted, closeFrames>>

-----------------------------------------------------------------------------
(* main *)

\* Mutant of Join: the handler waits for one of the two.
JoinEither ==
    /\ pc["main"] \in {"join_up", "join_down"}
    /\ pc["up"] = "done" \/ pc["down"] = "done"
    /\ Goto("main", "abort")
    /\ UNCHANGED <<token, closed, writers, eof, aborted, io>>

Join ==
    /\ \/ pc["main"] = "join_up" /\ pc["up"] = "done" /\ Goto("main", "join_down")
       \/ pc["main"] = "join_down" /\ pc["down"] = "done" /\ Goto("main", "abort")
    /\ UNCHANGED <<token, closed, writers, eof, aborted, io>>

Abort ==
    /\ pc["main"] = "abort"
    /\ NotifyWaiters("main", "close")
    /\ aborted' = TRUE
    /\ UNCHANGED <<token, closed, writers, eof, io>>

\* Mutant of Close: the flag is set but not tested.
CloseAgain ==
    /\ pc["main"] = "close"
    /\ closed' = TRUE
    /\ Goto("main", "write") /\ Ask("main")
    /\ UNCHANGED <<token, eof, aborted, io>>

\* close swaps the flag and writes a CLOSE only if it was not set.
Close ==
    /\ pc["main"] = "close"
    /\ closed' = TRUE
    /\ \/ closed /\ Goto("main", "done") /\ UNCHANGED writers
       \/ ~closed /\ Goto("main", "write") /\ Ask("main")
    /\ UNCHANGED <<token, eof, aborted, io>>

CloseWrite ==
    /\ pc["main"] = "write"
    /\ WriteOk("main") \/ WriteFails("main")
    /\ closeFrames' = closeFrames + 1
    /\ Goto("main", "done")
    /\ UNCHANGED <<token, eof, aborted>>

\* StopProxy.
Cancel ==
    /\ ~token
    /\ token' = TRUE
    /\ UNCHANGED <<closed, pc, woken, writers, eof, aborted, io>>

-----------------------------------------------------------------------------

\* What ends because the code has a timeout for it or has nothing to wait for.
UpRuns == UpStopped \/ UpReadFails \/ Send("up") \/ UpWrite \/ Leave("up")

DownRuns ==
    DownStopped \/ DownCheck \/ DownTimeout \/ DownPong \/ DownReply \/ Leave("down")

PingRuns == PingStopped \/ Send("ping") \/ PingWrite \/ Leave("ping") \/ PingAborted

MainRuns == Join \/ Abort \/ Close \/ CloseWrite

\* What takes a peer, a clock or the application.
Outside == UpRead \/ UpEof \/ DownFrame \/ DownReadFails \/ DownDeliver \/ PingDue \/ Cancel

Next == UpRuns \/ DownRuns \/ PingRuns \/ MainRuns \/ Outside

Spec == Init /\ [][Next]_vars

\* Every read and every write to the server has a timeout, the mutex is fair,
\* and select! polls its branches in random order, so that one which is ready
\* again and again is taken sooner or later, however busy the peers are.
Fairness ==
    /\ WF_vars(UpRuns) /\ SF_vars(UpStopped)
    /\ WF_vars(DownRuns) /\ SF_vars(DownStopped)
    /\ WF_vars(PingRuns) /\ WF_vars(PingAborted)
    /\ WF_vars(MainRuns)

FairSpec == Spec /\ Fairness

-----------------------------------------------------------------------------
(* Properties; LateWritesBounded is in MCBridge *)

\* The server is told at most once that the connection ends, whoever is first:
\* the answer to its CLOSE, the failure of a writer or the end of the bridge.
CloseFrameOnce == closeFrames <= 1

\* A frame is cut short without `closed` being set only by the end of the
\* bridge itself: the session is cancelled, or up has left and down or ping is
\* stopped inside a write.  Until then every writer finds out from the flag.
TornOnlyAtEnd == torn => closed \/ token \/ pc["up"] \in {"leave", "done"}

\* What the code cannot enforce: that the client goes on reading, or closes, ...
ClientReads == WF_vars(DownDeliver)

\* ... and that the peers do not talk for ever: a read that begins again and
\* again times out sooner or later.
PeersFallSilent == SF_vars(UpReadFails) /\ SF_vars(DownTimeout)

\* One side that ends takes the other side along, although the wakeup of
\* notify_waiters is lost on a task that is not waiting: at the latest when the
\* peers fall silent.
OneSideEndsBoth ==
    ClientReads /\ PeersFallSilent =>
        ((pc["up"] = "done" \/ pc["down"] = "done" \/ closed) ~> pc["main"] = "done")

\* ARCHITECTURE.ru.md, on stopping: "Rust cancels the tasks" (of the session).
CancelEndsBridge == token ~> pc["main"] = "done"

\* That is so, however busy the peers are, as long as the client goes on reading.
CancelEndsReadingBridge == ClientReads => CancelEndsBridge

=============================================================================
