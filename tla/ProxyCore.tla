------------------------------ MODULE ProxyCore ------------------------------
(***************************************************************************)
(* The life of the Rust core in one process: the exported StartProxy and    *)
(* StopProxy (src-wrapper/src/lib.rs), the accept loop run_proxy and the    *)
(* part of handle_client that touches process-wide state                    *)
(* (src-wrapper/src/proxy.rs).                                              *)
(*                                                                         *)
(* A session is one StartProxy that found the cell STATE empty.  Its run    *)
(* task, its client handlers and the task StopProxy spawns outlive the      *)
(* calls, and the statics they write (STATS, WS_BLACKLIST, DC_FAIL_UNTIL,   *)
(* CFPROXY_429, DC_OPT) outlive the session.  What a handler does on the    *)
(* network is in other modules.                                             *)
(***************************************************************************)
EXTENDS Integers, FiniteSets

CONSTANTS Callers,      \* threads of the host application
          Handlers,     \* client handlers over all sessions
          Ports,        \* ports the host application may configure
          MaxSession    \* bound on the StartProxy calls that reach the bind

ASSUME MaxSessionAssumption == MaxSession \in Nat

NoCaller == "nobody"

ASSUME CallerAssumption == NoCaller \notin Callers

NoPort == "no port"

ASSUME PortAssumption == NoPort \notin Ports

Sessions == 1..MaxSession

\* STATE holds no session.
None == 0

VARIABLES
    state,      \* STATE: the session StopProxy would stop, or None
    holder,     \* who holds the mutex of STATE
    last,       \* number of the latest session
    fpc,        \* caller -> where it is in StartProxy or StopProxy
    ret,        \* caller -> what its latest call returned
    port,       \* session -> its port
    run,        \* session -> where its run task is
    canceled,   \* session -> its root CancellationToken
    finisher,   \* session -> the task StopProxy spawns
    taken,      \* the ports another program listens on
    dcOpt,      \* the session whose map DC_OPT holds
    total,      \* STATS.connections_total
    active,     \* STATS.connections_active
    penalties,  \* sessions with entries in WS_BLACKLIST or DC_FAIL_UNTIL
    cooldowns,  \* sessions with entries in CFPROXY_429
    hpc,        \* handler -> where it is in handle_client
    hsession    \* handler -> the session that accepted it

ffi == <<state, holder, last, fpc, ret>>
tasks == <<port, run, canceled, finisher>>
tables == <<penalties, cooldowns>>
stats == <<total, active>>
handlers == <<hpc, hsession>>
vars == <<ffi, tasks, taken, dcOpt, stats, tables, handlers>>

-----------------------------------------------------------------------------

TypeOK ==
    /\ state \in 0..MaxSession
    /\ holder \in Callers \cup {NoCaller}
    /\ last \in 0..MaxSession
    /\ fpc \in [Callers -> {"idle", "starting", "reset", "clear"}]
    /\ ret \in [Callers -> {0, -1, -3}]
    /\ port \in [Sessions -> Ports]
    /\ run \in [Sessions ->
                  {"none", "binding", "bound", "accepting", "closing", "done", "failed"}]
    /\ canceled \in [Sessions -> BOOLEAN]
    /\ finisher \in [Sessions -> {"none", "waiting", "done"}]
    /\ taken \in SUBSET Ports
    /\ dcOpt \in 0..MaxSession
    /\ total \in Nat
    /\ active \in Int
    /\ penalties \in SUBSET Sessions
    /\ cooldowns \in SUBSET Sessions
    /\ hpc \in [Handlers -> {"idle", "accepted", "connecting", "writing",
                             "bridging", "leaving", "subtracting", "done"}]
    /\ hsession \in [Handlers -> 0..MaxSession]

Init ==
    /\ state = None
    /\ holder = NoCaller
    /\ last = 0
    /\ fpc = [c \in Callers |-> "idle"]
    /\ ret = [c \in Callers |-> 0]
    /\ port \in [Sessions -> Ports]
    /\ run = [k \in Sessions |-> "none"]
    /\ canceled = [k \in Sessions |-> FALSE]
    /\ finisher = [k \in Sessions |-> "none"]
    /\ taken \in SUBSET Ports
    /\ dcOpt = None
    /\ total = 0
    /\ active = 0
    /\ penalties = {}
    /\ cooldowns = {}
    /\ hpc = [h \in Handlers |-> "idle"]
    /\ hsession = [h \in Handlers |-> 0]

\* The listener of a session lives from the bind to the drop in run_proxy.
Listening(k) == run[k] \in {"bound", "accepting"}

\* Mutant of PortFree: listeners that share a port (SO_REUSEPORT).
PortFreeShared(p) == p \notin taken

PortFree(p) ==
    /\ p \notin taken
    /\ \A k \in Sessions : Listening(k) => port[k] # p

-----------------------------------------------------------------------------
(* StartProxy: the mutex is held from the first test to the return. *)

StartRefused(c) ==
    /\ fpc[c] = "idle"
    /\ holder = NoCaller
    /\ state # None
    /\ ret' = [ret EXCEPT ![c] = -1]
    /\ UNCHANGED <<state, holder, last, fpc, tasks, taken, dcOpt, stats, tables,
                   handlers>>

\* The 429 cooldowns are cleared, the token and the pool are made and the run
\* task is spawned; the caller then blocks on the channel.
StartBegin(c) ==
    /\ fpc[c] = "idle"
    /\ holder = NoCaller
    /\ state = None
    /\ last < MaxSession
    /\ holder' = c
    /\ last' = last + 1
    /\ fpc' = [fpc EXCEPT ![c] = "starting"]
    /\ cooldowns' = {}
    /\ run' = [run EXCEPT ![last + 1] = "binding"]
    /\ UNCHANGED <<state, ret, port, canceled, finisher, taken, dcOpt, stats,
                   penalties, handlers>>

\* Mutant of StartOk: the bind is not waited for.
StartOkEarly(c) ==
    /\ fpc[c] = "starting"
    /\ run[last] # "failed"
    /\ state' = last
    /\ ret' = [ret EXCEPT ![c] = 0]
    /\ fpc' = [fpc EXCEPT ![c] = "idle"]
    /\ holder' = NoCaller
    /\ UNCHANGED <<last, tasks, taken, dcOpt, stats, tables, handlers>>

\* The channel delivers the result of the bind.
StartOk(c) ==
    /\ fpc[c] = "starting"
    /\ run[last] \notin {"binding", "failed"}
    /\ state' = last
    /\ ret' = [ret EXCEPT ![c] = 0]
    /\ fpc' = [fpc EXCEPT ![c] = "idle"]
    /\ holder' = NoCaller
    /\ UNCHANGED <<last, tasks, taken, dcOpt, stats, tables, handlers>>

\* Mutant of StartBindFailed: nobody tells the caller.
StartBindFailedUnseen(c) == fpc[c] = "nowhere"

StartBindFailed(c) ==
    /\ fpc[c] = "starting"
    /\ run[last] = "failed"
    /\ ret' = [ret EXCEPT ![c] = -3]
    /\ fpc' = [fpc EXCEPT ![c] = "idle"]
    /\ holder' = NoCaller
    /\ UNCHANGED <<state, last, tasks, taken, dcOpt, stats, tables, handlers>>

-----------------------------------------------------------------------------
(* StopProxy: the mutex is held to the return, but the tasks it cancels are  *)
(* only waited for in the task it spawns.                                    *)

StopRefused(c) ==
    /\ fpc[c] = "idle"
    /\ holder = NoCaller
    /\ state = None
    /\ ret' = [ret EXCEPT ![c] = -1]
    /\ UNCHANGED <<state, holder, last, fpc, tasks, taken, dcOpt, stats, tables,
                   handlers>>

\* Mutant of StopCancel: the token is not cancelled.
StopCancelNothing(c) ==
    /\ fpc[c] = "idle"
    /\ holder = NoCaller
    /\ state # None
    /\ holder' = c
    /\ state' = None
    /\ finisher' = [finisher EXCEPT ![state] = "waiting"]
    /\ fpc' = [fpc EXCEPT ![c] = "reset"]
    /\ UNCHANGED <<last, ret, port, run, canceled, taken, dcOpt, stats, tables, handlers>>

StopCancel(c) ==
    /\ fpc[c] = "idle"
    /\ holder = NoCaller
    /\ state # None
    /\ holder' = c
    /\ state' = None
    /\ canceled' = [canceled EXCEPT ![state] = TRUE]
    /\ finisher' = [finisher EXCEPT ![state] = "waiting"]
    /\ fpc' = [fpc EXCEPT ![c] = "reset"]
    /\ UNCHANGED <<last, ret, port, run, taken, dcOpt, stats, tables, handlers>>

\* STATS.reset()
StopReset(c) ==
    /\ fpc[c] = "reset"
    /\ total' = 0
    /\ active' = 0
    /\ fpc' = [fpc EXCEPT ![c] = "clear"]
    /\ UNCHANGED <<state, holder, last, ret, tasks, taken, dcOpt, tables, handlers>>

\* Mutant of StopClear: the blacklist and the failure times stay.
StopClearCooldowns(c) ==
    /\ fpc[c] = "clear"
    /\ cooldowns' = {}
    /\ ret' = [ret EXCEPT ![c] = 0]
    /\ fpc' = [fpc EXCEPT ![c] = "idle"]
    /\ holder' = NoCaller
    /\ UNCHANGED <<state, last, tasks, taken, dcOpt, stats, penalties, handlers>>

\* The blacklist, the failure times and the cooldowns are cleared; return 0.
StopClear(c) ==
    /\ fpc[c] = "clear"
    /\ penalties' = {}
    /\ cooldowns' = {}
    /\ ret' = [ret EXCEPT ![c] = 0]
    /\ fpc' = [fpc EXCEPT ![c] = "idle"]
    /\ holder' = NoCaller
    /\ UNCHANGED <<state, last, tasks, taken, dcOpt, stats, handlers>>

\* The spawned task: the run task has ended, or two seconds are over.  It then
\* closes the pool (module WsPool).
Finish(k) ==
    /\ finisher[k] = "waiting"
    /\ finisher' = [finisher EXCEPT ![k] = "done"]
    /\ UNCHANGED <<ffi, port, run, canceled, taken, dcOpt, stats, tables, handlers>>

-----------------------------------------------------------------------------
(* The run task *)

Bind(k) ==
    /\ run[k] = "binding"
    /\ \/ PortFree(port[k]) /\ run' = [run EXCEPT ![k] = "bound"]
       \/ ~PortFree(port[k]) /\ run' = [run EXCEPT ![k] = "failed"]
    /\ UNCHANGED <<ffi, port, canceled, finisher, taken, dcOpt, stats, tables,
                   handlers>>

\* run_proxy publishes the DC map and enters the accept loop.
RunBegin(k) ==
    /\ run[k] = "bound"
    /\ run' = [run EXCEPT ![k] = "accepting"]
    /\ dcOpt' = k
    /\ UNCHANGED <<ffi, port, canceled, finisher, taken, stats, tables, handlers>>

\* accept returns a client.  select! polls its branches in random order, so a
\* pending client may be accepted although the token is already cancelled.
Accept(k, h) ==
    /\ run[k] = "accepting"
    /\ hpc[h] = "idle"
    /\ hpc' = [hpc EXCEPT ![h] = "accepted"]
    /\ hsession' = [hsession EXCEPT ![h] = k]
    /\ UNCHANGED <<ffi, tasks, taken, dcOpt, stats, tables>>

\* The loop sees the cancellation; the listener is dropped.
RunBreak(k) ==
    /\ run[k] = "accepting"
    /\ canceled[k]
    /\ run' = [run EXCEPT ![k] = "closing"]
    /\ UNCHANGED <<ffi, port, canceled, finisher, taken, dcOpt, stats, tables,
                   handlers>>

\* 100 ms later the pool is closed and the task ends.
RunEnd(k) ==
    /\ run[k] = "closing"
    /\ run' = [run EXCEPT ![k] = "done"]
    /\ UNCHANGED <<ffi, port, canceled, finisher, taken, dcOpt, stats, tables,
                   handlers>>

-----------------------------------------------------------------------------
(* handle_client *)

\* The first poll of the spawned handler: it counts itself.
HandlerCount(h) ==
    /\ hpc[h] = "accepted"
    /\ total' = total + 1
    /\ active' = active + 1
    /\ hpc' = [hpc EXCEPT ![h] = "connecting"]
    /\ UNCHANGED <<ffi, tasks, taken, dcOpt, tables, hsession>>

\* A failed dial is remembered in WS_BLACKLIST or DC_FAIL_UNTIL, a refused
\* Cloudflare dial in CFPROXY_429.  Nothing here looks at the token.
HandlerPenalty(h) ==
    /\ hpc[h] = "connecting"
    /\ \/ penalties' = penalties \cup {hsession[h]} /\ UNCHANGED cooldowns
       \/ cooldowns' = cooldowns \cup {hsession[h]} /\ UNCHANGED penalties
    /\ UNCHANGED <<ffi, tasks, taken, dcOpt, stats, handlers>>

HandlerBridge(h) ==
    /\ hpc[h] = "connecting"
    /\ hpc' = [hpc EXCEPT ![h] = "bridging"]
    /\ UNCHANGED <<ffi, tasks, taken, dcOpt, stats, tables, hsession>>

\* A write to a peer outside any select! and without a timeout: the chunks for the
\* client over WebSocket, for both peers over TCP, the init to a TCP server, the
\* answer to an HTTP client.
HandlerWrites(h) ==
    /\ hpc[h] \in {"connecting", "bridging"}
    /\ hpc' = [hpc EXCEPT ![h] = "writing"]
    /\ UNCHANGED <<ffi, tasks, taken, dcOpt, stats, tables, hsession>>

\* The peer has read enough; the handler comes back to its select!.
HandlerWrote(h) ==
    /\ hpc[h] = "writing"
    /\ hpc' = [hpc EXCEPT ![h] = "bridging"]
    /\ UNCHANGED <<ffi, tasks, taken, dcOpt, stats, tables, hsession>>

\* The dial fails for good, a peer closes, a write fails or was the last, or the
\* bridge sees the token; the handler returns and its ActiveGuard is dropped.
HandlerReturn(h) ==
    /\ hpc[h] \in {"connecting", "writing", "bridging"}
    /\ hpc' = [hpc EXCEPT ![h] = "leaving"]
    /\ UNCHANGED <<ffi, tasks, taken, dcOpt, stats, tables, hsession>>

\* Mutant of HandlerLoad: the last connection is never given back.
HandlerLoadOffByOne(h) ==
    /\ hpc[h] = "leaving"
    /\ hpc' = [hpc EXCEPT ![h] = IF active > 1 THEN "subtracting" ELSE "done"]
    /\ UNCHANGED <<ffi, tasks, taken, dcOpt, stats, tables, hsession>>

\* ActiveGuard::drop first loads the counter ...
HandlerLoad(h) ==
    /\ hpc[h] = "leaving"
    /\ hpc' = [hpc EXCEPT ![h] = IF active > 0 THEN "subtracting" ELSE "done"]
    /\ UNCHANGED <<ffi, tasks, taken, dcOpt, stats, tables, hsession>>

\* ... and then subtracts.
HandlerSub(h) ==
    /\ hpc[h] = "subtracting"
    /\ active' = active - 1
    /\ hpc' = [hpc EXCEPT ![h] = "done"]
    /\ UNCHANGED <<ffi, tasks, taken, dcOpt, total, tables, hsession>>

-----------------------------------------------------------------------------

CallerStep(c) ==
    \/ StartRefused(c)
    \/ StartBegin(c)
    \/ StartOk(c)
    \/ StartBindFailed(c)
    \/ StopRefused(c)
    \/ StopCancel(c)
    \/ StopReset(c)
    \/ StopClear(c)

RunStep(k) == Bind(k) \/ RunBegin(k) \/ RunBreak(k) \/ RunEnd(k)

HandlerStep(h) ==
    \/ HandlerCount(h)
    \/ HandlerPenalty(h)
    \/ HandlerBridge(h)
    \/ HandlerWrites(h)
    \/ HandlerWrote(h)
    \/ HandlerReturn(h)
    \/ HandlerLoad(h)
    \/ HandlerSub(h)

Next ==
    \/ \E c \in Callers : CallerStep(c)
    \/ \E k \in Sessions : RunStep(k) \/ Finish(k)
    \/ \E k \in Sessions, h \in Handlers : Accept(k, h)
    \/ \E h \in Handlers : HandlerStep(h)

Spec == Init /\ [][Next]_vars

\* The runtime polls every runnable task; a bind answers; the connect phase of
\* a handler ends because its waits have timeouts; select! picks the branch of a
\* cancelled token sooner or later, in the accept loop and, whenever a handler comes
\* back to it, in a bridge.  Nothing obliges a peer to read, so that a write ends
\* (HandlerWrote), nor a peer to close, nor the host to call.
Fairness ==
    /\ \A c \in Callers :
          WF_vars(StartOk(c) \/ StartBindFailed(c) \/ StopReset(c) \/ StopClear(c))
    /\ \A k \in Sessions : WF_vars(RunStep(k)) /\ WF_vars(Finish(k))
    /\ \A h \in Handlers :
          /\ WF_vars(HandlerCount(h) \/ HandlerLoad(h) \/ HandlerSub(h))
          /\ WF_vars(hpc[h] = "connecting" /\ HandlerReturn(h))
          /\ SF_vars(hpc[h] = "bridging" /\ canceled[hsession[h]] /\ HandlerReturn(h))

FairSpec == Spec /\ Fairness

-----------------------------------------------------------------------------
(* Properties *)

\* STATE names a session exactly as long as that session listens and may not
\* be cancelled by anybody else: StartProxy reports 0 only for a bound
\* listener, nothing but StopProxy takes it away, and no listener that STATE
\* does not know is left running, except the one a StartProxy in progress is
\* about to publish.
OneLiveSession ==
    /\ state # None => Listening(state) /\ ~canceled[state]
    /\ \A k \in Sessions :
          Listening(k) /\ k # state => canceled[k] \/ (holder # NoCaller /\ k = last)

\* DC_OPT is written by a run task, after the bind, without the mutex of STATE:
\* the sessions that use one port still never route by the map of another
\* session, because the next bind needs the port of the one before.
RouteTableCurrent ==
    \A k \in Sessions :
        run[k] = "accepting" /\ ~canceled[k] =>
            dcOpt = k \/ \E j \in 1..(k - 1) : port[j] # port[k]

\* The handlers that have counted themselves and have not given it back.
Counted ==
    {h \in Handlers :
        hpc[h] \in {"connecting", "writing", "bridging", "leaving", "subtracting"}}

\* No write of the handler blocks for ever: its peers read, or close.
PeersRead(h) == []<>(hpc[h] # "writing")

\* A session that StopProxy took out of STATE dies: its listener is dropped, so
\* the port is free again, and each handler whose peers read leaves, wherever it
\* was when the token was cancelled, one accepted after the cancellation included.
\* A handler whose peer has stopped reading may stay (CancelEndsBridge of BridgeWs).
StopEndsEverything ==
    /\ \A k \in Sessions : finisher[k] # "none" ~> run[k] = "done"
    /\ \A h \in Handlers :
          PeersRead(h) =>
            ((hsession[h] # 0 /\ finisher[hsession[h]] # "none") ~> hpc[h] = "done")

\* The mutex of STATE is held across a bind, but every call returns.
CallsReturn == \A c \in Callers : (fpc[c] # "idle") ~> (fpc[c] = "idle")

\* What the host may rely on.  A start takes effect with the bind, before the
\* caller that waits for it has its answer; a stop with the cancellation, before
\* the run task sees it.
Up ==
    IF state # None THEN port[state]
    ELSE IF (\E c \in Callers : fpc[c] = "starting") /\ Listening(last) THEN port[last]
    ELSE NoPort

Promised == INSTANCE Service WITH
                up <- Up,
                open <- {port[k] : k \in {j \in Sessions : Listening(j)}}

\* The calls, the run tasks and the handlers do what Service promises.
ImplementsService == Promised!Spec

=============================================================================
