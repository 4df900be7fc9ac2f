---------------------------- MODULE ProxyCoreProofs ----------------------------
(***************************************************************************)
(* Theorems about ProxyCore and its history, for any number of callers,     *)
(* handlers, ports and sessions.                                            *)
(*                                                                         *)
(* OneLiveSession and RouteTableCurrent are not inductive.  What carries    *)
(* them is that the mutex of STATE is held from the test of STATE to the    *)
(* return, so that at most one session is on its way to a listener, and it  *)
(* is the latest: every session before it either has no listener or has     *)
(* been cancelled.  While no call has it, every session that may still fail *)
(* a dial is therefore the latest or was in flight when the tables were     *)
(* cleared, which is what StalePenaltiesWereInFlight needs; ActiveExact     *)
(* follows the counter through the two halves of ActiveGuard::drop.         *)
(***************************************************************************)
EXTENDS MCProxyCoreHistory, FiniteSetTheorems, TLAPS

RunStates == {"none", "binding", "bound", "accepting", "closing", "done", "failed"}
CallStates == {"idle", "starting", "reset", "clear"}

\* The part of the types that the session's life depends on.
Types ==
    /\ state \in 0..MaxSession /\ last \in 0..MaxSession /\ MaxSession \in Nat
    /\ holder \in Callers \cup {NoCaller}
    /\ fpc \in [Callers -> CallStates]
    /\ run \in [Sessions -> RunStates]
    /\ canceled \in [Sessions -> BOOLEAN]

\* The mutex of STATE: whoever is inside a call holds it.
MutexInv == \A c \in Callers : fpc[c] # "idle" => holder = c

\* Some StartProxy waits for the bind of the latest session.
Starting == \E c \in Callers : fpc[c] = "starting"

\* What is known of one session.
SessionInv(k) ==
    /\ k > last => run[k] = "none" /\ ~canceled[k]
    /\ run[k] = "binding" => k = last /\ Starting
    /\ run[k] \in {"closing", "done"} => canceled[k]
    /\ Listening(k) /\ ~canceled[k] => k = last /\ (state = k \/ Starting)

LatestInv ==
    /\ Starting => state = None /\ last # 0 /\ ~canceled[last] /\ run[last] # "none"
    /\ state # None => state = last /\ Listening(last) /\ ~canceled[last]

LifeInv == Types /\ MutexInv /\ LatestInv /\ \A k \in Sessions : SessionInv(k)

\* Two listeners never share a port.
PortsApart ==
    \A j, k \in Sessions : j # k /\ Listening(j) /\ Listening(k) => port[j] # port[k]

CoreInv == LifeInv /\ PortsApart /\ RouteTableCurrent

life == <<state, holder, last, fpc, run, canceled>>

-----------------------------------------------------------------------------
(* The calls.                                                                *)

\* Only the caller that holds the mutex can be starting.
LEMMA OneStarts ==
    ASSUME MutexInv, NEW c \in Callers, fpc[c] # "idle"
    PROVE  /\ holder = c /\ holder # NoCaller
           /\ \A e \in Callers \ {c} : fpc[e] = "idle"
           /\ Starting <=> fpc[c] = "starting"
  BY CallerAssumption DEF MutexInv, Starting

LEMMA FreeMutex ==
    ASSUME MutexInv, holder = NoCaller
    PROVE  (\A c \in Callers : fpc[c] = "idle") /\ ~Starting
  BY CallerAssumption DEF MutexInv, Starting

LEMMA StartBeginKeeps ==
    ASSUME LifeInv, NEW c \in Callers, StartBegin(c)
    PROVE  LifeInv'
<1>1. /\ \A e \in Callers : fpc[e] = "idle"
      /\ ~Starting
      /\ holder = NoCaller /\ state = None /\ last < MaxSession
      /\ last \in Nat /\ last + 1 \in Sessions
  BY FreeMutex DEF LifeInv, Types, StartBegin, Sessions
<1>2. /\ last' = last + 1 /\ holder' = c /\ fpc'[c] = "starting"
      /\ \A e \in Callers \ {c} : fpc'[e] = "idle"
      /\ run'[last + 1] = "binding"
      /\ \A k \in Sessions \ {last + 1} : run'[k] = run[k]
      /\ canceled' = canceled /\ state' = None
  BY <1>1 DEF LifeInv, Types, StartBegin
<1>3. Types'
  BY <1>1 DEF LifeInv, Types, StartBegin, RunStates, CallStates, Sessions, None
<1>4. MutexInv' /\ Starting'
  BY <1>2 DEF MutexInv, Starting
<1>5. run[last + 1] = "none" /\ ~canceled[last + 1]
  BY <1>1 DEF LifeInv, SessionInv
<1>6. LatestInv'
  BY <1>1, <1>2, <1>4, <1>5 DEF LatestInv, None
<1>7. ASSUME NEW k \in Sessions
      PROVE  SessionInv(k)'
  <2>1. SessionInv(k) /\ k \in Nat
    BY DEF LifeInv, Sessions
  <2>2. CASE k = last + 1
    BY <1>1, <1>2, <1>4, <1>5, <2>2 DEF SessionInv, Listening
  <2>3. CASE k # last + 1
    BY <1>1, <1>2, <1>4, <2>1, <2>3 DEF SessionInv, Listening, None, Sessions
  <2>. QED  BY <2>2, <2>3
<1>. QED  BY <1>3, <1>4, <1>6, <1>7 DEF LifeInv

LEMMA StartEndKeeps ==
    ASSUME LifeInv, NEW c \in Callers, StartOk(c) \/ StartBindFailed(c)
    PROVE  LifeInv'
<1>1. /\ fpc[c] = "starting" /\ Starting /\ holder = c
      /\ \A e \in Callers \ {c} : fpc[e] = "idle"
      /\ state = None /\ last # 0 /\ ~canceled[last] /\ last \in Sessions
      /\ run[last] # "none" /\ run[last] \in RunStates
  BY OneStarts DEF LifeInv, Types, LatestInv, StartOk, StartBindFailed, Sessions
<1>2. /\ \A e \in Callers : fpc'[e] = "idle"
      /\ holder' = NoCaller /\ last' = last /\ run' = run /\ canceled' = canceled
      /\ ~Starting'
  BY <1>1 DEF LifeInv, Types, StartOk, StartBindFailed, tasks, Starting
<1>3. \/ state' = last /\ Listening(last)
      \/ state' = None /\ run[last] = "failed"
  <2>1. CASE StartOk(c)
    <3>1. run[last] \notin {"binding", "failed", "none", "closing", "done"}
      BY <1>1, <2>1 DEF StartOk, LifeInv, SessionInv
    <3>. QED  BY <1>1, <2>1, <3>1 DEF StartOk, Listening, RunStates
  <2>2. CASE StartBindFailed(c)
    BY <1>1, <2>2 DEF StartBindFailed
  <2>. QED  BY <2>1, <2>2
<1>4. Types'
  BY <1>1, <1>2, <1>3 DEF LifeInv, Types, StartOk, StartBindFailed, CallStates, None
<1>5. MutexInv' /\ LatestInv'
  BY <1>1, <1>2, <1>3 DEF MutexInv, LatestInv, None, Listening
<1>6. ASSUME NEW k \in Sessions
      PROVE  SessionInv(k)'
  <2>1. SessionInv(k) /\ (run[k] = "binding" => k = last)
    BY DEF LifeInv, SessionInv
  <2>2. run[last] # "binding"
    BY DEF StartOk, StartBindFailed
  <2>. QED  BY <1>1, <1>2, <1>3, <2>1, <2>2 DEF SessionInv, Listening
<1>. QED  BY <1>4, <1>5, <1>6 DEF LifeInv

LEMMA StopCancelKeeps ==
    ASSUME LifeInv, NEW c \in Callers, StopCancel(c)
    PROVE  LifeInv'
<1>1. /\ \A e \in Callers : fpc[e] = "idle"
      /\ ~Starting /\ holder = NoCaller
      /\ state # None /\ state = last /\ Listening(last) /\ last \in Sessions
  BY FreeMutex DEF LifeInv, Types, LatestInv, StopCancel, Sessions, None
<1>2. /\ fpc'[c] = "reset" /\ \A e \in Callers \ {c} : fpc'[e] = "idle"
      /\ holder' = c /\ state' = None /\ last' = last /\ run' = run
      /\ canceled'[last] /\ \A k \in Sessions \ {last} : canceled'[k] = canceled[k]
      /\ ~Starting'
  BY <1>1 DEF LifeInv, Types, StopCancel, Starting
<1>3. Types'
  BY <1>1 DEF LifeInv, Types, StopCancel, CallStates, None
<1>4. MutexInv' /\ LatestInv'
  BY <1>1, <1>2 DEF MutexInv, LatestInv, None
<1>5. ASSUME NEW k \in Sessions
      PROVE  SessionInv(k)'
  <2>1. SessionInv(k) /\ ~(last > last) /\ (run[k] = "binding" => FALSE)
    BY <1>1 DEF LifeInv, SessionInv, Types
  <2>2. CASE k = last
    BY <1>1, <1>2, <2>1, <2>2 DEF SessionInv, Listening
  <2>3. CASE k # last
    BY <1>1, <1>2, <2>1, <2>3 DEF SessionInv, Listening
  <2>. QED  BY <2>2, <2>3
<1>. QED  BY <1>3, <1>4, <1>5 DEF LifeInv

LEMMA StopEndKeeps ==
    ASSUME LifeInv, NEW c \in Callers, StopReset(c) \/ StopClear(c)
    PROVE  LifeInv'
<1>1. /\ fpc[c] \in {"reset", "clear"} /\ ~Starting /\ holder = c
      /\ \A e \in Callers \ {c} : fpc[e] = "idle"
  BY OneStarts DEF LifeInv, StopReset, StopClear
<1>2. /\ fpc'[c] \in {"clear", "idle"} /\ \A e \in Callers \ {c} : fpc'[e] = "idle"
      /\ state' = state /\ last' = last /\ run' = run /\ canceled' = canceled
      /\ holder' = c \/ (fpc'[c] = "idle" /\ holder' = NoCaller)
      /\ ~Starting'
  BY <1>1 DEF LifeInv, Types, StopReset, StopClear, tasks, Starting
<1>3. Types'
  BY <1>1 DEF LifeInv, Types, StopReset, StopClear, tasks, CallStates
<1>4. MutexInv' /\ LatestInv'
  BY <1>1, <1>2 DEF LifeInv, MutexInv, LatestInv, Listening
<1>5. ASSUME NEW k \in Sessions
      PROVE  SessionInv(k)'
  BY <1>1, <1>2 DEF LifeInv, SessionInv, Listening
<1>. QED  BY <1>3, <1>4, <1>5 DEF LifeInv

-----------------------------------------------------------------------------
(* The run tasks.                                                            *)

LEMMA RunKeeps ==
    ASSUME LifeInv, NEW k \in Sessions, RunStep(k)
    PROVE  LifeInv'
<1>1. /\ UNCHANGED <<state, holder, last, fpc, canceled>>
      /\ \A j \in Sessions \ {k} : run'[j] = run[j]
      /\ \/ run[k] = "binding" /\ run'[k] \in {"bound", "failed"}
         \/ run[k] = "bound" /\ run'[k] = "accepting"
         \/ run[k] = "accepting" /\ canceled[k] /\ run'[k] = "closing"
         \/ run[k] = "closing" /\ run'[k] = "done"
  BY DEF LifeInv, Types, RunStep, Bind, RunBegin, RunBreak, RunEnd, ffi
<1>2. Types'
  BY DEF LifeInv, Types, RunStep, Bind, RunBegin, RunBreak, RunEnd, ffi, RunStates
<1>3. Starting' = Starting /\ MutexInv'
  BY <1>1 DEF LifeInv, Starting, MutexInv
<1>4. SessionInv(k) /\ k \in Nat /\ last \in Nat
  BY DEF LifeInv, Sessions, Types
<1>5. LatestInv'
  BY <1>1, <1>3, <1>4 DEF LifeInv, LatestInv, Listening, Types, Sessions, None
<1>6. SessionInv(k)'
  BY <1>1, <1>3, <1>4 DEF SessionInv, Listening
<1>7. ASSUME NEW j \in Sessions \ {k}
      PROVE  SessionInv(j)'
  BY <1>1, <1>3 DEF LifeInv, SessionInv, Listening
<1>. QED  BY <1>2, <1>3, <1>5, <1>6, <1>7 DEF LifeInv

LEMMA IdleLife ==
    ASSUME LifeInv, UNCHANGED life
    PROVE  LifeInv'
  BY DEF LifeInv, life, Types, MutexInv, LatestInv, SessionInv, Starting, Listening

\* The rest of the actions: the handlers, the spawned tasks and refused calls.
Elsewhere ==
    \/ \E c \in Callers : StartRefused(c) \/ StopRefused(c)
    \/ \E k \in Sessions : Finish(k)
    \/ \E k \in Sessions, h \in Handlers : Accept(k, h)
    \/ \E h \in Handlers : HandlerStep(h)
    \/ UNCHANGED vars

LEMMA ElsewhereIdle ==
    ASSUME Elsewhere
    PROVE  UNCHANGED <<life, port, dcOpt>>
  BY DEF Elsewhere, life, StartRefused, StopRefused, Finish, Accept, HandlerStep,
         HandlerCount, HandlerPenalty, HandlerBridge,
         HandlerWrites, HandlerWrote, HandlerReturn, HandlerLoad,
         HandlerSub, vars, ffi, tasks

LEMMA LifeStep ==
    ASSUME LifeInv, [Next]_vars
    PROVE  LifeInv'
<1>1. CASE Elsewhere
  BY <1>1, ElsewhereIdle, IdleLife
<1>2. CASE \E c \in Callers : StartBegin(c)
  BY <1>2, StartBeginKeeps
<1>3. CASE \E c \in Callers : StartOk(c) \/ StartBindFailed(c)
  BY <1>3, StartEndKeeps
<1>4. CASE \E c \in Callers : StopCancel(c)
  BY <1>4, StopCancelKeeps
<1>5. CASE \E c \in Callers : StopReset(c) \/ StopClear(c)
  BY <1>5, StopEndKeeps
<1>6. CASE \E k \in Sessions : RunStep(k)
  BY <1>6, RunKeeps
<1>. QED
  BY <1>1, <1>2, <1>3, <1>4, <1>5, <1>6, Zenon DEF Next, CallerStep, Elsewhere

LEMMA LifeInit ==
    ASSUME Init
    PROVE  LifeInv
<1>1. Types
  BY MaxSessionAssumption DEF Init, Types, None, NoCaller, CallStates, RunStates
<1>2. ~Starting /\ MutexInv
  BY DEF Init, Starting, MutexInv
<1>. QED
  BY <1>1, <1>2 DEF Init, LifeInv, LatestInv, SessionInv, Listening, None

-----------------------------------------------------------------------------

\* STATE names a session exactly as long as that session listens, and every
\* other listener has been cancelled or is the one a StartProxy is about to
\* publish, however many calls, threads and sessions there are.
THEOREM OneLiveSessionHolds == Spec => []OneLiveSession
<1>1. ASSUME LifeInv
      PROVE  OneLiveSession
  <2>1. state # None => Listening(state) /\ ~canceled[state]
    BY <1>1 DEF LifeInv, LatestInv
  <2>2. Starting => holder # NoCaller
    BY <1>1, CallerAssumption DEF LifeInv, MutexInv, Starting
  <2>3. ASSUME NEW k \in Sessions, Listening(k), k # state, ~canceled[k]
        PROVE  holder # NoCaller /\ k = last
    BY <1>1, <2>2, <2>3 DEF LifeInv, SessionInv
  <2>. QED  BY <2>1, <2>3, Zenon DEF OneLiveSession
<1>. QED  BY <1>1, LifeInit, LifeStep, PTL DEF Spec

-----------------------------------------------------------------------------
(* The ports and the table of routes.                                        *)

\* A listener that is not cancelled has no later session beside it.
LEMMA NoLater ==
    ASSUME LifeInv, NEW j \in Sessions, NEW k \in Sessions,
           Listening(j), Listening(k), ~canceled[k]
    PROVE  j <= k
  BY DEF LifeInv, SessionInv, Listening, Sessions, Types

LEMMA RoutesStep ==
    ASSUME CoreInv, [Next]_vars
    PROVE  PortsApart' /\ RouteTableCurrent'
<1>. USE DEF CoreInv
<1>1. CASE UNCHANGED <<life, port, dcOpt>>
  BY <1>1 DEF life, PortsApart, RouteTableCurrent, Listening
<1>2. ASSUME NEW c \in Callers,
             \/ StartBegin(c) \/ StartOk(c) \/ StartBindFailed(c)
             \/ StopCancel(c) \/ StopReset(c) \/ StopClear(c)
      PROVE  PortsApart' /\ RouteTableCurrent'
  <2>1. UNCHANGED <<port, dcOpt>>
    BY <1>2 DEF StartBegin, StartOk, StartBindFailed, StopCancel, StopReset, StopClear,
                tasks
  <2>2. \A k \in Sessions :
           run'[k] = run[k] \/ (run'[k] = "binding")
    BY <1>2 DEF StartBegin, StartOk, StartBindFailed, StopCancel, StopReset, StopClear,
                tasks, LifeInv, Types
  <2>3. \A k \in Sessions : canceled[k] => canceled'[k]
    BY <1>2 DEF StartBegin, StartOk, StartBindFailed, StopCancel, StopReset, StopClear,
                tasks, LifeInv, Types
  <2>4. \A k \in Sessions : /\ Listening(k)' => Listening(k)
                            /\ run'[k] = "accepting" => run[k] = "accepting"
    BY <2>2 DEF Listening
  <2>. QED  BY <2>1, <2>3, <2>4 DEF PortsApart, RouteTableCurrent
<1>3. ASSUME NEW k \in Sessions, RunStep(k)
      PROVE  PortsApart' /\ RouteTableCurrent'
  <2>1. /\ UNCHANGED <<port, canceled>>
        /\ \A j \in Sessions \ {k} : run'[j] = run[j]
    BY <1>3 DEF LifeInv, Types, RunStep, Bind, RunBegin, RunBreak, RunEnd
  <2>2. CASE Bind(k)
    <3>1. /\ run'[k] \in {"bound", "failed"} /\ dcOpt' = dcOpt
          /\ run'[k] = "bound" => PortFree(port[k])
      BY <2>2 DEF LifeInv, Types, Bind
    <3>2. PortsApart'
      <4>. SUFFICES ASSUME NEW i \in Sessions, NEW j \in Sessions, i # j,
                           Listening(i)', Listening(j)'
                    PROVE  port[i] # port[j]
        BY <2>1 DEF PortsApart
      <4>1. CASE i = k
        BY <4>1, <3>1, <2>1 DEF PortFree, Listening
      <4>2. CASE j = k
        BY <4>2, <3>1, <2>1 DEF PortFree, Listening
      <4>3. CASE i # k /\ j # k
        BY <4>3, <2>1 DEF PortsApart, Listening
      <4>. QED  BY <4>1, <4>2, <4>3
    <3>3. RouteTableCurrent'
      BY <2>1, <3>1 DEF RouteTableCurrent
    <3>. QED  BY <3>2, <3>3
  <2>3. CASE RunBegin(k)
    <3>1. run[k] = "bound" /\ run'[k] = "accepting" /\ dcOpt' = k
      BY <2>3 DEF LifeInv, Types, RunBegin
    <3>2. PortsApart'
      BY <2>1, <3>1 DEF PortsApart, Listening
    <3>3. RouteTableCurrent'
      <4>. SUFFICES ASSUME NEW j \in Sessions, run'[j] = "accepting", ~canceled[j], j # k
                    PROVE  \E i \in 1..(j - 1) : port[i] # port[j]
        BY <2>1, <3>1 DEF RouteTableCurrent
      <4>1. Listening(j) /\ Listening(k)
        BY <2>1, <3>1 DEF Listening
      <4>2. k <= j /\ k \in 1..(j - 1)
        BY <4>1, NoLater DEF Sessions
      <4>3. port[k] # port[j]
        BY <4>1 DEF PortsApart
      <4>. QED  BY <4>2, <4>3
    <3>. QED  BY <3>2, <3>3
  <2>4. CASE RunBreak(k) \/ RunEnd(k)
    <3>1. run'[k] \in {"closing", "done"} /\ dcOpt' = dcOpt
      BY <2>4 DEF LifeInv, Types, RunBreak, RunEnd
    <3>. QED
      BY <2>1, <3>1 DEF PortsApart, RouteTableCurrent, Listening
  <2>. QED  BY <1>3, <2>2, <2>3, <2>4 DEF RunStep
<1>4. Elsewhere => UNCHANGED <<life, port, dcOpt>>
  BY ElsewhereIdle
<1>. QED
  BY <1>1, <1>2, <1>3, <1>4, Zenon DEF Next, CallerStep, Elsewhere

\* The sessions that use one port route by their own map, although DC_OPT is
\* written by run tasks that outlive their session and hold no lock.
THEOREM RouteTableCurrentHolds == Spec => []RouteTableCurrent
<1>1. Init => CoreInv
  <2>1. Init => PortsApart /\ RouteTableCurrent
    BY DEF Init, PortsApart, RouteTableCurrent, Listening
  <2>. QED  BY <2>1, LifeInit DEF CoreInv
<1>2. CoreInv /\ [Next]_vars => CoreInv'
  BY LifeStep, RoutesStep DEF CoreInv
<1>3. CoreInv => RouteTableCurrent
  BY DEF CoreInv
<1>. QED  BY <1>1, <1>2, <1>3, PTL DEF Spec

-----------------------------------------------------------------------------
(* The penalties a session leaves behind.                                    *)

\* The sessions that are in the tables of penalties or may still get there.
Marked == Connecting \cup penalties \cup cooldowns

\* A StartProxy or StopProxy is at work, or STATE names a session.
Occupied == state # None \/ \E c \in Callers : fpc[c] # "idle"

PenaltyInv ==
    /\ \A k \in Marked : k = last \/ k \in inFlight
    /\ ~Occupied => Marked \subseteq inFlight
    /\ \A k \in Sessions : run[k] \in {"none", "binding", "bound", "failed"} =>
          /\ k \notin penalties \cup cooldowns
          /\ \A h \in Handlers : hsession[h] = k => hpc[h] = "idle"
    /\ hpc = [h \in Handlers |-> hpc[h]] /\ hsession = [h \in Handlers |-> hsession[h]]
    /\ \A h \in Handlers : hpc[h] # "idle" => hsession[h] \in Sessions

LEMMA InFlightKept ==
    ASSUME HNext, \A c \in Callers : fpc[c] = "clear" => fpc'[c] = "clear"
    PROVE  inFlight' = inFlight
  BY DEF HNext

\* No call moves, and nobody new may be punished.
LEMMA MarkedShrinks ==
    ASSUME PenaltyInv, HNext, UNCHANGED <<state, last, fpc>>, Marked' \subseteq Marked
    PROVE  /\ \A k \in Marked' : k = last' \/ k \in inFlight'
           /\ ~Occupied' => Marked' \subseteq inFlight'
<1>1. inFlight' = inFlight
  BY InFlightKept
<1>. QED  BY <1>1 DEF PenaltyInv, Occupied

\* The calls leave the handlers and the run tasks alone, but for a new one.
LEMMA CallsMark ==
    ASSUME LifeInv, PenaltyInv, NEW c \in Callers, CallerStep(c)
    PROVE  /\ Connecting' = Connecting
           /\ UNCHANGED <<hpc, hsession>>
           /\ penalties' \subseteq penalties /\ cooldowns' \subseteq cooldowns
           /\ \A k \in Sessions : run'[k] = run[k] \/ (run[k] = "none" /\ run'[k] = "binding")
<1>1. /\ UNCHANGED <<hpc, hsession>>
      /\ penalties' \subseteq penalties /\ cooldowns' \subseteq cooldowns
  BY DEF CallerStep, StartRefused, StartBegin, StartOk, StartBindFailed, StopRefused, StopCancel,
         StopReset, StopClear, handlers, tables
<1>2. \A k \in Sessions : run'[k] = run[k] \/ (run[k] = "none" /\ run'[k] = "binding")
  <2>1. CASE StartBegin(c)
    <3>1. last + 1 \in Sessions /\ last + 1 > last
      BY <2>1 DEF StartBegin, LifeInv, Types, Sessions
    <3>2. run[last + 1] = "none"
      BY <3>1 DEF LifeInv, SessionInv
    <3>. QED  BY <2>1, <3>2 DEF StartBegin, LifeInv, Types
  <2>2. CASE ~StartBegin(c)
    BY <2>2 DEF CallerStep, StartRefused, StartOk, StartBindFailed, StopRefused, StopCancel,
                StopReset, StopClear, tasks
  <2>. QED  BY <2>1, <2>2
<1>. QED  BY <1>1, <1>2 DEF Connecting, Listening

LEMMA CallsPunish ==
    ASSUME LifeInv, PenaltyInv, HNext, NEW c \in Callers, CallerStep(c)
    PROVE  PenaltyInv'
<1>1. /\ Connecting' = Connecting /\ UNCHANGED <<hpc, hsession>>
      /\ penalties' \subseteq penalties /\ cooldowns' \subseteq cooldowns
      /\ \A k \in Sessions : run'[k] = run[k] \/ (run[k] = "none" /\ run'[k] = "binding")
      /\ Marked' \subseteq Marked
  BY CallsMark DEF Marked
<1>2. /\ \A k \in Sessions : run'[k] \in {"none", "binding", "bound", "failed"} =>
            /\ k \notin penalties' \cup cooldowns'
            /\ \A h \in Handlers : hsession'[h] = k => hpc'[h] = "idle"
      /\ hpc' = [h \in Handlers |-> hpc'[h]] /\ hsession' = [h \in Handlers |-> hsession'[h]]
      /\ \A h \in Handlers : hpc'[h] # "idle" => hsession'[h] \in Sessions
  BY <1>1 DEF PenaltyInv
<1>3. CASE StartRefused(c) \/ StopRefused(c)
  BY <1>1, <1>2, <1>3, MarkedShrinks DEF StartRefused, StopRefused, PenaltyInv
<1>4. CASE StartBegin(c)
  <2>1. ~Occupied
    BY <1>4, FreeMutex DEF StartBegin, Occupied, LifeInv
  <2>2. inFlight' = inFlight /\ Occupied'
    BY <1>4, <2>1, InFlightKept DEF StartBegin, Occupied, LifeInv, Types
  <2>. QED  BY <1>1, <1>2, <2>1, <2>2 DEF PenaltyInv
<1>5. CASE StartOk(c)
  <2>1. inFlight' = inFlight /\ last' = last /\ Occupied'
    BY <1>5, InFlightKept DEF StartOk, Occupied, LifeInv, Types, LatestInv, Starting, None
  <2>. QED  BY <1>1, <1>2, <2>1 DEF PenaltyInv
<1>6. CASE StartBindFailed(c)
  <2>1. inFlight' = inFlight /\ last' = last
    BY <1>6, InFlightKept DEF StartBindFailed, LifeInv, Types
  <2>2. last \in Sessions /\ run[last] = "failed"
    BY <1>6 DEF StartBindFailed, LifeInv, Types, LatestInv, Starting, Sessions
  <2>3. last \notin Marked
    BY <2>2 DEF PenaltyInv, Marked, Connecting, Listening
  <2>. QED  BY <1>1, <1>2, <2>1, <2>3 DEF PenaltyInv
<1>7. CASE StopCancel(c) \/ StopReset(c)
  <2>1. inFlight' = inFlight /\ last' = last /\ Occupied'
    BY <1>7, InFlightKept DEF StopCancel, StopReset, Occupied, LifeInv, Types
  <2>. QED  BY <1>1, <1>2, <2>1 DEF PenaltyInv
<1>8. CASE StopClear(c)
  <2>1. fpc[c] = "clear" /\ fpc'[c] = "idle" /\ penalties' = {} /\ cooldowns' = {}
    BY <1>8 DEF StopClear, LifeInv, Types
  <2>2. inFlight' = Connecting
    BY <2>1 DEF HNext
  <2>. QED  BY <1>1, <1>2, <2>1, <2>2 DEF PenaltyInv, Marked
<1>. QED  BY <1>3, <1>4, <1>5, <1>6, <1>7, <1>8 DEF CallerStep

LEMMA TasksPunish ==
    ASSUME LifeInv, PenaltyInv, HNext, NEW k \in Sessions, RunStep(k) \/ Finish(k)
    PROVE  PenaltyInv'
<1>1. /\ UNCHANGED <<state, last, fpc, penalties, cooldowns, hpc, hsession>>
      /\ \A j \in Sessions \ {k} : run'[j] = run[j]
      /\ \/ run'[k] = run[k]
         \/ run[k] = "binding" /\ run'[k] \in {"bound", "failed"}
         \/ run[k] \in {"bound", "accepting", "closing"}
            /\ run'[k] \in {"accepting", "closing", "done"}
            /\ (run'[k] = "accepting" => run[k] = "bound")
  BY DEF LifeInv, Types, RunStep, Bind, RunBegin, RunBreak, RunEnd, Finish, ffi, tables, handlers
<1>2. inFlight' = inFlight
  BY <1>1, InFlightKept
<1>3. \/ Marked' \subseteq Marked
      \/ Marked' \subseteq Marked \cup {k} /\ k = last /\ Starting
  <2>1. CASE run[k] = "binding"
    <3>1. k = last /\ Starting
      BY <2>1 DEF LifeInv, SessionInv
    <3>. QED  BY <1>1, <3>1 DEF Marked, Connecting, Listening
  <2>2. CASE run[k] # "binding"
    BY <1>1, <2>2 DEF Marked, Connecting, Listening
  <2>. QED  BY <2>1, <2>2
<1>4. /\ \A j \in Marked' : j = last' \/ j \in inFlight'
      /\ ~Occupied' => Marked' \subseteq inFlight'
  BY <1>1, <1>2, <1>3 DEF PenaltyInv, Occupied, Starting
<1>5. \A j \in Sessions : run'[j] \in {"none", "binding", "bound", "failed"} =>
         run[j] \in {"none", "binding", "bound", "failed"}
  BY <1>1
<1>. QED  BY <1>1, <1>4, <1>5 DEF PenaltyInv

LEMMA HandlersPunish ==
    ASSUME LifeInv, PenaltyInv, HNext,
           \/ \E k \in Sessions, h \in Handlers : Accept(k, h)
           \/ \E h \in Handlers : HandlerStep(h)
    PROVE  PenaltyInv'
<1>1. CASE \E k \in Sessions, h \in Handlers : Accept(k, h)
  <2>1. PICK k \in Sessions, h \in Handlers : Accept(k, h)
    BY <1>1
  <2>2. /\ UNCHANGED <<state, last, fpc, run, penalties, cooldowns>>
        /\ run[k] = "accepting" /\ hpc'[h] = "accepted" /\ hsession'[h] = k
        /\ \A g \in Handlers \ {h} : hpc'[g] = hpc[g] /\ hsession'[g] = hsession[g]
        /\ hpc' = [g \in Handlers |-> hpc'[g]] /\ hsession' = [g \in Handlers |-> hsession'[g]]
    BY <2>1 DEF Accept, PenaltyInv, ffi, tasks, tables
  <2>3. Marked' \subseteq Marked
    BY <2>2 DEF Marked, Connecting, Listening
  <2>. QED  BY <2>2, <2>3, MarkedShrinks DEF PenaltyInv
<1>2. ASSUME NEW h \in Handlers, HandlerStep(h) PROVE PenaltyInv'
  <2>1. /\ UNCHANGED <<state, last, fpc, run, hsession>> /\ hpc[h] # "idle"
        /\ \A g \in Handlers \ {h} : hpc'[g] = hpc[g]
        /\ hpc' = [g \in Handlers |-> hpc'[g]]
        /\ hpc'[h] \in {"accepted", "connecting"} => hpc[h] \in {"accepted", "connecting"}
    BY <1>2 DEF HandlerStep, HandlerCount, HandlerPenalty, HandlerBridge,
                HandlerWrites, HandlerWrote, HandlerReturn,
                HandlerLoad, HandlerSub, PenaltyInv, ffi, tasks, handlers
  <2>2. Connecting' \subseteq Connecting
    BY <2>1 DEF Connecting, Listening
  <2>3. \/ penalties' = penalties /\ cooldowns' = cooldowns
        \/ /\ hpc[h] = "connecting"
           /\ penalties' \cup cooldowns' = penalties \cup cooldowns \cup {hsession[h]}
    BY <1>2 DEF HandlerStep, HandlerCount, HandlerPenalty, HandlerBridge,
                HandlerWrites, HandlerWrote, HandlerReturn,
                HandlerLoad, HandlerSub, tables
  <2>4. hsession[h] \in Sessions /\ run[hsession[h]] \notin {"none", "binding", "bound", "failed"}
    BY <2>1 DEF PenaltyInv
  <2>5. Marked' \subseteq Marked
    BY <2>2, <2>3, <2>4 DEF Marked, Connecting
  <2>. QED  BY <2>1, <2>3, <2>4, <2>5, MarkedShrinks DEF PenaltyInv
<1>. QED  BY <1>1, <1>2

-----------------------------------------------------------------------------
(* The number of active connections.                                         *)

CountInv ==
    /\ IsFiniteSet(Counted) /\ active \in Int
    /\ ActiveExact

LEMMA CountStep ==
    ASSUME LifeInv, PenaltyInv, CountInv, HNext
    PROVE  CountInv'
<1>1. Next /\ dirty' = (IF \E c \in Callers : fpc[c] = "reset" /\ fpc'[c] = "clear"
                        THEN Counted # {} ELSE dirty)
  BY DEF HNext
<1>2. CASE \E c \in Callers : StopReset(c)
  <2>1. active' = 0 /\ hpc' = hpc /\ dirty' = (Counted # {})
    BY <1>1, <1>2 DEF StopReset, handlers, LifeInv, Types
  <2>2. Counted' = Counted
    BY <2>1 DEF Counted
  <2>3. dirty' \/ active' = Cardinality(Counted')
    BY <2>1, <2>2, FS_EmptySet
  <2>. QED  BY <2>1, <2>2, <2>3 DEF CountInv, ActiveExact
<1>3. CASE \/ \E c \in Callers : CallerStep(c) /\ ~StopReset(c)
           \/ \E k \in Sessions : RunStep(k) \/ Finish(k)
  <2>1. UNCHANGED <<hpc, active>> /\ \A c \in Callers : fpc[c] = "reset" => fpc'[c] # "clear"
    BY <1>3 DEF CallerStep, StartRefused, StartBegin, StartOk, StartBindFailed, StopRefused,
                StopCancel, StopClear, RunStep, Bind, RunBegin, RunBreak, RunEnd, Finish,
                handlers, stats, ffi, LifeInv, Types
  <2>2. dirty' = dirty /\ Counted' = Counted
    BY <1>1, <2>1 DEF Counted
  <2>. QED  BY <2>1, <2>2 DEF CountInv, ActiveExact
<1>4. CASE \/ \E k \in Sessions, h \in Handlers : Accept(k, h)
           \/ \E h \in Handlers : HandlerStep(h)
  <2>1. PICK h \in Handlers : (\E k \in Sessions : Accept(k, h)) \/ HandlerStep(h)
    BY <1>4
  <2>2. fpc' = fpc
    BY <2>1 DEF Accept, HandlerStep, HandlerCount, HandlerPenalty, HandlerBridge,
                HandlerWrites, HandlerWrote, HandlerReturn,
                HandlerLoad, HandlerSub, ffi
  <2>3. dirty' = dirty
    BY <1>1, <2>2
  <2>4. \A g \in Handlers \ {h} : hpc'[g] = hpc[g]
    BY <2>1 DEF Accept, HandlerStep, HandlerCount, HandlerPenalty, HandlerBridge,
                HandlerWrites, HandlerWrote, HandlerReturn,
                HandlerLoad, HandlerSub, handlers, PenaltyInv
  <2>5. CASE HandlerCount(h)
    <3>1. Counted' = Counted \cup {h} /\ h \notin Counted /\ active' = active + 1
      BY <2>4, <2>5 DEF HandlerCount, Counted, PenaltyInv
    <3>2. /\ IsFiniteSet(Counted')
          /\ Cardinality(Counted') = Cardinality(Counted) + 1
      BY <3>1, FS_AddElement DEF CountInv
    <3>. QED  BY <2>3, <3>1, <3>2 DEF CountInv, ActiveExact
  <2>6. CASE HandlerSub(h)
    <3>1. Counted' = Counted \ {h} /\ h \in Counted /\ active' = active - 1
      BY <2>4, <2>6 DEF HandlerSub, Counted, PenaltyInv
    <3>2. /\ IsFiniteSet(Counted')
          /\ Cardinality(Counted') = Cardinality(Counted) - 1
      BY <3>1, FS_RemoveElement DEF CountInv
    <3>. QED  BY <2>3, <3>1, <3>2 DEF CountInv, ActiveExact
  <2>7. CASE HandlerLoad(h) /\ active <= 0
    <3>1. Counted' = Counted \ {h} /\ h \in Counted /\ active' = active
      BY <2>4, <2>7 DEF HandlerLoad, Counted, PenaltyInv, stats, CountInv
    <3>2. /\ IsFiniteSet(Counted')
          /\ Cardinality(Counted') = Cardinality(Counted) - 1
          /\ Cardinality(Counted') \in Nat
      BY <3>1, FS_RemoveElement, FS_CardinalityType DEF CountInv
    <3>3. Cardinality(Counted) \in Nat
      BY FS_CardinalityType DEF CountInv
    <3>4. active # Cardinality(Counted)
      BY <2>7, <3>2, <3>3 DEF CountInv
    <3>. QED  BY <2>3, <3>1, <3>2, <3>4 DEF CountInv, ActiveExact
  <2>8. CASE \/ \E k \in Sessions : Accept(k, h)
             \/ HandlerPenalty(h) \/ HandlerBridge(h) \/ HandlerWrites(h)
             \/ HandlerWrote(h) \/ HandlerReturn(h)
             \/ HandlerLoad(h) /\ active > 0
    <3>1. active' = active /\ Counted' = Counted
      BY <2>4, <2>8 DEF Accept, HandlerPenalty, HandlerBridge,
                        HandlerWrites, HandlerWrote, HandlerReturn, HandlerLoad, Counted,
                        PenaltyInv, stats, handlers
    <3>. QED  BY <2>3, <3>1 DEF CountInv, ActiveExact
  <2>9. active <= 0 \/ active > 0
    BY DEF CountInv
  <2>. QED  BY <2>1, <2>5, <2>6, <2>7, <2>8, <2>9 DEF HandlerStep
<1>. QED  BY <1>1, <1>2, <1>3, <1>4 DEF Next

-----------------------------------------------------------------------------

HistoryInv == LifeInv /\ PenaltyInv /\ CountInv

LEMMA HistoryStep ==
    ASSUME HistoryInv, [HNext]_<<vars, dirty, inFlight>>
    PROVE  HistoryInv'
<1>1. CASE HNext
  <2>1. Next /\ LifeInv'
    BY <1>1, LifeStep DEF HNext, HistoryInv
  <2>2. PenaltyInv'
    BY <1>1, <2>1, CallsPunish, TasksPunish, HandlersPunish DEF Next, HistoryInv
  <2>. QED  BY <1>1, <2>1, <2>2, CountStep DEF HistoryInv
<1>2. CASE UNCHANGED <<vars, dirty, inFlight>>
  <2>1. LifeInv'
    BY <1>2, LifeStep DEF HistoryInv
  <2>2. PenaltyInv' /\ CountInv'
    BY <1>2 DEF HistoryInv, PenaltyInv, CountInv, ActiveExact, Counted, Marked, Occupied,
                Connecting, Listening, vars, ffi, tasks, tables, stats, handlers
  <2>. QED  BY <2>1, <2>2 DEF HistoryInv
<1>. QED  BY <1>1, <1>2

LEMMA HistoryInit ==
    ASSUME HInit
    PROVE  HistoryInv
<1>1. LifeInv
  BY LifeInit DEF HInit
<1>2. PenaltyInv
  BY DEF HInit, Init, PenaltyInv, Marked, Connecting, Listening
<1>3. Counted = {} /\ active = 0
  BY DEF HInit, Init, Counted
<1>4. CountInv
  BY <1>3, FS_EmptySet DEF CountInv, ActiveExact
<1>. QED  BY <1>1, <1>2, <1>4 DEF HistoryInv

\* A session is punished for the dials of an earlier one only if that one was
\* still connecting a client when StopProxy cleared the tables.
THEOREM StalePenaltiesWereInFlightHolds == HSpec => []StalePenaltiesWereInFlight
<1>1. HistoryInv => StalePenaltiesWereInFlight
  BY DEF HistoryInv, PenaltyInv, Marked, StalePenaltiesWereInFlight
<1>. QED  BY <1>1, HistoryInit, HistoryStep, PTL DEF HSpec

\* The counter of active connections is exact unless a reset met a handler at
\* work, although load and subtraction are two steps and nobody holds a lock.
THEOREM ActiveExactHolds == HSpec => []ActiveExact
<1>1. HistoryInv => ActiveExact
  BY DEF HistoryInv, CountInv
<1>. QED  BY <1>1, HistoryInit, HistoryStep, PTL DEF HSpec

-----------------------------------------------------------------------------
(* The promise of the core to its host.                                      *)

\* The ports on which sessions listen.
Open == {port[k] : k \in {j \in Sessions : Listening(j)}}

PromiseInv == CoreInv /\ port \in [Sessions -> Ports]

LEMMA UpIs ==
    /\ state # None => Up = port[state]
    /\ state = None /\ Starting /\ Listening(last) => Up = port[last]
    /\ state = None /\ ~(Starting /\ Listening(last)) => Up = NoPort
  BY DEF Up, Starting

\* The listeners stay, and so does the session that is up.
LEMMA SameListeners ==
    ASSUME port' = port, \A k \in Sessions : Listening(k)' <=> Listening(k)
    PROVE  Open' = Open
<1>1. {j \in Sessions : Listening(j)'} = {j \in Sessions : Listening(j)}
  OBVIOUS
<1>. QED  BY <1>1, Zenon DEF Open

LEMMA CallsPromise ==
    ASSUME PromiseInv, NEW c \in Callers,
           \/ StartBegin(c) \/ StartOk(c) \/ StartBindFailed(c)
           \/ StopCancel(c) \/ StopReset(c) \/ StopClear(c)
    PROVE  Open' = Open /\ (Up' = Up \/ (Up # NoPort /\ Up' = NoPort))
<1>. USE DEF PromiseInv, CoreInv
<1>1. port' = port
  BY DEF StartBegin, StartOk, StartBindFailed, StopCancel, StopReset, StopClear, tasks
<1>2. LifeInv'
  BY StartBeginKeeps, StartEndKeeps, StopCancelKeeps, StopEndKeeps
<1>3. CASE StartBegin(c)
  <2>1. /\ holder = NoCaller /\ state = None /\ state' = None
        /\ last' = last + 1 /\ last + 1 \in Sessions
        /\ run' = [run EXCEPT ![last + 1] = "binding"]
    BY <1>3 DEF StartBegin, LifeInv, Types, Sessions
  <2>2. ~Starting
    BY <2>1, FreeMutex DEF LifeInv
  <2>3. run[last + 1] = "none"
    BY <2>1 DEF LifeInv, SessionInv, Types
  <2>4. /\ run'[last + 1] = "binding"
        /\ \A k \in Sessions \ {last + 1} : run'[k] = run[k]
    BY <2>1 DEF LifeInv, Types
  <2>5. \A k \in Sessions : Listening(k)' <=> Listening(k)
    BY <2>3, <2>4 DEF Listening
  <2>6. ~Listening(last)'
    BY <2>1, <2>4 DEF Listening
  <2>7. Up = NoPort /\ Up' = NoPort
    BY <2>1, <2>2, <2>6, UpIs DEF Up
  <2>. QED  BY <1>1, <2>5, <2>7, SameListeners
<1>4. CASE StartOk(c) \/ StartBindFailed(c)
  <2>1. /\ fpc[c] = "starting" /\ Starting /\ state = None
        /\ run' = run /\ last' = last /\ last \in Sessions /\ last # None
        /\ \A e \in Callers \ {c} : fpc[e] = "idle"
        /\ fpc' = [fpc EXCEPT ![c] = "idle"]
    BY <1>4, OneStarts
       DEF StartOk, StartBindFailed, LifeInv, LatestInv, Types, Starting, Sessions, None, tasks
  <2>2. \A e \in Callers : fpc'[e] = "idle"
    BY <2>1 DEF LifeInv, Types
  <2>3. \A k \in Sessions : Listening(k)' <=> Listening(k)
    BY <2>1 DEF Listening
  <2>4. CASE StartOk(c)
    <3>1. state' = last
      BY <2>4 DEF StartOk
    <3>2. Listening(last)
      BY <1>2, <2>1, <2>3, <3>1 DEF LifeInv, LatestInv
    <3>3. Up = port[last] /\ Up' = port[last]
      BY <1>1, <2>1, <3>1, <3>2, UpIs DEF Up
    <3>. QED  BY <1>1, <2>3, <3>3, SameListeners
  <2>5. CASE StartBindFailed(c)
    <3>1. state' = None /\ ~Listening(last)
      BY <2>1, <2>5 DEF StartBindFailed, Listening
    <3>2. Up = NoPort
      BY <2>1, <3>1, UpIs
    <3>3. Up' = NoPort
      BY <2>2, <3>1 DEF Up
    <3>. QED  BY <1>1, <2>3, <3>2, <3>3, SameListeners
  <2>. QED  BY <1>4, <2>4, <2>5
<1>5. CASE StopCancel(c)
  <2>1. /\ state \in Sessions /\ state # None /\ state' = None /\ run' = run
        /\ holder = NoCaller /\ fpc' = [fpc EXCEPT ![c] = "reset"]
    BY <1>5 DEF StopCancel, LifeInv, Types, Sessions, None
  <2>2. \A e \in Callers : fpc'[e] # "starting"
    <3>1. \A e \in Callers : fpc[e] = "idle"
      BY <2>1, FreeMutex DEF LifeInv
    <3>. QED  BY <2>1, <3>1 DEF LifeInv, Types
  <2>3. Up = port[state] /\ port[state] \in Ports
    BY <2>1, UpIs
  <2>4. Up' = NoPort
    BY <2>1, <2>2 DEF Up
  <2>5. \A k \in Sessions : Listening(k)' <=> Listening(k)
    BY <2>1 DEF Listening
  <2>. QED  BY <1>1, <2>3, <2>4, <2>5, SameListeners, PortAssumption
<1>6. CASE StopReset(c) \/ StopClear(c)
  <2>1. /\ state' = state /\ run' = run /\ last' = last /\ fpc[c] # "starting"
        /\ fpc' = [fpc EXCEPT ![c] = "clear"] \/ fpc' = [fpc EXCEPT ![c] = "idle"]
    BY <1>6 DEF StopReset, StopClear, tasks
  <2>2. \A e \in Callers : fpc'[e] = "starting" <=> fpc[e] = "starting"
    BY <2>1 DEF LifeInv, Types
  <2>3. \A k \in Sessions : Listening(k)' <=> Listening(k)
    BY <2>1 DEF Listening
  <2>4. Listening(last)' <=> Listening(last)
    BY <2>1 DEF Listening
  <2>5. Up' = Up
    BY <1>1, <2>1, <2>2, <2>4 DEF Up
  <2>. QED  BY <1>1, <2>3, <2>5, SameListeners
<1>. QED  BY <1>3, <1>4, <1>5, <1>6

\* A bind opens a port on which nobody listens, and a run task that ends drops
\* the listener of a session that is not up any more.
LEMMA TasksPromise ==
    ASSUME PromiseInv, NEW k \in Sessions, RunStep(k)
    PROVE  \/ Open' = Open /\ Up' = Up
           \/ /\ Up = NoPort /\ port[k] \notin Open
              /\ Up' = port[k] /\ Open' = Open \cup {port[k]}
           \/ /\ port[k] \in Open /\ port[k] # Up
              /\ Up' = Up /\ Open' = Open \ {port[k]}
<1>. USE DEF PromiseInv, CoreInv
<1>1. /\ UNCHANGED <<state, holder, last, fpc, canceled, port>>
      /\ \A j \in Sessions \ {k} : run'[j] = run[j]
      /\ Starting' = Starting /\ port[k] \in Ports /\ port[k] # NoPort
  BY PortAssumption
     DEF LifeInv, Types, RunStep, Bind, RunBegin, RunBreak, RunEnd, ffi, Starting
<1>2. SessionInv(k)
  BY DEF LifeInv
<1>3. \A j \in Sessions \ {k} : Listening(j)' <=> Listening(j)
  BY <1>1 DEF Listening
<1>4. CASE Bind(k) /\ run'[k] = "bound"
  <2>1. run[k] = "binding" /\ PortFree(port[k])
    BY <1>4 DEF Bind, LifeInv, Types
  <2>2. k = last /\ Starting /\ state = None
    BY <1>2, <2>1 DEF SessionInv, LifeInv, LatestInv
  <2>3. ~Listening(k) /\ Listening(k)'
    BY <1>4, <2>1 DEF Listening
  <2>4. Up = NoPort
    BY <2>2, <2>3, UpIs
  <2>5. Up' = port[k]
    BY <1>1, <2>2, <2>3 DEF Up, Starting
  <2>6. port[k] \notin Open
    BY <2>1 DEF PortFree, Open
  <2>7. {j \in Sessions : Listening(j)'} = {j \in Sessions : Listening(j)} \cup {k}
    BY <1>3, <2>3
  <2>8. Open' = Open \cup {port[k]}
    BY <1>1, <2>7 DEF Open
  <2>. QED  BY <2>4, <2>5, <2>6, <2>8
<1>5. CASE RunBreak(k)
  <2>1. canceled[k] /\ Listening(k) /\ ~Listening(k)'
    BY <1>5 DEF RunBreak, Listening, LifeInv, Types
  <2>2. {j \in Sessions : Listening(j)'} = {j \in Sessions : Listening(j)} \ {k}
    BY <1>3, <2>1
  <2>3. \A j \in Sessions : j # k /\ Listening(j) => port[j] # port[k]
    BY <2>1 DEF PortsApart
  <2>4. Open' = Open \ {port[k]} /\ port[k] \in Open
    BY <1>1, <2>1, <2>2, <2>3 DEF Open
  <2>5. CASE state # None \/ Starting
    <3>1. last \in Sessions /\ ~canceled[last] /\ last # k
          /\ (state # None => state = last /\ Listening(last))
      BY <2>1, <2>5 DEF LifeInv, LatestInv, Types, Sessions, None
    <3>2. Listening(last) => port[last] # port[k]
      BY <2>3, <3>1
    <3>3. Listening(last)' <=> Listening(last)
      BY <1>1, <1>3, <3>1 DEF Listening
    <3>4. Up' = Up
      BY <1>1, <3>3 DEF Up
    <3>5. Up # port[k]
      BY <1>1, <3>1, <3>2, UpIs
    <3>. QED  BY <2>4, <3>4, <3>5
  <2>6. CASE state = None /\ ~Starting
    <3>1. Up = NoPort /\ Up' = NoPort
      BY <1>1, <2>6, UpIs DEF Up, Starting
    <3>. QED  BY <1>1, <2>4, <3>1
  <2>. QED  BY <2>5, <2>6
<1>6. CASE (Bind(k) /\ run'[k] # "bound") \/ RunBegin(k) \/ RunEnd(k)
  <2>1. Listening(k)' <=> Listening(k)
    BY <1>6 DEF Bind, RunBegin, RunEnd, Listening, LifeInv, Types
  <2>2. \A j \in Sessions : Listening(j)' <=> Listening(j)
    BY <1>3, <2>1
  <2>3. Open' = Open
    BY <1>1, <2>2, SameListeners
  <2>4. CASE Starting
    <3>1. last \in Sessions
      BY <2>4 DEF LifeInv, LatestInv, Types, Sessions
    <3>2. Listening(last)' <=> Listening(last)
      BY <1>1, <2>2, <3>1 DEF Listening
    <3>3. Up' = Up
      BY <1>1, <3>2 DEF Up
    <3>. QED  BY <2>3, <3>3
  <2>5. CASE ~Starting
    <3>1. Up' = Up
      BY <1>1, <2>5 DEF Up, Starting
    <3>. QED  BY <2>3, <3>1
  <2>. QED  BY <2>4, <2>5
<1>. QED  BY <1>4, <1>5, <1>6 DEF RunStep

LEMMA PromiseStep ==
    ASSUME PromiseInv, [Next]_vars
    PROVE  PromiseInv'
<1>1. CoreInv'
  BY LifeStep, RoutesStep DEF PromiseInv, CoreInv
<1>2. UNCHANGED port
  <2>1. CASE Elsewhere
    BY <2>1, ElsewhereIdle
  <2>2. ASSUME NEW c \in Callers,
               \/ StartBegin(c) \/ StartOk(c) \/ StartBindFailed(c)
               \/ StopCancel(c) \/ StopReset(c) \/ StopClear(c)
        PROVE  UNCHANGED port
    BY <2>2 DEF StartBegin, StartOk, StartBindFailed, StopCancel, StopReset, StopClear, tasks
  <2>3. ASSUME NEW k \in Sessions, RunStep(k)
        PROVE  UNCHANGED port
    BY <2>3 DEF RunStep, Bind, RunBegin, RunBreak, RunEnd
  <2>. QED  BY <2>1, <2>2, <2>3, Zenon DEF Next, CallerStep, Elsewhere
<1>. QED  BY <1>1, <1>2 DEF PromiseInv

LEMMA PromiseMaps ==
    ASSUME PromiseInv, [Next]_vars
    PROVE  [Promised!Next]_(Promised!vars)
<1>. USE DEF Promised!Next, Promised!vars, Promised!Start, Promised!Stop, Promised!Drop
<1>1. CASE Elsewhere
  <2>1. UNCHANGED <<life, port>>
    BY <1>1, ElsewhereIdle
  <2>2. Open' = Open
    BY <2>1 DEF Open, Listening, life
  <2>3. Up' = Up
    BY <2>1 DEF Up, Listening, life
  <2>. QED  BY <2>2, <2>3 DEF Open
<1>2. ASSUME NEW c \in Callers,
             \/ StartBegin(c) \/ StartOk(c) \/ StartBindFailed(c)
             \/ StopCancel(c) \/ StopReset(c) \/ StopClear(c)
      PROVE  [Promised!Next]_(Promised!vars)
  <2>1. Open' = Open /\ (Up' = Up \/ (Up # NoPort /\ Up' = NoPort))
    BY <1>2, CallsPromise
  <2>. QED  BY <2>1 DEF Open
<1>3. ASSUME NEW k \in Sessions, RunStep(k)
      PROVE  [Promised!Next]_(Promised!vars)
  <2>1. port[k] \in Ports
    BY DEF PromiseInv
  <2>2. \/ Open' = Open /\ Up' = Up
        \/ /\ Up = NoPort /\ port[k] \notin Open
           /\ Up' = port[k] /\ Open' = Open \cup {port[k]}
        \/ /\ port[k] \in Open /\ port[k] # Up
           /\ Up' = Up /\ Open' = Open \ {port[k]}
    BY <1>3, TasksPromise
  <2>. QED  BY <2>1, <2>2 DEF Open
<1>. QED  BY <1>1, <1>2, <1>3, Zenon DEF Next, CallerStep, Elsewhere

\* However many threads call, and however long the run tasks and handlers of
\* stopped sessions last, the core does what Service promises its host.
THEOREM ServiceRefinement == Spec => ImplementsService
<1>1. Init => PromiseInv /\ Promised!Init
  <2>1. ASSUME Init
        PROVE  PromiseInv
    <3>1. PortsApart /\ RouteTableCurrent /\ port \in [Sessions -> Ports]
      BY <2>1 DEF Init, PortsApart, RouteTableCurrent, Listening
    <3>. QED  BY <2>1, <3>1, LifeInit DEF PromiseInv, CoreInv
  <2>2. ASSUME Init
        PROVE  Promised!Init
    <3>1. state = None /\ \A c \in Callers : fpc[c] # "starting"
      BY <2>2 DEF Init
    <3>2. \A k \in Sessions : ~Listening(k)
      BY <2>2 DEF Init, Listening
    <3>. QED  BY <3>1, <3>2 DEF Promised!Init, Up
  <2>. QED  BY <2>1, <2>2
<1>2. PromiseInv /\ [Next]_vars => PromiseInv'
  BY PromiseStep
<1>3. PromiseInv /\ [Next]_vars => [Promised!Next]_(Promised!vars)
  BY PromiseMaps
<1>. QED  BY <1>1, <1>2, <1>3, PTL DEF Spec, Promised!Spec, ImplementsService

-----------------------------------------------------------------------------
(* The types.                                                                *)

\* Only an accepted client has a session, which its penalties are charged to.
Served == \A h \in Handlers : hpc[h] # "idle" => hsession[h] \in Sessions

TypeInv == TypeOK /\ Served

LEMMA CallsType ==
    ASSUME TypeInv, NEW c \in Callers, CallerStep(c)
    PROVE  TypeInv'
<1>1. UNCHANGED <<port, taken, dcOpt, handlers>>
  BY DEF CallerStep, StartRefused, StartBegin, StartOk, StartBindFailed, StopRefused,
         StopCancel, StopReset, StopClear, tasks
<1>2. Served'
  BY <1>1 DEF TypeInv, Served, handlers
<1>3. /\ penalties' \in SUBSET Sessions /\ cooldowns' \in SUBSET Sessions
      /\ total' \in Nat /\ active' \in Int
  BY DEF TypeInv, TypeOK, CallerStep, StartRefused, StartBegin, StartOk, StartBindFailed,
         StopRefused, StopCancel, StopReset, StopClear, tables, stats
<1>4. /\ state' \in 0..MaxSession /\ last' \in 0..MaxSession
      /\ holder' \in Callers \cup {NoCaller}
      /\ fpc' \in [Callers -> {"idle", "starting", "reset", "clear"}]
      /\ ret' \in [Callers -> {0, -1, -3}]
  BY MaxSessionAssumption
     DEF TypeInv, TypeOK, CallerStep, StartRefused, StartBegin, StartOk, StartBindFailed,
         StopRefused, StopCancel, StopReset, StopClear, None
<1>5. /\ run' \in [Sessions -> RunStates] /\ canceled' \in [Sessions -> BOOLEAN]
      /\ finisher' \in [Sessions -> {"none", "waiting", "done"}]
  BY DEF TypeInv, TypeOK, CallerStep, StartRefused, StartBegin, StartOk, StartBindFailed,
         StopRefused, StopCancel, StopReset, StopClear, tasks, RunStates
<1>. QED  BY <1>1, <1>2, <1>3, <1>4, <1>5 DEF TypeInv, TypeOK, RunStates, handlers

LEMMA TasksType ==
    ASSUME TypeInv, NEW k \in Sessions, RunStep(k) \/ Finish(k)
    PROVE  TypeInv'
<1>1. UNCHANGED <<ffi, port, canceled, taken, stats, tables, handlers>>
  BY DEF RunStep, Bind, RunBegin, RunBreak, RunEnd, Finish
<1>2. /\ run \in [Sessions -> RunStates] /\ dcOpt \in 0..MaxSession
      /\ finisher \in [Sessions -> {"none", "waiting", "done"}]
      /\ k \in 0..MaxSession
  BY MaxSessionAssumption DEF TypeInv, TypeOK, RunStates, Sessions
<1>3. /\ \/ \E s \in {"bound", "failed", "accepting", "closing", "done"} :
               run' = [run EXCEPT ![k] = s]
         \/ run' = run
      /\ dcOpt' \in {dcOpt, k}
      /\ finisher' \in {finisher, [finisher EXCEPT ![k] = "done"]}
  BY DEF RunStep, Bind, RunBegin, RunBreak, RunEnd, Finish
<1>4. /\ run' \in [Sessions -> RunStates] /\ dcOpt' \in 0..MaxSession
      /\ finisher' \in [Sessions -> {"none", "waiting", "done"}]
  BY <1>2, <1>3 DEF RunStates
<1>. QED
  BY <1>1, <1>4, Zenon DEF TypeInv, TypeOK, Served, RunStates, ffi, stats, tables, handlers

LEMMA HandlersType ==
    ASSUME TypeInv, NEW h \in Handlers,
           HandlerStep(h) \/ \E k \in Sessions : Accept(k, h)
    PROVE  TypeInv'
<1>1. UNCHANGED <<ffi, tasks, taken, dcOpt>>
  BY DEF HandlerStep, HandlerCount, HandlerPenalty, HandlerBridge,
         HandlerWrites, HandlerWrote, HandlerReturn,
         HandlerLoad, HandlerSub, Accept
<1>2. /\ hpc' \in [Handlers -> {"idle", "accepted", "connecting", "writing", "bridging",
                                "leaving", "subtracting", "done"}]
      /\ hsession' \in [Handlers -> 0..MaxSession]
  BY DEF TypeInv, TypeOK, Sessions, HandlerStep, HandlerCount, HandlerPenalty,
         HandlerBridge, HandlerWrites, HandlerWrote, HandlerReturn, HandlerLoad,
         HandlerSub, Accept, handlers
<1>5. Served'
  <2>1. ASSUME NEW k \in Sessions, Accept(k, h)
        PROVE  Served'
    BY <2>1 DEF TypeInv, TypeOK, Served, Accept
  <2>2. CASE HandlerStep(h)
    <3>1. hpc[h] # "idle" /\ hsession' = hsession /\ \A g \in Handlers \ {h} : hpc'[g] = hpc[g]
      BY <2>2 DEF TypeInv, TypeOK, HandlerStep, HandlerCount, HandlerPenalty, HandlerBridge,
                  HandlerWrites, HandlerWrote, HandlerReturn, HandlerLoad, HandlerSub, handlers
    <3>. QED  BY <3>1 DEF TypeInv, Served
  <2>. QED  BY <2>1, <2>2
<1>3. penalties' \in SUBSET Sessions /\ cooldowns' \in SUBSET Sessions
  <2>1. CASE HandlerPenalty(h)
    <3>1. hsession[h] \in Sessions
      BY <2>1 DEF TypeInv, Served, HandlerPenalty
    <3>. QED  BY <2>1, <3>1 DEF TypeInv, TypeOK, HandlerPenalty
  <2>2. CASE ~HandlerPenalty(h)
    BY <2>2 DEF TypeInv, TypeOK, HandlerStep, HandlerCount, HandlerBridge,
                HandlerWrites, HandlerWrote, HandlerReturn,
                HandlerLoad, HandlerSub, Accept, tables
  <2>. QED  BY <2>1, <2>2
<1>4. total' \in Nat /\ active' \in Int
  BY DEF TypeInv, TypeOK, HandlerStep, HandlerCount, HandlerPenalty, HandlerBridge,
         HandlerWrites, HandlerWrote, HandlerReturn, HandlerLoad, HandlerSub, Accept, stats
<1>. QED  BY <1>1, <1>2, <1>3, <1>4, <1>5 DEF TypeInv, TypeOK, ffi, tasks

\* Every state is well typed; in particular no failed dial is charged to a
\* session that does not exist.
THEOREM TypeCorrect == Spec => []TypeOK
<1>1. Init => TypeInv
  BY MaxSessionAssumption DEF Init, TypeInv, TypeOK, Served, None
<1>2. TypeInv /\ [Next]_vars => TypeInv'
  <2> SUFFICES ASSUME TypeInv, [Next]_vars PROVE TypeInv'
    OBVIOUS
  <2>1. CASE UNCHANGED vars
    BY <2>1 DEF TypeInv, TypeOK, Served, vars, ffi, tasks, stats, tables, handlers
  <2>. QED  BY <2>1, CallsType, TasksType, HandlersType DEF Next
<1>3. TypeInv => TypeOK
  BY DEF TypeInv
<1>. QED  BY <1>1, <1>2, <1>3, PTL DEF Spec

=============================================================================
