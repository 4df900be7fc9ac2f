--------------------------- MODULE ClientRouteProofs ---------------------------
(***************************************************************************)
(* Theorems about ClientRouteHistory, for any number of clients and keys    *)
(* and every cooldown: the routes come in their order, and what is          *)
(* remembered of a key was learnt from its own clients.                     *)
(***************************************************************************)
EXTENDS ClientRouteHistory, SequenceTheorems, TLAPS

Where == {"handshake", "route", "timeout", "pool", "dial", "failed", "init", "fallback",
          "cf", "cfinit", "tcp", "tcpinit", "bridge_ws", "bridge_tcp", "done"}

Types ==
    /\ clock \in Nat
    /\ failUntil \in [Keys -> Nat]
    /\ pc \in [Clients -> Where]
    /\ key \in [Clients -> Keys]
    /\ now \in [Clients -> Nat]
    /\ ws_timeout \in [Clients -> {"long", "short"}]
    /\ dom \in [Clients -> Domains]
    /\ DOMAIN allRedirects = Clients
    /\ lastFail \in [Keys -> Int]

\* What the memory of a key says was said by one of its clients.
FailInv ==
    \A k \in Keys : failUntil[k] # 0 =>
        /\ lastFail[k] >= 0
        /\ failUntil[k] <= lastFail[k] + Cooldown

\* Who left the direct route had a reason.
LostDirect(c) == c \in direct \cup shunned \/ key[c] \notin Configured

OrderInv ==
    \A c \in Clients :
        /\ pc[c] \in {"fallback", "cf", "cfinit", "tcp", "tcpinit", "bridge_tcp"} => LostDirect(c)
        /\ pc[c] \in {"cf", "cfinit", "tcp", "tcpinit", "bridge_tcp"} => c \in cloudflare
        /\ pc[c] = "tcpinit" => c \in tcpTried

\* all_redirects speaks of every answer of the round.
AnswersInv ==
    \A c \in Clients :
        /\ pc[c] = "dial" /\ dom[c] = 1 => answers[c] = <<>>
        /\ pc[c] = "dial" /\ dom[c] = 2 /\ allRedirects[c] => answers[c] = <<TRUE>>
        /\ pc[c] = "failed" /\ allRedirects[c] => answers[c] = <<TRUE, TRUE>>

RouteInv == Types /\ FailInv /\ RushedHasReason /\ OrderInv /\ AnswersInv

-----------------------------------------------------------------------------

\* The ways of a client.
Ways ==
    {<<"handshake", "route">>, <<"handshake", "done">>, <<"route", "fallback">>,
     <<"route", "timeout">>, <<"timeout", "pool">>, <<"pool", "init">>, <<"pool", "dial">>,
     <<"dial", "init">>, <<"dial", "dial">>, <<"dial", "failed">>, <<"failed", "fallback">>,
     <<"init", "bridge_ws">>, <<"init", "dial">>, <<"init", "fallback">>,
     <<"fallback", "cf">>, <<"fallback", "tcp">>, <<"cf", "cfinit">>, <<"cf", "tcp">>,
     <<"cfinit", "bridge_ws">>, <<"cfinit", "tcp">>, <<"tcp", "tcpinit">>, <<"tcp", "done">>,
     <<"tcpinit", "bridge_tcp">>, <<"tcpinit", "done">>, <<"bridge_ws", "done">>,
     <<"bridge_tcp", "done">>}

\* One client moves, and the others keep what is theirs.
OthersKeep(c) ==
    \A d \in Clients \ {c} :
        /\ pc'[d] = pc[d] /\ now'[d] = now[d] /\ ws_timeout'[d] = ws_timeout[d]
        /\ dom'[d] = dom[d] /\ allRedirects'[d] = allRedirects[d]

Moves(c) == OthersKeep(c) /\ <<pc[c], pc'[c]>> \in Ways

NobodyMoves == UNCHANGED <<clock, pc, now, ws_timeout, rounds>>

ClientStep(c) == DirectStep(c) \/ FallbackStep(c) \/ BridgeEnds(c)

LEMMA StepMoves ==
    ASSUME Types, NEW c \in Clients, ClientStep(c)
    PROVE  Moves(c) /\ key' = key /\ clock' = clock
<1>1. CASE Handshake(c)
  BY <1>1 DEF Handshake, Goto, Types, Moves, OthersKeep, Ways, rounds
<1>2. CASE Route(c)
  BY <1>2 DEF Route, Goto, Types, Moves, OthersKeep, Ways, rounds
<1>3. CASE ChooseTimeout(c)
  BY <1>3 DEF ChooseTimeout, Goto, Types, Moves, OthersKeep, Ways, rounds
<1>4. CASE PoolGet(c)
  BY <1>4 DEF PoolGet, StartRound, Goto, Types, Moves, OthersKeep, Ways, rounds
<1>5. CASE DialOk(c)
  BY <1>5 DEF DialOk, Goto, Types, Moves, OthersKeep, Ways, rounds
<1>6. ASSUME NEW redirect \in BOOLEAN, DialFails(c, redirect) PROVE Moves(c) /\ key' = key /\ clock' = clock
  <2>1. UNCHANGED <<key, clock, now, ws_timeout>>
    BY <1>6 DEF DialFails
  <2>2. pc[c] = "dial" /\ pc'[c] \in {"dial", "failed"}
        /\ \A d \in Clients \ {c} : pc'[d] = pc[d] /\ dom'[d] = dom[d]
    BY <1>6 DEF DialFails, Goto, Types
  <2>3. \A d \in Clients \ {c} : allRedirects'[d] = allRedirects[d]
    BY <1>6 DEF DialFails, Types
  <2>. QED  BY <2>1, <2>2, <2>3 DEF Moves, OthersKeep, Ways
<1>7. CASE RoundFailed(c)
  BY <1>7 DEF RoundFailed, Goto, Types, Moves, OthersKeep, Ways, rounds
<1>8. CASE InitSent(c)
  BY <1>8 DEF InitSent, Goto, Types, Moves, OthersKeep, Ways, rounds
<1>9. CASE InitFails(c)
  BY <1>9 DEF InitFails, StartRound, Goto, Types, Moves, OthersKeep, Ways, rounds
<1>10. CASE FallbackStep(c)
  BY <1>10 DEF FallbackStep, Fallback, CfAcquire, CfInit, TcpConnect, TcpInit, Goto, Types,
               Moves, OthersKeep, Ways, rounds
<1>11. CASE BridgeEnds(c)
  BY <1>11 DEF BridgeEnds, Goto, Types, Moves, OthersKeep, Ways, rounds
<1>. QED  BY <1>1, <1>2, <1>3, <1>4, <1>5, <1>6, <1>7, <1>8, <1>9, <1>10, <1>11
          DEF ClientStep, DirectStep

\* Every step is one client's or leaves them all alone.
LEMMA StepCases ==
    ASSUME Types, Next
    PROVE  \/ \E c \in Clients : ClientStep(c)
           \/ \E on \in BOOLEAN : SetCfProxyConfig(on)
           \/ StopProxy
           \/ Tick
  BY DEF Next, ClientStep

-----------------------------------------------------------------------------
(* What the history learns from a step.                                      *)

\* The step is c's alone, or nobody's.
Alone(c) == \A d \in Clients \ {c} : pc'[d] = pc[d]

LEMMA LargestOfTwo ==
    ASSUME NEW a \in Int, NEW b \in Int, NEW S, S = {b} \/ S = {a, b}
    PROVE  \E t \in S : \A u \in S : u <= t
<1>1. CASE S = {b}
  BY <1>1
<1>2. CASE S = {a, b} /\ a <= b
  BY <1>2
<1>3. CASE S = {a, b} /\ b <= a
  BY <1>3
<1>. QED  BY <1>1, <1>2, <1>3

LEMMA LastFailGrows ==
    ASSUME Types, HNext, NEW c \in Clients, Alone(c)
    PROVE  /\ lastFail' \in [Keys -> Int]
           /\ \A k \in Keys : lastFail'[k] >= lastFail[k]
           /\ c \in LostRound => lastFail'[key[c]] >= now[c]
<1>1. LostRound \subseteq {c}
  BY DEF Alone, LostRound, Left, Entered
<1>2. ASSUME NEW k \in Keys
      PROVE  /\ lastFail'[k] \in Int /\ lastFail'[k] >= lastFail[k]
             /\ c \in LostRound /\ key[c] = k => lastFail'[k] >= now[c]
  <2> DEFINE lost == {now[d] : d \in {e \in LostRound : key[e] = k}}
             S == lost \cup {lastFail[k]}
  <2>1. lastFail'[k] = (CHOOSE t \in S : \A u \in S : u <= t)
    BY DEF HNext
  <2>2. CASE c \in LostRound /\ key[c] = k
    <3>1. S = {now[c], lastFail[k]}
      BY <1>1, <2>2
    <3>2. now[c] \in Int /\ lastFail[k] \in Int /\ now[c] \in S
      BY <3>1 DEF Types
    <3> HIDE DEF S
    <3>3. \E t \in S : \A u \in S : u <= t
      BY <3>1, <3>2, LargestOfTwo
    <3>4. lastFail'[k] \in S /\ \A u \in S : u <= lastFail'[k]
      BY <2>1, <3>3
    <3>. QED  BY <2>2, <3>1, <3>2, <3>4
  <2>3. CASE ~(c \in LostRound /\ key[c] = k)
    <3>1. S = {lastFail[k]} /\ lastFail[k] \in Int
      BY <1>1, <2>3 DEF Types
    <3> HIDE DEF S
    <3>2. \E t \in S : \A u \in S : u <= t
      BY <3>1, LargestOfTwo
    <3>3. lastFail'[k] \in S
      BY <2>1, <3>2
    <3>. QED  BY <2>3, <3>1, <3>3
  <2>. QED  BY <2>2, <2>3
<1>3. lastFail' = [k \in Keys |-> lastFail'[k]]
  <2> DEFINE lost(k) == {now[d] : d \in {e \in LostRound : key[e] = k}}
             latest(k) == CHOOSE t \in lost(k) \cup {lastFail[k]} :
                             \A u \in lost(k) \cup {lastFail[k]} : u <= t
  <2>1. lastFail' = [k \in Keys |-> latest(k)]
    BY DEF HNext
  <2> HIDE DEF latest
  <2>. QED  BY <2>1
<1>4. key[c] \in Keys
  BY DEF Types
<1>. QED  BY <1>2, <1>3, <1>4

LEMMA TypesStep ==
    ASSUME Types, HNext
    PROVE  Types' /\ key' = key
<1>1. Next
  BY DEF HNext
<1>2. CASE \E c \in Clients : ClientStep(c)
  <2>1. PICK c \in Clients : ClientStep(c)
    BY <1>2
  <2>2. Moves(c) /\ key' = key /\ clock' = clock
    BY <2>1, StepMoves
  <2>3. pc' \in [Clients -> Where] /\ now' \in [Clients -> Nat]
    <3>1. CASE Handshake(c)
      BY <3>1 DEF Handshake, Goto, Types, Where
    <3>2. CASE Route(c)
      BY <3>2 DEF Route, Goto, Types, Where
    <3>3. CASE ChooseTimeout(c) \/ PoolGet(c)
      BY <3>3 DEF ChooseTimeout, PoolGet, Goto, Types, Where
    <3>4. CASE DialOk(c) \/ RoundFailed(c) \/ InitSent(c) \/ InitFails(c)
      BY <3>4 DEF DialOk, RoundFailed, InitSent, InitFails, Goto, Types, Where
    <3>5. CASE \E redirect \in BOOLEAN : DialFails(c, redirect)
      BY <3>5 DEF DialFails, Goto, Types, Where
    <3>6. CASE FallbackStep(c)
      BY <3>6 DEF FallbackStep, Fallback, CfAcquire, CfInit, TcpConnect, TcpInit, Goto, Types,
                  Where
    <3>7. CASE BridgeEnds(c)
      BY <3>7 DEF BridgeEnds, Goto, Types, Where
    <3>. QED  BY <2>1, <3>1, <3>2, <3>3, <3>4, <3>5, <3>6, <3>7, Zenon DEF ClientStep, DirectStep
  <2>4. ws_timeout' \in [Clients -> {"long", "short"}]
    BY <2>1 DEF ClientStep, DirectStep, FallbackStep, Handshake, Route, ChooseTimeout, PoolGet,
                DialOk, DialFails, RoundFailed, InitSent, InitFails, Fallback, CfAcquire, CfInit,
                TcpConnect, TcpInit, BridgeEnds, Types
  <2>5. dom' \in [Clients -> Domains] /\ DOMAIN allRedirects' = Clients
    BY <2>1 DEF ClientStep, DirectStep, FallbackStep, Handshake, Route, ChooseTimeout, PoolGet,
                DialOk, DialFails, RoundFailed, InitSent, InitFails, Fallback, CfAcquire, CfInit,
                TcpConnect, TcpInit, BridgeEnds, StartRound, rounds, Types, Domains
  <2>6. failUntil' \in [Keys -> Nat]
    <3>1. \/ failUntil' = failUntil
          \/ failUntil' = [failUntil EXCEPT ![key[c]] = 0]
          \/ failUntil' = [failUntil EXCEPT ![key[c]] = now[c] + Cooldown]
      BY <2>1 DEF ClientStep, DirectStep, FallbackStep, Handshake, Route, ChooseTimeout, PoolGet,
                  DialOk, DialFails, RoundFailed, InitSent, InitFails, Fallback, CfAcquire,
                  CfInit, TcpConnect, TcpInit, BridgeEnds, memory
    <3>2. now[c] + Cooldown \in Nat /\ failUntil \in [Keys -> Nat]
      BY ClockAssumption DEF Types
    <3>. QED  BY <3>1, <3>2
  <2>7. lastFail' \in [Keys -> Int]
    BY <2>2, LastFailGrows DEF Moves, OthersKeep, Alone
  <2>. QED  BY <2>2, <2>3, <2>4, <2>5, <2>6, <2>7 DEF Types
<1>3. CASE (\E on \in BOOLEAN : SetCfProxyConfig(on)) \/ StopProxy \/ Tick
  <2>1. UNCHANGED <<pc, key, now, ws_timeout, dom, allRedirects>>
        /\ clock' \in Nat /\ failUntil' \in [Keys -> Nat]
    BY <1>3 DEF SetCfProxyConfig, StopProxy, Tick, rounds, memory, Types
  <2>2. lastFail' \in [Keys -> Int]
    <3>1. CASE Clients = {}
      <4>1. LostRound = {}
        BY <3>1 DEF LostRound, Left, Entered
      <4>2. ASSUME NEW k \in Keys PROVE lastFail'[k] \in Int
        <5> DEFINE S == {now[d] : d \in {e \in LostRound : key[e] = k}} \cup {lastFail[k]}
        <5>1. lastFail'[k] = (CHOOSE t \in S : \A u \in S : u <= t)
          BY DEF HNext
        <5>2. S = {lastFail[k]} /\ lastFail[k] \in Int
          BY <4>1 DEF Types
        <5> HIDE DEF S
        <5>3. \E t \in S : \A u \in S : u <= t
          BY <5>2, LargestOfTwo
        <5>4. lastFail'[k] \in S
          BY <5>1, <5>3
        <5>. QED  BY <5>2, <5>4
      <4>. QED  BY <4>2 DEF HNext
    <3>2. CASE Clients # {}
      <4>1. PICK c \in Clients : TRUE
        BY <3>2
      <4>. QED  BY <2>1, <4>1, LastFailGrows DEF Alone
    <3>. QED  BY <3>1, <3>2
  <2>. QED  BY <2>1, <2>2 DEF Types
<1>. QED  BY <1>1, <1>2, <1>3, StepCases

-----------------------------------------------------------------------------
(* Rushed dials.                                                             *)

LEMMA RushedStep ==
    ASSUME Types, FailInv, RushedHasReason, HNext
    PROVE  FailInv' /\ RushedHasReason'
<1>1. Next /\ Types' /\ key' = key
  BY TypesStep DEF HNext
<1>2. CASE \E c \in Clients : ClientStep(c)
  <2>1. PICK c \in Clients : ClientStep(c)
    BY <1>2
  <2>2. Moves(c)
    BY <2>1, StepMoves
  <2>3. /\ \A k \in Keys : lastFail'[k] >= lastFail[k]
        /\ c \in LostRound => lastFail'[key[c]] >= now[c]
    BY <2>2, LastFailGrows DEF Moves, OthersKeep, Alone
  <2>4. \/ failUntil' = failUntil
        \/ failUntil' = [failUntil EXCEPT ![key[c]] = 0]
        \/ c \in LostRound /\ failUntil' = [failUntil EXCEPT ![key[c]] = now[c] + Cooldown]
    BY <2>1 DEF ClientStep, DirectStep, FallbackStep, Handshake, Route, ChooseTimeout, PoolGet,
                DialOk, DialFails, RoundFailed, InitSent, InitFails, Fallback, CfAcquire, CfInit,
                TcpConnect, TcpInit, BridgeEnds, memory, Goto, LostRound, Left, Entered, Types
  <2>5. FailInv'
    <3>1. ASSUME NEW k \in Keys, failUntil'[k] # 0
          PROVE  lastFail'[k] >= 0 /\ failUntil'[k] <= lastFail'[k] + Cooldown
      <4>1. /\ failUntil[k] \in Nat /\ lastFail[k] \in Int /\ lastFail'[k] \in Int
            /\ now[c] \in Nat /\ key[c] \in Keys /\ Cooldown \in Nat
        BY <1>1, ClockAssumption DEF Types
      <4>2. CASE failUntil'[k] = failUntil[k]
        BY <2>3, <3>1, <4>1, <4>2 DEF FailInv
      <4>3. CASE failUntil'[k] # failUntil[k]
        <5>1. key[c] = k /\ c \in LostRound /\ failUntil'[k] = now[c] + Cooldown
          BY <2>4, <3>1, <4>1, <4>3 DEF Types
        <5>. QED  BY <2>3, <4>1, <5>1
      <4>. QED  BY <4>2, <4>3
    <3>. QED  BY <3>1 DEF FailInv
  <2>6. ASSUME NEW d \in Clients, pc'[d] = "pool", ws_timeout'[d] = "short"
        PROVE  lastFail'[key[d]] >= 0 /\ now'[d] < lastFail'[key[d]] + Cooldown
    <3>1. /\ key[d] \in Keys /\ lastFail[key[d]] \in Int /\ lastFail'[key[d]] \in Int
          /\ failUntil[key[d]] \in Nat /\ now[d] \in Nat /\ Cooldown \in Nat
      BY <1>1, ClockAssumption DEF Types
    <3>2. CASE d = c
      <4>1. pc[c] = "timeout"
        BY <2>2, <2>6, <3>2 DEF Moves, Ways
      <4>2. now'[c] = now[c] /\ now[c] < failUntil[key[c]]
        BY <2>1, <2>6, <3>2, <4>1
           DEF ClientStep, DirectStep, FallbackStep, Handshake, Route, ChooseTimeout, PoolGet,
               DialOk, DialFails, RoundFailed, InitSent, InitFails, Fallback, CfAcquire, CfInit,
               TcpConnect, TcpInit, BridgeEnds, Types
      <4>3. lastFail[key[c]] >= 0 /\ failUntil[key[c]] <= lastFail[key[c]] + Cooldown
        BY <3>1, <3>2, <4>2 DEF FailInv
      <4>. QED  BY <2>3, <3>1, <3>2, <4>2, <4>3
    <3>3. CASE d # c
      <4>1. pc[d] = "pool" /\ ws_timeout[d] = "short" /\ now'[d] = now[d]
        BY <2>2, <2>6, <3>3 DEF Moves, OthersKeep
      <4>. QED  BY <2>3, <3>1, <4>1 DEF RushedHasReason
    <3>. QED  BY <3>2, <3>3
  <2>7. RushedHasReason'
    BY <1>1, <2>6 DEF RushedHasReason
  <2>. QED  BY <2>5, <2>7
<1>3. CASE (\E on \in BOOLEAN : SetCfProxyConfig(on)) \/ StopProxy \/ Tick
  <2>1. /\ UNCHANGED <<pc, now, ws_timeout>>
        /\ failUntil' = failUntil \/ failUntil' = [k \in Keys |-> 0]
    BY <1>3 DEF SetCfProxyConfig, StopProxy, Tick, rounds, memory
  <2>2. ASSUME NEW k \in Keys PROVE lastFail'[k] = lastFail[k]
    <3> DEFINE S == {now[d] : d \in {e \in LostRound : key[e] = k}} \cup {lastFail[k]}
    <3>1. S = {lastFail[k]}
      BY <2>1 DEF LostRound, Left, Entered
    <3>2. lastFail'[k] = (CHOOSE t \in S : \A u \in S : u <= t)
      BY DEF HNext
    <3>3. lastFail[k] \in Int
      BY DEF Types
    <3> HIDE DEF S
    <3>4. \E t \in S : \A u \in S : u <= t
      BY <3>1, <3>3
    <3>. QED  BY <3>1, <3>2, <3>4
  <2>3. FailInv'
    BY <2>1, <2>2 DEF FailInv
  <2>4. RushedHasReason'
    BY <1>1, <2>1, <2>2 DEF RushedHasReason, Types
  <2>. QED  BY <2>3, <2>4
<1>. QED  BY <1>1, <1>2, <1>3, StepCases

-----------------------------------------------------------------------------
(* The order of the routes.                                                  *)

LEMMA HistoryOfOthers ==
    ASSUME HNext, NEW d \in Clients, pc'[d] = pc[d]
    PROVE  /\ d \in direct' <=> d \in direct
           /\ d \in shunned' <=> d \in shunned
           /\ d \in cloudflare' <=> d \in cloudflare
           /\ d \in tcpTried' <=> d \in tcpTried
  BY DEF HNext, Entered, Left, Settled

LEMMA HistoryOfMover ==
    ASSUME HNext, NEW c \in Clients, pc'[c] \notin {"done", "bridge_ws"}
    PROVE  /\ c \in direct => c \in direct'
           /\ c \in shunned => c \in shunned'
           /\ c \in cloudflare => c \in cloudflare'
           /\ pc[c] = "failed" /\ pc'[c] # "failed" => c \in direct'
           /\ pc[c] = "init" /\ pc'[c] = "fallback" => c \in direct'
           /\ pc[c] = "route" /\ pc'[c] # "route" /\ key[c] \in blacklist => c \in shunned'
           /\ pc[c] # "cf" /\ pc'[c] = "cf" => c \in cloudflare'
           /\ pc[c] = "fallback" /\ pc'[c] # "fallback" /\ ~cfEnabled => c \in cloudflare'
  BY DEF HNext, Entered, Left, Settled

LEMMA TcpTriedBy ==
    ASSUME HNext, NEW c \in Clients, pc'[c] # "bridge_tcp"
    PROVE  /\ c \in tcpTried => c \in tcpTried'
           /\ pc[c] = "tcp" /\ pc'[c] # "tcp" /\ key[c] \in Known => c \in tcpTried'
  BY DEF HNext, Entered, Left

\* A client that moves keeps the order.
MoverInOrder(c) ==
    /\ pc'[c] \in {"fallback", "cf", "cfinit", "tcp", "tcpinit", "bridge_tcp"} => LostDirect(c)'
    /\ pc'[c] \in {"cf", "cfinit", "tcp", "tcpinit", "bridge_tcp"} => c \in cloudflare'
    /\ pc'[c] = "tcpinit" => c \in tcpTried'
    /\ pc'[c] = "done" /\ pc[c] \notin {"handshake", "bridge_ws", "bridge_tcp"}
          => c \in tcpTried' \/ key[c] \notin Known

LEMMA MoverKeepsOrder ==
    ASSUME Types, OrderInv, HNext, NEW c \in Clients, ClientStep(c)
    PROVE  MoverInOrder(c)
<1>1. Moves(c) /\ key' = key
  BY StepMoves
<1>2. <<pc[c], pc'[c]>> \in Ways
  BY <1>1 DEF Moves
<1>3. CASE pc[c] \in {"handshake", "timeout", "pool", "dial", "bridge_ws", "bridge_tcp"}
  BY <1>2, <1>3 DEF Ways, MoverInOrder
<1>4. CASE pc[c] = "route"
  <2>1. pc'[c] = "fallback" => key[c] \notin Configured \/ key[c] \in blacklist
    BY <1>4 DEF ClientStep, DirectStep, FallbackStep, Handshake, Route, ChooseTimeout, PoolGet,
                DialOk, DialFails, RoundFailed, InitSent, InitFails, Fallback, CfAcquire, CfInit,
                TcpConnect, TcpInit, BridgeEnds, Goto, Types
  <2>2. pc'[c] \in {"fallback", "timeout"}
    BY <1>2, <1>4 DEF Ways
  <2>3. pc'[c] = "fallback" => LostDirect(c)'
    BY <1>1, <1>4, <2>1, HistoryOfMover DEF LostDirect
  <2>. QED  BY <2>2, <2>3 DEF MoverInOrder
<1>5. CASE pc[c] = "failed"
  BY <1>2, <1>5, HistoryOfMover DEF Ways, LostDirect, MoverInOrder
<1>6. CASE pc[c] = "init"
  BY <1>2, <1>6, HistoryOfMover DEF Ways, LostDirect, MoverInOrder
<1>7. CASE pc[c] = "fallback"
  <2>1. LostDirect(c) /\ pc'[c] \in {"cf", "tcp"}
    BY <1>2, <1>7 DEF OrderInv, Ways
  <2>2. pc'[c] = "tcp" => ~cfEnabled
    BY <1>7 DEF ClientStep, DirectStep, FallbackStep, Handshake, Route, ChooseTimeout, PoolGet,
                DialOk, DialFails, RoundFailed, InitSent, InitFails, Fallback, CfAcquire, CfInit,
                TcpConnect, TcpInit, BridgeEnds, Goto, Types
  <2>. QED  BY <1>1, <1>7, <2>1, <2>2, HistoryOfMover DEF LostDirect, MoverInOrder
<1>8. CASE pc[c] \in {"cf", "cfinit"}
  <2>1. LostDirect(c) /\ c \in cloudflare /\ pc'[c] \in {"cfinit", "tcp", "bridge_ws"}
    BY <1>2, <1>8 DEF OrderInv, Ways
  <2>. QED  BY <1>1, <1>8, <2>1, HistoryOfMover DEF LostDirect, MoverInOrder
<1>9. CASE pc[c] = "tcp"
  <2>1. LostDirect(c) /\ c \in cloudflare /\ pc'[c] \in {"tcpinit", "done"}
    BY <1>2, <1>9 DEF OrderInv, Ways
  <2>2. pc'[c] = "tcpinit" => key[c] \in Known
    BY <1>9 DEF ClientStep, DirectStep, FallbackStep, Handshake, Route, ChooseTimeout, PoolGet,
                DialOk, DialFails, RoundFailed, InitSent, InitFails, Fallback, CfAcquire, CfInit,
                TcpConnect, TcpInit, BridgeEnds, Goto, Types
  <2>. QED
    BY <1>1, <1>9, <2>1, <2>2, HistoryOfMover, TcpTriedBy DEF LostDirect, MoverInOrder
<1>10. CASE pc[c] = "tcpinit"
  <2>1. LostDirect(c) /\ c \in cloudflare /\ c \in tcpTried /\ pc'[c] \in {"bridge_tcp", "done"}
    BY <1>2, <1>10 DEF OrderInv, Ways
  <2>. QED
    BY <1>1, <1>10, <2>1, HistoryOfMover, TcpTriedBy DEF LostDirect, MoverInOrder
<1>11. CASE pc[c] = "done"
  BY <1>2, <1>11 DEF Ways
<1>. QED
  BY <1>3, <1>4, <1>5, <1>6, <1>7, <1>8, <1>9, <1>10, <1>11 DEF Types, Where

\* What RoutesInOrder says of one step.
StepInOrder ==
    \A c \in Clients :
        /\ pc[c] \in {"tcp", "tcpinit", "bridge_tcp"} =>
              /\ c \in direct \cup shunned \/ key[c] \notin Configured
              /\ c \in cloudflare
        /\ pc[c] \notin {"handshake", "bridge_ws", "bridge_tcp"} /\ c \in Entered("done")
              => c \in tcpTried' \/ key[c] \notin Known

LEMMA OrderStep ==
    ASSUME Types, OrderInv, HNext
    PROVE  OrderInv' /\ StepInOrder
<1>1. Next /\ key' = key
  BY TypesStep DEF HNext
<1>2. ASSUME NEW d \in Clients, pc'[d] = pc[d]
      PROVE  /\ pc'[d] \in {"fallback", "cf", "cfinit", "tcp", "tcpinit", "bridge_tcp"}
                   => LostDirect(d)'
             /\ pc'[d] \in {"cf", "cfinit", "tcp", "tcpinit", "bridge_tcp"} => d \in cloudflare'
             /\ pc'[d] = "tcpinit" => d \in tcpTried'
             /\ d \notin Entered("done")
  <2>1. d \notin Entered("done")
    BY <1>2 DEF Entered
  <2>. QED  BY <1>1, <1>2, <2>1, HistoryOfOthers DEF OrderInv, LostDirect
<1>3. CASE \E c \in Clients : ClientStep(c)
  <2>1. PICK c \in Clients : ClientStep(c)
    BY <1>3
  <2>2. MoverInOrder(c)
    BY <2>1, MoverKeepsOrder
  <2>3. \A d \in Clients \ {c} : pc'[d] = pc[d]
    BY <2>1, StepMoves DEF Moves, OthersKeep
  <2>4. OrderInv'
    BY <1>2, <2>2, <2>3 DEF OrderInv, MoverInOrder
  <2>5. \A d \in Clients : pc[d] \notin {"handshake", "bridge_ws", "bridge_tcp"}
           /\ d \in Entered("done") => d \in tcpTried' \/ key[d] \notin Known
    BY <1>2, <2>2, <2>3 DEF MoverInOrder, Entered
  <2>. QED  BY <2>4, <2>5 DEF StepInOrder, OrderInv, LostDirect
<1>4. CASE (\E on \in BOOLEAN : SetCfProxyConfig(on)) \/ StopProxy \/ Tick
  <2>1. pc' = pc
    BY <1>4 DEF SetCfProxyConfig, StopProxy, Tick
  <2>. QED  BY <1>2, <2>1 DEF OrderInv, StepInOrder, LostDirect
<1>. QED  BY <1>1, <1>3, <1>4, StepCases

-----------------------------------------------------------------------------
(* The blacklist.                                                            *)

LEMMA AppendFacts ==
    ASSUME NEW x, NEW y
    PROVE  Append(<<>>, x) = <<x>> /\ Append(<<x>>, y) = <<x, y>>
<1>1. <<>> \in Seq({x, y}) /\ <<x>> \in Seq({x, y}) /\ <<x, y>> \in Seq({x, y})
  OBVIOUS
<1>2. Append(<<>>, x) \in Seq({x, y}) /\ Append(<<x>>, y) \in Seq({x, y})
  BY <1>1
<1>3. Len(Append(<<>>, x)) = 1 /\ Append(<<>>, x)[1] = x
  BY <1>1
<1>4. /\ Len(Append(<<x>>, y)) = 2
      /\ Append(<<x>>, y)[1] = x /\ Append(<<x>>, y)[2] = y
  BY <1>1
<1>5. Append(<<>>, x) = <<x>>
  BY <1>1, <1>2, <1>3, SeqEqual
<1>6. Append(<<x>>, y) = <<x, y>>
  <2>1. Len(<<x, y>>) = 2 /\ <<x, y>>[1] = x /\ <<x, y>>[2] = y
    OBVIOUS
  <2>2. \A i \in 1..Len(<<x, y>>) : Append(<<x>>, y)[i] = <<x, y>>[i]
    BY <2>1, <1>4
  <2>. QED  BY <1>1, <1>2, <1>4, <2>1, <2>2, SeqEqual
<1>. QED  BY <1>5, <1>6

\* What becomes of the answers of a client.
Answers(c) ==
    IF c \in Entered("dial") \cup Entered("init") \cup Left("failed") THEN <<>>
    ELSE IF Dialled(c) THEN Append(answers[c], allRedirects[c] => allRedirects'[c])
    ELSE answers[c]

LEMMA AnswersOf ==
    ASSUME HNext, NEW c \in Clients
    PROVE  answers'[c] = Answers(c)
  BY DEF HNext, Answers

LEMMA AnswersKept ==
    ASSUME HNext, NEW c \in Clients, pc'[c] = pc[c], dom'[c] = dom[c]
    PROVE  answers'[c] = answers[c]
<1>1. c \notin Entered("dial") \cup Entered("init") \cup Left("failed")
  BY DEF Entered, Left
<1>2. ~Dialled(c)
  BY DEF Dialled
<1>. QED  BY <1>1, <1>2, AnswersOf DEF Answers

\* Every client's part of AnswersInv after a step.
AnswersOk(c) ==
    /\ pc'[c] = "dial" /\ dom'[c] = 1 => answers'[c] = <<>>
    /\ pc'[c] = "dial" /\ dom'[c] = 2 /\ allRedirects'[c] => answers'[c] = <<TRUE>>
    /\ pc'[c] = "failed" /\ allRedirects'[c] => answers'[c] = <<TRUE, TRUE>>

LEMMA AnswersOfMover ==
    ASSUME Types, AnswersInv, HNext, NEW c \in Clients, ClientStep(c)
    PROVE  AnswersOk(c)
<1>1. <<pc[c], pc'[c]>> \in Ways
  BY StepMoves DEF Moves
<1>2. CASE pc'[c] \notin {"dial", "failed"}
  BY <1>2 DEF AnswersOk
<1>3. CASE pc[c] # "dial" /\ pc'[c] \in {"dial", "failed"}
  <2>1. pc'[c] = "dial" /\ pc[c] \in {"pool", "init"}
    BY <1>1, <1>3 DEF Ways
  <2>2. dom'[c] = 1
    BY <2>1 DEF ClientStep, DirectStep, FallbackStep, Handshake, Route, ChooseTimeout, PoolGet,
                DialOk, DialFails, RoundFailed, InitSent, InitFails, Fallback, CfAcquire, CfInit,
                TcpConnect, TcpInit, BridgeEnds, StartRound, Goto, Types
  <2>3. answers'[c] = <<>>
    BY <2>1, AnswersOf DEF Answers, Entered
  <2>. QED  BY <2>1, <2>2, <2>3 DEF AnswersOk
<1>4. CASE pc[c] = "dial" /\ pc'[c] \in {"dial", "failed"}
  <2>1. PICK redirect \in BOOLEAN : DialFails(c, redirect)
    BY <1>4 DEF ClientStep, DirectStep, FallbackStep, Handshake, Route, ChooseTimeout, PoolGet,
                DialOk, RoundFailed, InitSent, InitFails, Fallback, CfAcquire, CfInit,
                TcpConnect, TcpInit, BridgeEnds, Goto, Types
  <2>2. allRedirects'[c] => allRedirects[c]
    BY <2>1 DEF DialFails, Types
  <2>3. \/ dom[c] = 1 /\ dom'[c] = 2 /\ pc'[c] = "dial"
        \/ dom[c] = 2 /\ pc'[c] = "failed"
    BY <1>4, <2>1 DEF DialFails, Goto, Types, Domains
  <2>4. Dialled(c) /\ c \notin Entered("dial") \cup Entered("init") \cup Left("failed")
    BY <1>4, <2>3 DEF Dialled, Entered, Left
  <2>5. answers'[c] = Append(answers[c], allRedirects[c] => allRedirects'[c])
    BY <2>4, AnswersOf DEF Answers
  <2>6. ASSUME allRedirects'[c] PROVE answers'[c] = Append(answers[c], TRUE)
    <3>1. (allRedirects[c] => allRedirects'[c]) = TRUE
      BY <2>6
    <3>. QED  BY <2>5, <3>1
  <2>7. CASE dom[c] = 1 /\ dom'[c] = 2 /\ pc'[c] = "dial"
    <3>1. answers[c] = <<>>
      BY <1>4, <2>7 DEF AnswersInv
    <3>2. Append(<<>>, TRUE) = <<TRUE>>
      BY AppendFacts, Zenon
    <3>3. allRedirects'[c] => answers'[c] = <<TRUE>>
      BY <2>6, <3>1, <3>2
    <3>4. pc'[c] # "failed" /\ dom'[c] # 1
      BY <2>7
    <3>. QED  BY <3>3, <3>4, Zenon DEF AnswersOk
  <2>8. CASE dom[c] = 2 /\ pc'[c] = "failed"
    <3>1. allRedirects'[c] => answers[c] = <<TRUE>>
      BY <1>4, <2>2, <2>8 DEF AnswersInv
    <3>2. Append(<<TRUE>>, TRUE) = <<TRUE, TRUE>>
      BY AppendFacts, Zenon
    <3>3. allRedirects'[c] => answers'[c] = <<TRUE, TRUE>>
      BY <2>6, <3>1, <3>2
    <3>. QED  BY <2>8, <3>3 DEF AnswersOk
  <2>. QED  BY <2>3, <2>7, <2>8
<1>. QED  BY <1>2, <1>3, <1>4

\* What BlacklistJustified says of one step.
StepJustified ==
    \A k \in blacklist' \ blacklist :
        \E c \in Clients : key[c] = k /\ answers[c] = <<TRUE, TRUE>>

LEMMA AnswersStep ==
    ASSUME Types, AnswersInv, HNext
    PROVE  AnswersInv' /\ StepJustified
<1>1. Next
  BY DEF HNext
<1>2. CASE \E c \in Clients : ClientStep(c)
  <2>1. PICK c \in Clients : ClientStep(c)
    BY <1>2
  <2>2. OthersKeep(c)
    BY <2>1, StepMoves DEF Moves
  <2>3. ASSUME NEW d \in Clients \ {c} PROVE AnswersOk(d)
    <3>1. answers'[d] = answers[d]
      BY <2>2, AnswersKept DEF OthersKeep
    <3>. QED  BY <2>2, <3>1 DEF AnswersOk, AnswersInv, OthersKeep
  <2>4. AnswersOk(c)
    BY <2>1, AnswersOfMover
  <2>5. AnswersInv'
    BY <2>3, <2>4 DEF AnswersInv, AnswersOk
  <2>6. \/ blacklist' = blacklist
        \/ pc[c] = "failed" /\ allRedirects[c] /\ blacklist' = blacklist \cup {key[c]}
    BY <2>1 DEF ClientStep, DirectStep, FallbackStep, Handshake, Route, ChooseTimeout, PoolGet,
                DialOk, DialFails, RoundFailed, InitSent, InitFails, Fallback, CfAcquire, CfInit,
                TcpConnect, TcpInit, BridgeEnds, memory
  <2>7. StepJustified
    BY <2>6 DEF StepJustified, AnswersInv
  <2>. QED  BY <2>5, <2>7
<1>3. CASE (\E on \in BOOLEAN : SetCfProxyConfig(on)) \/ StopProxy \/ Tick
  <2>1. UNCHANGED <<pc, dom, allRedirects>> /\ blacklist' \subseteq blacklist
    BY <1>3 DEF SetCfProxyConfig, StopProxy, Tick, memory, rounds
  <2>2. \A d \in Clients : answers'[d] = answers[d]
    BY <2>1, AnswersKept
  <2>3. AnswersInv'
    BY <2>1, <2>2 DEF AnswersInv
  <2>. QED  BY <2>1, <2>3 DEF StepJustified
<1>. QED  BY <1>1, <1>2, <1>3, StepCases

-----------------------------------------------------------------------------

LEMMA RouteInit ==
    ASSUME HInit
    PROVE  RouteInv
<1>1. Types
  BY DEF HInit, Init, Types, Where, Domains
<1>2. FailInv /\ RushedHasReason
  BY DEF HInit, Init, FailInv, RushedHasReason
<1>3. OrderInv /\ AnswersInv
  BY DEF HInit, Init, OrderInv, AnswersInv
<1>. QED  BY <1>1, <1>2, <1>3 DEF RouteInv

\* A step of HSpec, or none.
LEMMA RouteStep ==
    ASSUME RouteInv, [HNext]_<<vars, hvars>>
    PROVE  /\ RouteInv'
           /\ HNext => StepInOrder /\ StepJustified
<1>1. CASE HNext
  <2>1. Types' /\ FailInv' /\ RushedHasReason' /\ OrderInv' /\ AnswersInv'
    BY <1>1, TypesStep, RushedStep, OrderStep, AnswersStep DEF RouteInv
  <2>. QED  BY <1>1, <2>1, OrderStep, AnswersStep DEF RouteInv
<1>2. CASE UNCHANGED <<vars, hvars>> /\ ~HNext
  <2>1. Types' /\ FailInv' /\ RushedHasReason'
    BY <1>2 DEF RouteInv, Types, FailInv, RushedHasReason, vars, hvars, memory, rounds
  <2>2. OrderInv' /\ AnswersInv'
    BY <1>2 DEF RouteInv, OrderInv, AnswersInv, LostDirect, vars, hvars, memory, rounds
  <2>. QED  BY <1>2, <2>1, <2>2 DEF RouteInv
<1>. QED  BY <1>1, <1>2

\* A dial is rushed only while the cooldown of a failure of its own key runs.
THEOREM RushedHasReasonHolds == HSpec => []RushedHasReason
<1>1. RouteInv => RushedHasReason
  BY DEF RouteInv
<1>. QED  BY <1>1, RouteInit, RouteStep, PTL DEF HSpec

\* The routes are tried in the order of docs/README.md, and none is left out.
THEOREM RoutesInOrderHolds == HSpec => RoutesInOrder
<1>1. RouteInv /\ [HNext]_<<vars, hvars>> => [StepInOrder]_<<vars, hvars>>
  BY RouteStep
<1>2. HSpec => [][StepInOrder]_<<vars, hvars>>
  BY <1>1, RouteInit, RouteStep, PTL DEF HSpec
<1>. QED  BY <1>2, PTL DEF RoutesInOrder, StepInOrder

\* A key is blacklisted only by a round that saw redirects and nothing else.
THEOREM BlacklistJustifiedHolds == HSpec => BlacklistJustified
<1>1. RouteInv /\ [HNext]_<<vars, hvars>> => [StepJustified]_<<vars, hvars>>
  BY RouteStep
<1>2. HSpec => [][StepJustified]_<<vars, hvars>>
  BY <1>1, RouteInit, RouteStep, PTL DEF HSpec
<1>. QED  BY <1>2, PTL DEF BlacklistJustified, StepJustified

-----------------------------------------------------------------------------
(* The types.                                                                *)

LEMMA ClientsType ==
    ASSUME TypeOK, NEW c \in Clients, ClientStep(c)
    PROVE  TypeOK'
<1>1. UNCHANGED <<clock, cfEnabled, key>>
  BY DEF ClientStep, DirectStep, FallbackStep,
         Handshake, Route, ChooseTimeout, PoolGet, DialOk, DialFails, RoundFailed,
         InitSent, InitFails, Fallback, CfAcquire, CfInit, TcpConnect, TcpInit, BridgeEnds
<1>2. /\ pc' \in [Clients -> {"handshake", "route", "timeout", "pool", "dial", "failed",
                             "init", "fallback", "cf", "cfinit", "tcp", "tcpinit",
                             "bridge_ws", "bridge_tcp", "done"}]
      /\ now' \in [Clients -> Nat]
  <2>1. now' = now \/ now' = [now EXCEPT ![c] = clock]
    BY DEF ClientStep, DirectStep, FallbackStep,
         Handshake, Route, ChooseTimeout, PoolGet, DialOk, DialFails, RoundFailed,
         InitSent, InitFails, Fallback, CfAcquire, CfInit, TcpConnect, TcpInit, BridgeEnds
  <2>2. pc' = pc \/ \E p \in {"route", "timeout", "pool", "dial", "failed", "init", "fallback",
                              "cf", "cfinit", "tcp", "tcpinit", "bridge_ws", "bridge_tcp",
                              "done"} : Goto(c, p)
    BY DEF ClientStep, DirectStep, FallbackStep,
         Handshake, Route, ChooseTimeout, PoolGet, DialOk, DialFails, RoundFailed,
         InitSent, InitFails, Fallback, CfAcquire, CfInit, TcpConnect, TcpInit, BridgeEnds
  <2>. QED  BY <2>1, <2>2 DEF TypeOK, Goto
<1>3. blacklist' \in SUBSET Keys /\ failUntil' \in [Keys -> Nat]
  <2>1. blacklist' = blacklist \/ blacklist' = blacklist \cup {key[c]}
    BY DEF memory, ClientStep, DirectStep, FallbackStep,
         Handshake, Route, ChooseTimeout, PoolGet, DialOk, DialFails, RoundFailed,
         InitSent, InitFails, Fallback, CfAcquire, CfInit, TcpConnect, TcpInit, BridgeEnds
  <2>2. \/ failUntil' = failUntil
        \/ failUntil' = [failUntil EXCEPT ![key[c]] = 0]
        \/ failUntil' = [failUntil EXCEPT ![key[c]] = now[c] + Cooldown]
    BY DEF memory, ClientStep, DirectStep, FallbackStep,
         Handshake, Route, ChooseTimeout, PoolGet, DialOk, DialFails, RoundFailed,
         InitSent, InitFails, Fallback, CfAcquire, CfInit, TcpConnect, TcpInit, BridgeEnds
  <2>3. now[c] + Cooldown \in Nat /\ key[c] \in Keys
    BY ClockAssumption DEF TypeOK
  <2>. QED  BY <2>1, <2>2, <2>3 DEF TypeOK
<1>4. /\ ws_timeout' \in [Clients -> {"long", "short"}]
      /\ dom' \in [Clients -> Domains]
  BY DEF TypeOK, Domains, StartRound, rounds, ClientStep, DirectStep, FallbackStep,
         Handshake, Route, ChooseTimeout, PoolGet, DialOk, DialFails, RoundFailed,
         InitSent, InitFails, Fallback, CfAcquire, CfInit, TcpConnect, TcpInit, BridgeEnds
<1>5. retry' \in [Clients -> BOOLEAN]
  BY Zenon DEF TypeOK, StartRound, rounds, ClientStep, DirectStep, FallbackStep,
         Handshake, Route, ChooseTimeout, PoolGet, DialOk, DialFails, RoundFailed,
         InitSent, InitFails, Fallback, CfAcquire, CfInit, TcpConnect, TcpInit, BridgeEnds
<1>6. redirected' \in [Clients -> BOOLEAN] /\ allRedirects' \in [Clients -> BOOLEAN]
  <2>1. PICK some \in BOOLEAN :
           redirected' = redirected \/ redirected' = [redirected EXCEPT ![c] = some]
    <3>1. \A redirect \in BOOLEAN : (redirected[c] \/ redirect) \in BOOLEAN
      BY Zenon
    <3>. QED  BY <3>1, Zenon DEF StartRound, rounds, ClientStep, DirectStep, FallbackStep,
         Handshake, Route, ChooseTimeout, PoolGet, DialOk, DialFails, RoundFailed,
         InitSent, InitFails, Fallback, CfAcquire, CfInit, TcpConnect, TcpInit, BridgeEnds
  <2>2. PICK all \in BOOLEAN :
           allRedirects' = allRedirects \/ allRedirects' = [allRedirects EXCEPT ![c] = all]
    <3>1. \A redirect \in BOOLEAN : (allRedirects[c] /\ redirect) \in BOOLEAN
      BY Zenon
    <3>. QED  BY <3>1, Zenon DEF StartRound, rounds, ClientStep, DirectStep, FallbackStep,
         Handshake, Route, ChooseTimeout, PoolGet, DialOk, DialFails, RoundFailed,
         InitSent, InitFails, Fallback, CfAcquire, CfInit, TcpConnect, TcpInit, BridgeEnds
  <2>. QED  BY <2>1, <2>2 DEF TypeOK
<1>. QED  BY <1>1, <1>2, <1>3, <1>4, <1>5, <1>6, Zenon DEF TypeOK

\* Every state of the clients and of their memories is well typed.
THEOREM TypeCorrect == Spec => []TypeOK
<1>1. Init => TypeOK
  BY DEF Init, TypeOK, Domains
<1>2. TypeOK /\ [Next]_vars => TypeOK'
  <2> SUFFICES ASSUME TypeOK, [Next]_vars PROVE TypeOK'
    OBVIOUS
  <2>1. ASSUME NEW on \in BOOLEAN, SetCfProxyConfig(on)
        PROVE  TypeOK'
    BY <2>1, Zenon DEF SetCfProxyConfig, TypeOK, memory, rounds
  <2>2. CASE StopProxy
    <3>1. blacklist' \in SUBSET Keys /\ failUntil' \in [Keys -> Nat]
      BY <2>2 DEF StopProxy
    <3>. QED  BY <2>2, <3>1, Zenon DEF StopProxy, TypeOK, rounds
  <2>3. CASE Tick
    <3>1. clock' \in Nat
      BY <2>3 DEF Tick, TypeOK
    <3>. QED  BY <2>3, <3>1, Zenon DEF Tick, TypeOK, memory, rounds
  <2>4. CASE UNCHANGED vars
    BY <2>4, Zenon DEF vars, TypeOK, memory, rounds
  <2>. QED  BY <2>1, <2>2, <2>3, <2>4, ClientsType, Zenon DEF Next, ClientStep
<1>. QED  BY <1>1, <1>2, PTL DEF Spec

=============================================================================
