----------------------------- MODULE ClientRoute -----------------------------
(***************************************************************************)
(* How a client reaches its data centre: handle_client, connect_direct_ws,  *)
(* do_fallback and tcp_fallback (src-wrapper/src/proxy.rs), from the first  *)
(* byte to the moment a bridge runs.                                        *)
(*                                                                         *)
(* The routes are tried in a fixed order: an idle connection of the pool or *)
(* a fresh WebSocket to one of two domains, once more if the first message  *)
(* cannot be sent, then a WebSocket through Cloudflare, then plain TCP.     *)
(* The clients of one key (data centre and media flag) share two memories   *)
(* of past failures, WS_BLACKLIST and DC_FAIL_UNTIL, under separate locks   *)
(* that nobody holds across an await.                                       *)
(*                                                                         *)
(* The pool and the Cloudflare dials have modules of their own (WsPool,     *)
(* CfFallback); here they answer with or without a connection.  So does the *)
(* network.  The counters of STATS are written and never read on these      *)
(* paths and are left out.                                                  *)
(***************************************************************************)
EXTENDS Integers, FiniteSets

CONSTANTS Clients,
          Keys,         \* the pairs dc_key
          Configured,   \* those resolve_configured_target finds an address for
          Known,        \* those with an entry in DC_DEFAULT_IPS
          Cooldown,     \* DC_FAIL_COOLDOWN
          MaxTime       \* bound on the clock (model checking only)

ASSUME KeyAssumption == Configured \subseteq Keys /\ Known \subseteq Keys

ASSUME ClockAssumption == Cooldown \in Nat \ {0} /\ MaxTime \in Nat

\* ws_domains returns two names; they are dialled in this order.
Domains == 1..2

VARIABLES
    clock,          \* now_unix_f64()
    cfEnabled,      \* CFPROXY_ENABLED
    blacklist,      \* WS_BLACKLIST: the keys with an entry
    failUntil,      \* DC_FAIL_UNTIL, 0 for a key without an entry
    pc,             \* client -> where its handler is
    key,            \* client -> dc_key
    now,            \* client -> the time read after its handshake
    ws_timeout,     \* client -> which timeout its direct dials have
    dom,            \* client -> the domain it dials
    redirected,     \* client -> ws_failed_redirect of this round
    allRedirects,   \* client -> all_redirects of this round
    retry           \* client -> this is the round after a failed send

memory == <<blacklist, failUntil>>
rounds == <<dom, redirected, allRedirects, retry>>
vars == <<clock, cfEnabled, memory, pc, key, now, ws_timeout, rounds>>

-----------------------------------------------------------------------------

TypeOK ==
    /\ clock \in Nat
    /\ cfEnabled \in BOOLEAN
    /\ blacklist \in SUBSET Keys
    /\ failUntil \in [Keys -> Nat]
    /\ pc \in [Clients -> {"handshake", "route", "timeout", "pool", "dial", "failed",
                           "init", "fallback", "cf", "cfinit", "tcp", "tcpinit",
                           "bridge_ws", "bridge_tcp", "done"}]
    /\ key \in [Clients -> Keys]
    /\ now \in [Clients -> Nat]
    /\ ws_timeout \in [Clients -> {"long", "short"}]
    /\ dom \in [Clients -> Domains]
    /\ redirected \in [Clients -> BOOLEAN]
    /\ allRedirects \in [Clients -> BOOLEAN]
    /\ retry \in [Clients -> BOOLEAN]

Init ==
    /\ clock = 0
    /\ cfEnabled \in BOOLEAN
    /\ blacklist = {}
    /\ failUntil = [k \in Keys |-> 0]
    /\ pc = [c \in Clients |-> "handshake"]
    /\ key \in [Clients -> Keys]
    /\ now = [c \in Clients |-> 0]
    /\ ws_timeout = [c \in Clients |-> "long"]
    /\ dom = [c \in Clients |-> 1]
    /\ redirected = [c \in Clients |-> FALSE]
    /\ allRedirects = [c \in Clients |-> TRUE]
    /\ retry = [c \in Clients |-> FALSE]

Goto(c, p) == pc' = [pc EXCEPT ![c] = p]

\* connect_direct_ws starts with its flags at FALSE and TRUE.
StartRound(c, again) ==
    /\ dom' = [dom EXCEPT ![c] = 1]
    /\ redirected' = [redirected EXCEPT ![c] = FALSE]
    /\ allRedirects' = [allRedirects EXCEPT ![c] = TRUE]
    /\ retry' = [retry EXCEPT ![c] = again]

-----------------------------------------------------------------------------
(* handle_client, up to the direct connection *)

\* No 64 bytes in time, an HTTP request or an unknown protocol tag end the
\* handler.  Otherwise the key comes out of the decrypted bytes and the clock
\* is read: all later writes to DC_FAIL_UNTIL count from here.
Handshake(c) ==
    /\ pc[c] = "handshake"
    /\ \/ Goto(c, "done") /\ UNCHANGED now
       \/ Goto(c, "route") /\ now' = [now EXCEPT ![c] = clock]
    /\ UNCHANGED <<clock, cfEnabled, memory, key, ws_timeout, rounds>>

Route(c) ==
    /\ pc[c] = "route"
    /\ Goto(c, IF key[c] \notin Configured \/ key[c] \in blacklist
               THEN "fallback" ELSE "timeout")
    /\ UNCHANGED <<clock, cfEnabled, memory, key, now, ws_timeout, rounds>>

\* Mutant of ChooseTimeout: any entry counts, however old.
ChooseTimeoutForEver(c) ==
    /\ pc[c] = "timeout"
    /\ ws_timeout' = [ws_timeout EXCEPT ![c] =
          IF failUntil[key[c]] # 0 THEN "short" ELSE "long"]
    /\ Goto(c, "pool")
    /\ UNCHANGED <<clock, cfEnabled, memory, key, now, rounds>>

ChooseTimeout(c) ==
    /\ pc[c] = "timeout"
    /\ ws_timeout' = [ws_timeout EXCEPT ![c] =
          IF now[c] < failUntil[key[c]] THEN "short" ELSE "long"]
    /\ Goto(c, "pool")
    /\ UNCHANGED <<clock, cfEnabled, memory, key, now, rounds>>

PoolGet(c) ==
    /\ pc[c] = "pool"
    /\ \/ Goto(c, "init") /\ UNCHANGED rounds
       \/ Goto(c, "dial") /\ StartRound(c, FALSE)
    /\ UNCHANGED <<clock, cfEnabled, memory, key, now, ws_timeout>>

DialOk(c) ==
    /\ pc[c] = "dial"
    /\ Goto(c, "init")
    /\ UNCHANGED <<clock, cfEnabled, memory, key, now, ws_timeout, rounds>>

\* Mutant of DialFails: only the last answer decides about all_redirects.
DialFailsLast(c, redirect) ==
    /\ pc[c] = "dial"
    /\ redirected' = [redirected EXCEPT ![c] = @ \/ redirect]
    /\ allRedirects' = [allRedirects EXCEPT ![c] = redirect]
    /\ \/ dom[c] < 2 /\ dom' = [dom EXCEPT ![c] = @ + 1] /\ UNCHANGED pc
       \/ dom[c] = 2 /\ Goto(c, "failed") /\ UNCHANGED dom
    /\ UNCHANGED <<clock, cfEnabled, memory, key, now, ws_timeout, retry>>

\* A dial fails with an HTTP redirect or in any other way.
DialFails(c, redirect) ==
    /\ pc[c] = "dial"
    /\ redirected' = [redirected EXCEPT ![c] = @ \/ redirect]
    /\ allRedirects' = [allRedirects EXCEPT ![c] = @ /\ redirect]
    /\ \/ dom[c] < 2 /\ dom' = [dom EXCEPT ![c] = @ + 1] /\ UNCHANGED pc
       \/ dom[c] = 2 /\ Goto(c, "failed") /\ UNCHANGED dom
    /\ UNCHANGED <<clock, cfEnabled, memory, key, now, ws_timeout, retry>>

\* The round is remembered: as a block when every domain redirected, else (in
\* the first round only) as a recent failure.
RoundFailed(c) ==
    /\ pc[c] = "failed"
    /\ \/ /\ redirected[c] /\ allRedirects[c]
          /\ blacklist' = blacklist \cup {key[c]}
          /\ UNCHANGED failUntil
       \/ /\ ~(redirected[c] /\ allRedirects[c])
          /\ ~retry[c]
          /\ failUntil' = [failUntil EXCEPT ![key[c]] = now[c] + Cooldown]
          /\ UNCHANGED blacklist
       \/ /\ ~(redirected[c] /\ allRedirects[c])
          /\ retry[c]
          /\ UNCHANGED memory
    /\ Goto(c, "fallback")
    /\ UNCHANGED <<clock, cfEnabled, key, now, ws_timeout, rounds>>

\* relay_init is sent: the failure memory of the key is erased and the bridge
\* starts.
InitSent(c) ==
    /\ pc[c] = "init"
    /\ failUntil' = [failUntil EXCEPT ![key[c]] = 0]
    /\ Goto(c, "bridge_ws")
    /\ UNCHANGED <<clock, cfEnabled, blacklist, key, now, ws_timeout, rounds>>

\* The send fails: the connection is closed; the first time a fresh one is
\* dialled, the second time the direct route is given up.
InitFails(c) ==
    /\ pc[c] = "init"
    /\ \/ /\ ~retry[c]
          /\ failUntil' = [failUntil EXCEPT ![key[c]] = now[c] + Cooldown]
          /\ StartRound(c, TRUE)
          /\ Goto(c, "dial")
       \/ /\ retry[c]
          /\ Goto(c, "fallback")
          /\ UNCHANGED <<failUntil, rounds>>
    /\ UNCHANGED <<clock, cfEnabled, blacklist, key, now, ws_timeout>>

-----------------------------------------------------------------------------
(* do_fallback and tcp_fallback *)

Fallback(c) ==
    /\ pc[c] = "fallback"
    /\ Goto(c, IF cfEnabled THEN "cf" ELSE "tcp")
    /\ UNCHANGED <<clock, cfEnabled, memory, key, now, ws_timeout, rounds>>

\* cfproxy_acquire_ws tests CFPROXY_ENABLED again.
CfAcquire(c) ==
    /\ pc[c] = "cf"
    /\ \/ cfEnabled /\ Goto(c, "cfinit")
       \/ Goto(c, "tcp")
    /\ UNCHANGED <<clock, cfEnabled, memory, key, now, ws_timeout, rounds>>

\* Mutant of CfInit: a Cloudflare connection that dies takes the client along.
CfInitGivesUp(c) ==
    /\ pc[c] = "cfinit"
    /\ Goto(c, "bridge_ws") \/ Goto(c, "done")
    /\ UNCHANGED <<clock, cfEnabled, memory, key, now, ws_timeout, rounds>>

\* relay_init is sent over it, or the connection is closed and TCP is tried.
CfInit(c) ==
    /\ pc[c] = "cfinit"
    /\ Goto(c, "bridge_ws") \/ Goto(c, "tcp")
    /\ UNCHANGED <<clock, cfEnabled, memory, key, now, ws_timeout, rounds>>

\* resolve_fallback_target has an address, and the connect succeeds.
TcpConnect(c) ==
    /\ pc[c] = "tcp"
    /\ \/ key[c] \in Known /\ (Goto(c, "tcpinit") \/ Goto(c, "done"))
       \/ key[c] \notin Known /\ Goto(c, "done")
    /\ UNCHANGED <<clock, cfEnabled, memory, key, now, ws_timeout, rounds>>

TcpInit(c) ==
    /\ pc[c] = "tcpinit"
    /\ Goto(c, "bridge_tcp") \/ Goto(c, "done")
    /\ UNCHANGED <<clock, cfEnabled, memory, key, now, ws_timeout, rounds>>

BridgeEnds(c) ==
    /\ pc[c] \in {"bridge_ws", "bridge_tcp"}
    /\ Goto(c, "done")
    /\ UNCHANGED <<clock, cfEnabled, memory, key, now, ws_timeout, rounds>>

-----------------------------------------------------------------------------
(* What happens around the handlers *)

\* SetCfProxyConfig, at any time.
SetCfProxyConfig(on) ==
    /\ cfEnabled' = on
    /\ UNCHANGED <<clock, memory, pc, key, now, ws_timeout, rounds>>

\* StopProxy clears both memories; the handlers of its session run on.
StopProxy ==
    /\ blacklist' = {}
    /\ failUntil' = [k \in Keys |-> 0]
    /\ UNCHANGED <<clock, cfEnabled, pc, key, now, ws_timeout, rounds>>

Tick ==
    /\ clock < MaxTime
    /\ clock' = clock + 1
    /\ UNCHANGED <<cfEnabled, memory, pc, key, now, ws_timeout, rounds>>

DirectStep(c) ==
    \/ Handshake(c)
    \/ Route(c)
    \/ ChooseTimeout(c)
    \/ PoolGet(c)
    \/ DialOk(c)
    \/ \E redirect \in BOOLEAN : DialFails(c, redirect)
    \/ RoundFailed(c)
    \/ InitSent(c)
    \/ InitFails(c)

FallbackStep(c) ==
    \/ Fallback(c)
    \/ CfAcquire(c)
    \/ CfInit(c)
    \/ TcpConnect(c)
    \/ TcpInit(c)

Next ==
    \/ \E c \in Clients : DirectStep(c) \/ FallbackStep(c) \/ BridgeEnds(c)
    \/ \E on \in BOOLEAN : SetCfProxyConfig(on)
    \/ StopProxy
    \/ Tick

Spec == Init /\ [][Next]_vars

=============================================================================
