# TLA+ models of tg-ws-proxy-ios

The repository is an iOS application around a proxy core in Rust. Telegram
connects to the core over MTProto on the loopback interface; the core carries
the stream to a Telegram data centre over a WebSocket, through Cloudflare, or
over plain TCP. This directory holds TLA+ models of the parts of it that run
concurrently, the TLC configurations that check them, and theorems about them
that TLAPS proves.

    tlc -workers 2 -config MCWsPool.cfg MCWsPool     # any run of the table below
    tlapm WsPoolProofs.tla                           # a proof module

`PROJECT.json` is the index: components, runs, mutants (for every property, at
least one plausible bug in the code that the run must catch), the map from definitions to
source lines, findings, hazards and theorems.

## 1. The system

Paths are relative to `src/`. `wrapper` is `src-wrapper/src`, `proxy` is
`ios/TgWsProxy/Proxy`.

| Component | Where | State it keeps | Operations |
|---|---|---|---|
| FFI lifecycle | `wrapper/lib.rs` | `STATE` (the session or nothing, a mutex held across the bind) | `StartProxy`, `StopProxy`, `SetPoolSize`, `SetCfProxyConfig`, `SetCfProxyCacheDir`, `SetSecret`, `RefreshCfProxyDomains`, readers |
| Accept loop and handlers | `wrapper/proxy.rs` `run_proxy`, `handle_client` | the listener, `DC_OPT`, `STATS`, the session's cancellation token | bind, accept, spawn a handler, drop the listener |
| Connection pool | `wrapper/proxy.rs` `WsPool` | per (dc, media): a queue of idle WebSockets, a `refilling` flag; `POOL_SIZE` | `get`, `warmup`, `refill`, `close_all` |
| Client routing | `wrapper/proxy.rs` `handle_client`, `connect_direct_ws`, `do_fallback`, `tcp_fallback` | `WS_BLACKLIST`, `DC_FAIL_UNTIL` | try pool, direct WebSocket, Cloudflare, TCP |
| Cloudflare dials | `wrapper/proxy.rs` `cfproxy_acquire_ws`, `wrapper/cfproxy.rs` | `CFPROXY_429`, `CFPROXY_SEM`, the preferred domain of each data centre (`balancer.rs`) | dial the domains, cool down after 429 |
| WebSocket dialling | `wrapper/ws.rs` `ws_connect_once`, `ws_connect`, `cfproxy.rs` `cf_connect_domain` | none of its own | connect, TLS, request, answer, each under a limit; a second attempt by address |
| DNS over HTTPS | `wrapper/cfproxy.rs` `resolve_doh` | `DOH_CACHE` | race of resolvers against a deadline |
| WebSocket bridge | `wrapper/proxy.rs` `bridge_ws`, `wrapper/ws.rs` `RawWebSocket` | the two halves of the socket under mutexes, the flag `closed`, a `Notify` | three tasks: up, down, ping |
| TCP bridge | `wrapper/proxy.rs` `bridge_tcp` | a `Notify` | two joined futures, one per direction |
| Domain lists | `wrapper/cfproxy.rs`, `balancer.rs` | `CFPROXY`, `BALANCER`, a cache file | init, refresh, `update_domains_list`, `update_domain_for_dc` |
| Ciphers, splitter | `wrapper/crypto.rs` | AES-CTR positions, the two buffers of a split packet | cut a stream into MTProto packets |
| View model | `proxy/ProxyViewModel.swift` | `state`, `startAttempt`, `statsTask`, `reconnectTask` | start, stop, retry, poll statistics and the port |
| Engine, NativeProxy | `proxy/ProxyEngine.swift`, `NativeProxy.swift` | none | call the FFI from detached tasks |
| BackgroundKeeper | `proxy/BackgroundKeeper.swift` | `isActive`, CoreLocation | activate, deactivate |
| Tunnel mode | `proxy/TunnelEngine.swift`, `TunnelController.swift`, `ios/PacketTunnel` | the VPN session | start, stop, fall back to local (only in the VPN variant, for which `build.sh:98` defines `TGWS_TUNNEL_AVAILABLE`) |
| Log, notifications, views, settings | `ios/TgWsProxy/...` | buffers for display | output |

How they interact. The view model awaits the engine, which calls the FFI on
another thread: any main-actor code may run meanwhile. `StartProxy` spawns the
run task of a session and waits for its bind with the mutex of `STATE` held;
`StopProxy` cancels the session's token, spawns a task that waits for the run
task and drains the pool, and resets process-wide tables, all without waiting for the
handlers. Handlers share the pool, the two failure memories, the Cloudflare
table and the counters, each under its own short lock. The list of Cloudflare
domains is kept twice: `StartProxy`, `GetCfProxyDomains`, `SetCfProxyConfig` and
the refresh write `CFPROXY`, all but `SetCfProxyConfig` also `BALANCER`, and a handler
reads first one, then the other, and dials what the second says. Several dials of
one client run at once and are dropped when the session is cancelled; each may ask
all resolvers at once for an address. The tasks of a
bridge share one write half and stop each other through a `Notify`, whose
wakeups reach only a task that waits at that moment.

What is hard about it, and what would make each component correct:

- *FFI*: one live session at a time whatever threads call; a stop must end the
  listener and every handler whose peers read; the resets must not corrupt the counters of the
  handlers they overtake, nor the routing and the penalties of the next session.
- *Pool*: one refiller per slot, a bounded queue although its length is read long before
  the pushes, order by age although the stamps come from different moments, no
  connection lost between a refill and `close_all`.
- *Routing*: no route skipped, none left untried, a blacklist entry and a short
  timeout only for the reason the code gives.
- *Cloudflare*: no permit lost on any way out, no attempt that outlives its client, no
  open connection but in the hands of the caller or of a task that closes it, bounded
  delays, although a cooldown is tested before the wait for a permit.
- *Dials and lookups*: a bounded time for two attempts of four stages and a lookup;
  no address that came in time is lost, and no lookup asks on behind a dial that
  has gone on.
- *Domain lists*: the list shown is the list dialled; a refresh that
  downloads for seconds never overwrites what the user typed meanwhile; no preference
  for a domain that was taken off the list.
- *Splitter*: one packet per frame and no byte lost, however TCP cuts the stream.
- *Bridges*: one side that ends ends the other in spite of lost wakeups; nothing after a
  torn frame but a bounded number of writes; one CLOSE frame.
- *View model*: `running` only over a started core, `starting` only for a
  while, one statistics task, a background keeper that matches.

`hazards` in `PROJECT.json` lists these line by line, the ones no
property covers included.

## 2. Modules

| Module | Models | Status |
|---|---|---|
| `IdlePool` | what the pool promises: at most `MaxIdle` idle connections per slot, each handed out once | abstract specification |
| `WsPool`, `MCWsPool` | the pool | checked |
| `WsPoolProofs` | theorems about `WsPool` | proved |
| `Service` | what the core promises to the application that hosts it | abstract specification |
| `ProxyCore`, `MCProxyCore` | the FFI lifecycle, the accept loop and what handlers write to process-wide state | checked |
| `MCProxyCoreHistory` | `ProxyCore` with the memory of the latest resets | checked |
| `ProxyCoreProofs` | theorems about both | proved |
| `ViewModel`, `MCViewModel` | the view model, with engine and core reduced to what it observes | checked |
| `ViewModelProofs` | theorems about `ViewModel` | proved |
| `ClientRoute`, `ClientRouteHistory` | the routes of a client, and with them a memory of the routes met | checked |
| `ClientRouteProofs` | theorems about both | proved |
| `CfFallback`, `MCCfFallback` | the Cloudflare dials of several clients | checked |
| `CfFallbackProofs` | theorems about `CfFallback` | proved |
| `CfDomains`, `MCCfDomains` | the two copies of the domain list, their writers and readers; with a memory of the writes that overtook each other | checked |
| `CfDomainsProofs` | theorems about both | proved |
| `Bridge` | what a bridge promises, whichever transport it has | abstract specification |
| `BridgeWs`, `BridgeTcp` | one bridge over WebSocket, one over TCP | checked in `MCBridge` |
| `MCBridge` | either of them, a count of late writes, and the mapping to `Bridge` | checked |
| `BridgeProofs` | theorems about `MCBridge`, the refinement among them | proved |
| `Dial` | one dial to a WebSocket server with its lookup | checked in `MCTransport` |
| `MsgSplitter` | the splitter | checked in `MCTransport` |
| `MCTransport` | either of these two | checked |
| `TransportProofs` | theorems about `Dial` and `MsgSplitter` | proved |

The `MC` modules give the constants small sets of model values. Each component
is checked by itself; where two meet, one sees the other as an answer: a pool
that hits or misses in `ClientRoute`, a dial that opens or fails in `WsPool`
and `CfFallback`, an order of domains in `CfFallback` that `CfDomains` explains, a
handler that counts itself and leaves in `ProxyCore`. `MCBridge` and `MCTransport` hold
two machines of which each behaviour runs one; they are together because they answer one
question (what does a handler get from a bridge, what lies between a client and its
server). `ViewModel` and `ProxyCore` are not run together either; `Service` lies between
them. `ProxyCore`, with its threads, run tasks and handlers, implements it, and the
core to which `ViewModel` reduces these takes only steps of it (and loses its listener to
iOS, `Lose`). So the view model is checked against no answer and no
listener that the core rules out. The converse is not claimed (section 6).

### Code and model

In Rust the boundary between two actions is an `await`, a second lock of
the same data, or a separate atomic operation; a lock section without an await is one
action. In Swift it is an `await` on the main actor. Comments in the modules name
the function; the map in `PROJECT.json` gives the lines.

- `WsPool`. `queue[s]` holds the stamps of idle connections, `refilling[s]` the
  CAS flag, `hpc` a handler in `get` (`GetBegin` reads the time, `GetPop` is the
  lock section, `GetRefill` the CAS and the spawn), `rpc` a refill
  (`RefillLen`, `RefillSpawn`, one `RefillCollect` per awaited dial,
  `RefillDone`). `CloseAll` and `CloseSlot` are `close_all`, which holds the map's lock
  while it drains slot after slot; it runs twice, from `StopProxy` and from the end
  of `run_proxy`. `opened` and `closed` count connections for `NoLeak`.
- `ProxyCore`. `fpc` is a thread inside an exported call, `holder` the mutex of
  `STATE`, `run[k]` the run task of session `k`, `finisher[k]` the task
  `StopProxy` spawns. `StopCancel`, `StopReset` and `StopClear` are three actions
  because handlers run between them. `ActiveGuard::drop` is two
  (`HandlerLoad`, `HandlerSub`), as in the code. A handler is `writing` while it waits in a
  write outside any `select!` and without a timeout (`proxy.rs:437`, `:500`, `:527`, the
  init at `:566`, the HTTP answer at `:863`): `HandlerWrites` and `HandlerWrote` lead in and
  out, and only the peer decides how long that takes. `dirty` and `inFlight` of the history
  module remember what the latest resets overtook.
- `Service`. `up` is the port of the session that is up, `open` the ports on which
  sessions listen. In `ProxyCore` a session is up from its bind, before `StartProxy`
  has stored it in `STATE`, until `StopProxy` cancels it (`Up`).
- `ViewModel`. Each call of the engine is three steps: the code before the
  await, the effect on the core, the code after it. `retry` and `poll` are the
  reconnect and statistics tasks, which survive their cancellation until they
  look at it; its probe of the port (`PollProbe`) has a timer of two seconds and may answer
  no although somebody listens. `ListenerLost` (iOS closes the sockets of a suspended
  application) and `ObstacleGone` (the other program on the port ends) are the
  environment.
- `ClientRoute`. `pc` walks through `handle_client` and its fallbacks; a dial answers
  with success, a redirect or another failure. The time is read once after
  the handshake (`now`) and used after the awaits, as in the code.
- `CfFallback`. `task[c][d]` is the attempt of client `c` for domain `d`:
  `Check` takes the permit of the client's own semaphore and reads the cooldown under the
  read lock (no await lies between the two), `Remove` removes an expired
  entry under the write lock without a second test, `GetPermit` waits for the
  global semaphore, the answer is `DialOk`, `DialThrottled` (429) or
  `DialFails`. `Abort` is the `select!` of a spawned task, at the places where the attempt
  awaits (`Awaits`); the first dial has none. `Await` keeps the first connection and
  hands each later one to a detached task; `closers` counts these, and `CloseEnds` is the
  end of one.
- `CfDomains`. `user` and `domains` are `CFPROXY`, `listed` and `preferred` are
  `BALANCER`, `file` is the cache. `ipc` is a thread inside `StartProxy` or
  `GetCfProxyDomains` on its way through `init_cfproxy_domains` (`InitLoads` reads the
  file before the lock, `InitStores` is the lock section with the second lock inside),
  `rpc` a refresh (`RefreshAsks`, the download, then `RefreshStores` and
  `RefreshBalances` under two locks, one after the other), `cpc` a client between the read
  of `CFPROXY`, that of `BALANCER` and the write of its preference seconds later.
- `Dial`. `pc` is the stage of the attempt or the lookup, `byAddress` the second
  attempt, `task` the resolvers' tasks, `mail` their channel, `left` and `taskLeft` the
  timers. `Tick` is the clock: it stops at a timer that is due, and any step
  may still come before that timer. `Drop` is a caller's `select!`: the future is gone,
  its tasks are not.
- `MsgSplitter`. `cipher` and `plain` are the two buffers, where a ciphertext byte is
  its position in the stream, so that a lost, doubled or moved byte shows; `Split`
  takes a chunk, `CutPacket`, `CutRest` and `CutWaits` are the turns of its loop,
  `Flush` the end of the stream. The literals of the headers (256, 0x7F, 4) are
  constants.
- `BridgeWs`. `pc` of the four tasks, `writers` the fair mutex of the write half
  (holder first), `woken` the tasks whose `notified()` fired. `Goto` drops the futures of
  a `select!` that another branch has won, a mutex or a half-written frame
  included (`torn`).
- `BridgeTcp`. `pc` of the two sides; `Read` leads out of the `select!` to `Write`,
  where a notification is lost.

## 3. Runs

| Run | Bounds | What it shows |
|---|---|---|
| `pool` | 2 handlers and the warm-up on 1 slot, 2 pool sizes, clock to 2 | `OneRefiller`, `BoundedIdle`, `OrderedByAge`, `NoLeak`, `GetTakesOne`, refinement of `IdlePool` |
| `pool_slots` | 2 slots, 1 warmed up, 1 handler, fairness | `DrainedStaysEmpty` (a drained pool stays drained once no refill dials), `RefillEnds` |
| `core` | 2 threads, 1 client, 1 port, 2 sessions, fairness | `OneLiveSession`, refinement of `Service`, `StopEndsEverything`, `CallsReturn` |
| `core_history` | 1 thread, 2 clients, 2 ports, 2 sessions | `RouteTableCurrent`, `ActiveExact`, `StalePenaltiesWereInFlight` |
| `view` | 3 starts, 2 stops, 1 retry, fairness | `RunningMeansCoreUp`, `StoppedIsQuiet`, `OnePoller`, `PollEnds`, `SingleStartEnds` |
| `route` | 2 clients of 2 keys, one without a default address, clock to 1 | `RushedHasReason`, `RoutesInOrder`, `BlacklistJustified` |
| `cf` | 2 clients, 3 domains of which one throttles, 1 permit, 1 task at a time, 1 closing task, clock to 2 | `PermitsKept`, `StrikesBounded`, `LeavesOnlyClosers`, `GivesUpLast` |
| `domains` | 1 client, 2 refreshes, both callers of the init, 5 names, 1 data centre, 2 tries | `UserOwnsList`, `ListsAgree`, `PreferredIsListed` |
| `bridge` | one bridge of either transport, complete, fairness | `TornOnlyAtEnd`, `LateWritesBounded`, refinement of `Bridge` (at most one CLOSE frame among others), `OneSideEndsEither`, `CancelEndsEither` |
| `transport` | 2 dials of 1 domain, 2 resolvers; streams of up to 7 bytes | `DialBounded`, `NoOrphans`, `NoEarlySurrender`, `NothingLost`, `OnePacketEach` |
| `view_retry`, `bridge_stall` | 2 starts and 1 stop; one WebSocket bridge | expected violations, below |

Why the bounds suffice. The races of the pool are between two takers of one
flag and between a length that is read and a push that follows; two handlers
and the warm-up are three potential refillers, and a second slot matters only to
`close_all`. In the core the second session is the one that meets what the first left
behind; on one port it also meets the listener that is not dropped yet, which is where
`Service` could be violated. Two clients are enough for the memories, which are per key and without
a count; the second key shows that they are not shared. For the Cloudflare dials
one permit and one task at a time contend more than four and two; three domains are
needed for a second connection that opens after a first. Of the detached tasks that close
such a connection one may exist at a time (`MaxClosers`): a second connection too many waits
in `Await` until it has ended, which no other action looks at. A domain that does not
throttle has no entry, so one throttling domain keeps the table small without
hiding a step. With these bounds no entry becomes so old that
its strikes are forgotten; the theorem covers that case. For the lists two refreshes
(a manual one and that of a session) can overtake each other between their two writes,
which a third would only repeat; the client, the settings and both callers of the
init interfere at every point. The lists themselves are sets of names of which each stands for
one kind: a default, one from an old cache file, one from a download, one as the user
types it and the same normalised. Data centres do not meet in the lists, so one is enough.
The limits of a dial keep the order of the real ones (caller's 5 s > phase 4 s >
TLS 3 s > lookup 1.5 s, here 3 > 2 > 1 = 1) and the cache outlives a dial; two resolvers
give every order of an empty answer, an address and the deadline. The splitter gets every
stream of up to seven bytes over an alphabet with a byte that announces nothing, one that announces
one unit, the flag and the long mark, in chunks of one, three and four: headers
and payloads are cut at every place, and two packets share a chunk. A base of 8 with
units of 2 stands for 256 and 4. In `view` one retry is
allowed where the code allows three; the third start can still be a
user's. The bridges need no bound: their state is finite. Symmetry is over handlers,
clients, refreshes, resolvers and dials that no definition distinguishes, and only in runs
without liveness properties.

Deadlock is checked in `core`, `core_history`, `route`, `cf` and `domains`, where something can
always happen. It is not checked where the modelled life ends: a session
whose handlers each call `get` once (`pool`, `pool_slots`), a bounded number of
taps (`view`, `view_retry`), one bridge (`bridge`, `bridge_stall`), a dial that is
over or a stream that is closed (`transport`).

### Disagreements between code and documents

These runs check one statement of a document or of the user interface
and TLC finds it violated.

| Run | Statement | What the code does |
|---|---|---|
| `view_retry` | `SettingsView.swift:171` offers automatic reconnection | `handleStartFailure` sets `.starting`, then schedules a `start` whose guard refuses `.starting`: the retry never happens and the state stays. |
| `bridge_stall` | `ARCHITECTURE.ru.md:116`: a stop cancels the tasks | `down` writes to the client outside its `select!`, without a timeout: a client that stops reading keeps a cancelled bridge alive. |

More effects are reachable in the models. No run is about them, because no document
states the opposite precisely enough to be violated:

- After `StopProxy` returns, the listener is open for a moment: a restart on the
  same port may get -3, for which `NativeProxy.swift:13` tells the user to close the
  other proxy (`ProxyCore`: `StartBindFailed` while an older session is `closing`).
- `stopAndWait` switches the background keeper off after its await, when a new
  start may have switched it on: the proxy then runs without it
  (`ARCHITECTURE.ru.md:97` says that `didStart` switches it on).
- A cancelled statistics task can turn a stopped view model into `failed`.
- A 429 that arrives between the test and the removal of an expired cooldown is
  forgotten with it.
- When two sessions use different ports, the run task of the first may write
  `DC_OPT` after the second; `RouteTableCurrent` states what holds, for sessions of
  one port.
- `SetCfProxyConfig` changes the list that is shown at once and the one that is dialled
  only at the next `StartProxy`; a refresh whose second write comes after that of a
  `StartProxy` leaves the two apart until the next one (`apart` in `MCCfDomains`).
- A client whose dials began before a domain was taken off the list makes it the
  preferred one again when it succeeds (`strays`).
- `init_cfproxy_domains` reads the cache file before it takes the lock: a refresh that
  ends in between is undone until the next start.
- A user's domain typed in another spelling is dialled twice for one data
  centre: as the list and as the normalised preference. A domain outside `.co.uk`, of which
  `SettingsView.swift:50` says nothing, normalises to nothing and is never dialled.
- An address from a lookup is kept for 300 s whether or not a dial to it succeeds, and
  the lookups of a dropped dial go on until their own limit.

## 4. Fairness

Weak fairness on a task's own steps: the Tokio runtime and the main
actor go on running every task that can run, timeouts fire, dials end (each has a
timeout, and `DialBounded` adds them up), awaits of the engine return. Nothing is owed by the user, by peers,
by the system or by the clock. In the bridges strong fairness is on the
branches that a `select!` could otherwise pass over for ever: the choice is
random among the ready ones (`UpStopped`, `DownStopped`, `Stopped` of `BridgeTcp`). What the code cannot
promise is a premise of the property: `ClientReads` and `PeersRead` (the peers read
or close) and `PeersFallSilent` (a read begun again and again times
out once). So `CancelEndsEither` needs only peers that read, `OneSideEndsEither` also
peers that fall silent, because the wakeup may be lost. `bridge_stall` shows that the
first premise is needed.

In `ProxyCore` the connect phase ends by its timeouts, and the return of a handler whose
bridge is cancelled is strongly fair, because the handler is in its `select!` now and then
and the choice there is random. The writes outside a `select!` have no fairness
(`HandlerWrote`, and `HandlerReturn` from `writing`): nothing obliges the peer to read. So
the part of `StopEndsEverything` about handlers has the premise `PeersRead`, that the
handler is not in a write for ever. `CancelEndsEither` shows the same for one bridge, task by
task, and `bridge_stall` what happens to the others. The part about the run task and its
listener has no premise.

## 5. Proofs

Every proof module proves its theorems for all values of the constants that the
named assumptions of the module it extends allow: any number of slots, handlers,
clients, domains, sessions, threads, refreshes, resolvers and taps, any limits and delays. Each
theorem has one inductive invariant, or shares it with its neighbours; there is one lemma
per action, or per kind of step, and the last step is temporal.

`WsPoolProofs` (`SlotAssumption`, `SizeAssumption`, `TimeAssumption`):
`TypeCorrect`, `OneRefillerHolds`, `BoundedIdleHolds`, `OrderedByAgeHolds`,
`DrainedStaysEmptyHolds`, `NoLeakHolds`, `GetTakesOneHolds`, and `Refinement`, in which the length of each queue is `idle` and the handlers that hit are
`handed`. `OneRefiller` counts the tasks of a
slot, so a step needs to know whose flag is set (`FlagInv`); `BoundedIdle`
depends on a length read earlier (`LengthInv`: while a task refills,
the queue is no longer than what it read, because only its own pushes make it
longer); `OrderedByAge` needs that no stamp is later than the clock (`AgeInv`);
the refinement needs that a handler has an answer only after its lock section
(`AnswerInv`). `Inductive` proves their conjunction. `DrainedStaysEmpty` rests on
`EndInv`: `close_all` runs only after the cancellation, so the dials of a refill that
begins later fail at once. `NoLeak` is a sum over three collections; `LeakInv` says that the
sets it counts are finite, and every step moves one element from one to the next.
`GetTakesOne` follows from the order by age: what a `get` drops is a front part of the queue.

`ProxyCoreProofs` (`MaxSessionAssumption`, `CallerAssumption`, `PortAssumption`):
`OneLiveSessionHolds`, `RouteTableCurrentHolds`, `StalePenaltiesWereInFlightHolds`,
`ActiveExactHolds`, `ServiceRefinement`, `TypeCorrect`. `LifeInv` says that whoever is inside a call has the mutex, that at most one
session, the latest, is on its way to a listener, and that an older one has no listener or is
cancelled. With it two listeners never share a port (`PortsApart`), which makes the last
writer of `DC_OPT` the right one. `PenaltyInv` adds that, while no call is at work and no
session is there, everybody who could still fail a dial was in flight when the tables were
cleared. `CountInv` keeps the counter and the set of counted handlers together through
both halves of `ActiveGuard::drop`. `ServiceRefinement` needs of the same invariants that
a session on its way to a listener belongs to a call which has the mutex: so the bind
is the step in which the session comes up, and every other step of a run task closes
the listener of a session that is no longer up, or stutters.

`ViewModelProofs` (`BoundAssumption`): `RunningMeansCoreUpHolds`,
`StoppedIsQuietHolds`, `OnePollerHolds`, `CoreIsServiceHolds`, `TypeCorrect`. A start that has succeeded and not yet resumed,
and a stop that has not yet reached `StopProxy`, exclude each other and are single
(`Owners`); a core or a keeper left on behind `stopped` always has someone
who will end it (`Settling`); only the task `statsTask` refers to is not cancelled
(`Polling`). `CoreIsService` is in no run: it was checked on the instance of `view` and holds
for every one.

`ClientRouteProofs` (`KeyAssumption`, `ClockAssumption`): `RushedHasReasonHolds`,
`RoutesInOrderHolds`, `BlacklistJustifiedHolds`, `TypeCorrect`. What a key remembers was said by one of
its clients (`FailInv`), whoever is past a route has lost it (`OrderInv`), and
`all_redirects` speaks of every answer of the round (`AnswersInv`).

`CfFallbackProofs` (`SetAssumption`, `NumberAssumption`):

- `StrikesBoundedHolds`: the strikes of a domain and the clients that may still
  add one are together at most the number of clients. So the doubling of the
  delay in `mark_cfproxy_429_cooldown` measures only how many dials ran at the
  same time: a lone client always gets the first delay, because the test before its
  next dial removes the entry with its strikes. The strengthening `StrikeInv` adds that
  a domain without an entry has no strikes; that the removal is a separate step without
  a test does not matter to the argument.
- `LeavesOnlyClosersHolds`, `GivesUpLastHolds`: every domain is still to be awaited or
  settled (`AttemptInv`); an open connection leaves its client only in `Return`, as the one
  chosen, or in `Await`, to a new task (`OpenGoes`); and an order of dials names every
  domain (an injection of a finite set into itself is onto).
- `PermitsKeptHolds`, from the same invariant.

`CfDomainsProofs` (`NameAssumption`, `OtherAssumption`, `SpellingAssumption`):
`TypeCorrect`: lists and preferences hold only known spellings, whoever wrote them;
`UserOwnsListHolds` is inductive as it stands; `ListsAgreeHolds` needs that what a
refresh has stored is still there unless it was overtaken. `PreferredIsListedHolds`
needs that a client which is not late dials only names of the list in force or their
normalised forms (`PreferInv`), and that a normalised name is left as it is by
`normalize_cf_domain`.

`TransportProofs` (`TimesAssumption`, `SplitAssumption`): `DialBoundedHolds` bounds the time spent before
each stage and the time left to it (`SpentInv`); `NoOrphansHolds` and
`NoEarlySurrenderHolds` follow from `LookupInv`: a lookup that goes on has every address
found so far in its channel. `NothingLostHolds` speaks of the splitter alone
(`Split!Spec`): `SplitInv` says that each part, and behind the last one the buffer, is a
run of positions that begins where the one before it ends, and that the two buffers are
equally long. `OnePacketEachHolds` adds `CutInv`: a part that was cut off lies within the
stream and is one packet there, and while the splitter reads, its buffer holds none; it rests
on two lemmas about the length that is decoded, that a buffer which begins with a packet
has the length of that packet, and no other. `DialTypeCorrect` and `SplitTypeCorrect` are the types of the
two machines.

`BridgeProofs` (no constants): `CloseFrameOnceHolds`, `TornOnlyAtEndHolds`,
`LateWritesBoundedHolds`, `TypeCorrect` and `BridgeRefinement`, which maps the sides that still carry, the CLOSE frames
written and the end of the call. `WsInv` orders the ends of the tasks
(`JoinInv`), gives the CLOSE frame to whoever set the flag first (`CloseInv`) and
lets `down` be woken only by a task that knows of the end (`TornInv`). For the late writes
`WaitInv` says that everyone in the queue of the mutex waits there and stands in it once,
and `LateInv` that a task which got the mutex late has it still or is where it does
not ask again.

Every invariant and every action property of a passing run is proved. Only model-checked
are the liveness properties, which are out of the prover's reach: `RefillEnds`, `StopEndsEverything`, `CallsReturn`,
`PollEnds`, `SingleStartEnds`, `OneSideEndsEither` and `CancelEndsEither`. The types of
`CfFallback` are not proved: that a cooldown is a number needs `2^s` to be one, and the
provers know nothing of exponents.

## 6. What is abstracted or left out

- Bytes: handshakes, ciphers and addresses are outcomes. The layout of a WebSocket frame
  (header, length, mask) is a data format; which frames are written and read, and
  when, is in `BridgeWs`. A continuation frame, which `recv_with_timeout` skips
  (`ws.rs:333`), is a read without a result. Of the
  counters of `STATS` only `connections_total` and `connections_active` are modelled: the
  others are written and shown.
- AES-CTR is a library: a byte that is passed on is its position.
- Some neighbouring steps are one action where nothing that a property tells apart lies
  between them: the atomics of `STATS.reset` (`StopReset`), the tables that `StopProxy`
  clears under one lock each (`StopClear`), the change of a cooldown and the release of
  the permit (`DialOk`, `DialThrottled`), `SetCfProxyCacheDir` and `SetCfProxyConfig`
  (`SetCfProxyConf`), `should_refresh` and the return of `StartProxy` (`StartRuns`), the stamp
  and the push of a pooled connection (`RefillCollect`; a slot has one refiller).
- The tasks of `BridgeWs` begin inside their `select!`. `Stale` of `CfDomains` takes a cache
  file without names for none; `save` never writes such a file.
- `Bridge` says that CLOSE is written at most once and not that it is written: `close`
  skips it when the connection is already marked closed.
- Clocks only go forward. The pool's clock is a wall clock, which the system may set back.
- In `ViewModel` each call of the core is one step on one port, and the core has no other
  callers: `Service` says which steps are allowed, not that all of them occur.
- `CfFallback` has the clients of one data centre and a fixed list of domains,
  `CfDomains` the changes of the list. `retry_after_delay` is the set
  of values it can return, `normalize_cf_domain` a function given as a constant.
- Without a caller, and so not modelled: `recv` of `RawWebSocket`, the branch of
  `ws_connect` for an empty address, `applyConfiguration` of the view model.
- The tunnel mode: only one variant of the build has it. Most of its states belong to
  NetworkExtension, which starts and ends the second process by rules that no source here
  shows; a model would be of guesses. What the code adds is the fallback of
  `TunnelEngine` to the local engine, listed among the hazards.
- Logging, notifications, views, settings and build scripts: presentation or no
  run-time behaviour.

## 7. Plan

The modules of the plan are written, and all that the runs check is proved but for
liveness. What is left, in order:

1. `TunnelEngine`: the ways out of `TunnelController.start` and the
   fallback to the local engine, with NetworkExtension as an environment.
2. `build_frame` and `read_frame` as functions over bounded inputs.
3. A second promise between two modules, as `Service` is one: what the pool and
   the dials promise to `ClientRoute`, which sees them as answers.
