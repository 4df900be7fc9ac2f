------------------------------- MODULE WsPool -------------------------------
(***************************************************************************)
(* The pool of idle WebSocket connections of one proxy session             *)
(* (src-wrapper/src/proxy.rs, WsPool).                                     *)
(*                                                                         *)
(* A slot is one (dc, is_media) pair.  Its state is a FIFO of idle         *)
(* connections and the atomic flag `refilling`.  A client handler calls    *)
(* get once: it pops the oldest usable connection (or misses) and then     *)
(* tries to become the slot's refiller with a compare-and-swap on the      *)
(* flag.  The refiller reads the length, spawns the missing dials,         *)
(* collects them in spawn order and clears the flag.  warmup starts one    *)
(* refiller per configured slot; close_all drains every slot.              *)
(*                                                                         *)
(* Every lock section without an await is one action.  `await` points are  *)
(* the boundaries between actions, and any other task may run there.       *)
(***************************************************************************)
EXTENDS Integers, Sequences, SequencesExt, FiniteSets

CONSTANTS Slots,        \* the (dc, is_media) pairs
          WarmSlots,    \* those DC_OPT gives an address: the warmed-up ones
          Handlers,     \* client handlers, each calling get once
          Sizes,        \* the values SetPoolSize can store in POOL_SIZE
          MaxIdle,      \* the largest of them
          Cap,          \* the literal 16 of refill
          ReuseAge,     \* WS_POOL_REUSE_MAX_AGE
          MaxTime       \* bound on the clock (model checking only)

ASSUME SlotAssumption ==
    /\ WarmSlots \subseteq Slots
    /\ Handlers \cap Slots = {}

ASSUME SizeAssumption ==
    /\ MaxIdle \in Nat
    /\ Cap \in Nat
    /\ Sizes \subseteq 0..MaxIdle
    /\ Sizes # {}
    /\ MaxIdle <= Cap

ASSUME TimeAssumption ==
    /\ ReuseAge \in Nat
    /\ MaxTime \in Nat

\* A refill task is named after whoever spawns it.
Tasks == Handlers \cup WarmSlots

\* The two tasks that end a session by calling close_all: the one StopProxy
\* spawns and the tail of run_proxy.
Closers == {"stopProxy", "runProxy"}

VARIABLES
    clock,      \* now_unix()
    canceled,   \* the session's CancellationToken
    poolSize,   \* POOL_SIZE
    queue,      \* slot -> stamps (`created`) of its idle connections
    refilling,  \* slot -> 0 or 1, the CAS flag
    hpc,        \* handler -> where it is in get
    hslot,      \* handler -> the slot it asks for
    hnow,       \* handler -> the `now` it read before the queue lock
    result,     \* handler -> "none", "hit" or "miss"
    rpc,        \* task -> where it is in refill
    rlen,       \* task -> cur_len
    handles,    \* task -> the dials not yet awaited, in spawn order
    cpc,        \* closer -> where it is in close_all
    todo,       \* the slots the close_all that holds the map lock must drain
    opened,     \* connections established by dials
    closed      \* connections whose close() was spawned

hvars == <<hpc, hslot, hnow, result>>
rvars == <<rpc, rlen, handles>>
cvars == <<cpc, todo>>
vars == <<clock, canceled, poolSize, queue, refilling, hvars, rvars, cvars,
          opened, closed>>

-----------------------------------------------------------------------------

TypeOK ==
    /\ clock \in Nat
    /\ canceled \in BOOLEAN
    /\ poolSize \in Sizes
    /\ queue \in [Slots -> Seq(Nat)]
    /\ refilling \in [Slots -> {0, 1}]
    /\ hpc \in [Handlers -> {"start", "slot", "popped", "done"}]
    /\ hslot \in [Handlers -> Slots]
    /\ hnow \in [Handlers -> Nat]
    /\ result \in [Handlers -> {"none", "hit", "miss"}]
    /\ rpc \in [Tasks -> {"none", "spawned", "sized", "dialing", "done"}]
    /\ rlen \in [Tasks -> Nat]
    /\ handles \in [Tasks -> Seq({"dialing", "open", "failed"})]
    /\ cpc \in [Closers -> {"before", "draining", "done"}]
    /\ todo \in SUBSET Slots
    /\ opened \in Nat
    /\ closed \in Nat

Init ==
    /\ clock = 0
    /\ canceled = FALSE
    /\ poolSize \in Sizes
    /\ queue = [s \in Slots |-> <<>>]
    /\ refilling = [s \in Slots |-> 0]
    /\ hpc = [h \in Handlers |-> "start"]
    /\ hslot \in [Handlers -> Slots]
    /\ hnow = [h \in Handlers |-> 0]
    /\ result = [h \in Handlers |-> "none"]
    /\ rpc = [t \in Tasks |-> "none"]
    /\ rlen = [t \in Tasks |-> 0]
    /\ handles = [t \in Tasks |-> <<>>]
    /\ cpc = [c \in Closers |-> "before"]
    /\ todo = {}
    /\ opened = 0
    /\ closed = 0

\* The slot a refill task works for.
TaskSlot(t) == IF t \in Handlers THEN hslot[t] ELSE t

\* close_all holds the map lock across its per-slot queue locks, so get_slot
\* waits for it.
MapLocked == \E c \in Closers : cpc[c] = "draining"

-----------------------------------------------------------------------------
(* get *)

\* get_slot, then `now` is read, before the queue lock is asked for.
GetBegin(h) ==
    /\ hpc[h] = "start"
    /\ ~MapLocked
    /\ hnow' = [hnow EXCEPT ![h] = clock]
    /\ hpc' = [hpc EXCEPT ![h] = "slot"]
    /\ UNCHANGED <<clock, canceled, poolSize, queue, refilling, hslot, result,
                   rvars, cvars, opened, closed>>

\* Mutant of Usable: the age limit is exclusive.
UsableStrictly(created, now) == now - created < ReuseAge

\* is_pool_entry_usable.  The first test of the code, ws.is_closed(), never
\* fires on an idle connection: only send, recv and close set that flag, and
\* nobody calls them on a connection that sits in the queue.
Usable(created, now) == now - created <= ReuseAge

\* The pop loop, one section under the queue lock.
GetPop(h) ==
    LET q == queue[hslot[h]]
        usable == {i \in DOMAIN q : Usable(q[i], hnow[h])}
    IN  /\ hpc[h] = "slot"
        /\ hpc' = [hpc EXCEPT ![h] = "popped"]
        /\ \/ \E i \in usable :
                 /\ \A j \in usable : i <= j
                 /\ queue' = [queue EXCEPT ![hslot[h]] = SubSeq(q, i + 1, Len(q))]
                 /\ result' = [result EXCEPT ![h] = "hit"]
                 /\ closed' = closed + (i - 1)
           \/ /\ usable = {}
              /\ queue' = [queue EXCEPT ![hslot[h]] = <<>>]
              /\ result' = [result EXCEPT ![h] = "miss"]
              /\ closed' = closed + Len(q)
        /\ UNCHANGED <<clock, canceled, poolSize, refilling, hslot, hnow,
                       rvars, cvars, opened>>

\* Mutant of StartRefill: a store instead of the compare-and-swap.
StartRefillAlways(t, s) ==
    /\ refilling' = [refilling EXCEPT ![s] = 1]
    /\ rpc' = [rpc EXCEPT ![t] = "spawned"]

\* The compare-and-swap both get and warmup do before they spawn a refill.
StartRefill(t, s) ==
    \/ /\ refilling[s] = 0
       /\ refilling' = [refilling EXCEPT ![s] = 1]
       /\ rpc' = [rpc EXCEPT ![t] = "spawned"]
    \/ /\ refilling[s] = 1
       /\ UNCHANGED <<refilling, rpc>>

GetRefill(h) ==
    /\ hpc[h] = "popped"
    /\ hpc' = [hpc EXCEPT ![h] = "done"]
    /\ StartRefill(h, hslot[h])
    /\ UNCHANGED <<clock, canceled, poolSize, queue, hslot, hnow, result,
                   rlen, handles, cvars, opened, closed>>

\* One iteration of warmup's loops.
Warmup(s) ==
    /\ rpc[s] = "none"
    /\ ~MapLocked
    /\ \/ StartRefill(s, s) /\ refilling[s] = 0
       \/ /\ refilling[s] = 1
          /\ rpc' = [rpc EXCEPT ![s] = "done"]
          /\ UNCHANGED refilling
    /\ UNCHANGED <<clock, canceled, poolSize, queue, hvars, rlen, handles,
                   cvars, opened, closed>>

-----------------------------------------------------------------------------
(* refill *)

\* cur_len, read under the queue lock, which is released at once.
RefillLen(t) ==
    /\ rpc[t] = "spawned"
    /\ rlen' = [rlen EXCEPT ![t] = Len(queue[TaskSlot(t)])]
    /\ rpc' = [rpc EXCEPT ![t] = "sized"]
    /\ UNCHANGED <<clock, canceled, poolSize, queue, refilling, hvars,
                   handles, cvars, opened, closed>>

\* Mutant of Needed: the idle connections are not counted.
NeededAll(t) == poolSize

Needed(t) == IF poolSize > rlen[t] THEN poolSize - rlen[t] ELSE 0

\* Mutant of FirstPoll: the dial does not look at the token.
FirstPollDials == "dialing"

\* A dial spawned after the cancellation ends on its first poll: the connect is
\* still pending when `cancelled()` is ready.
FirstPoll == IF canceled THEN "failed" ELSE "dialing"

\* POOL_SIZE is read and the dials are spawned, or the flag is cleared when
\* there is nothing to do.
RefillSpawn(t) ==
    /\ rpc[t] = "sized"
    /\ \/ /\ Needed(t) = 0
          /\ refilling' = [refilling EXCEPT ![TaskSlot(t)] = 0]
          /\ rpc' = [rpc EXCEPT ![t] = "done"]
          /\ UNCHANGED handles
       \/ /\ Needed(t) > 0
          /\ handles' = [handles EXCEPT ![t] = [i \in 1..Needed(t) |-> FirstPoll]]
          /\ rpc' = [rpc EXCEPT ![t] = "dialing"]
          /\ UNCHANGED refilling
    /\ UNCHANGED <<clock, canceled, poolSize, queue, hvars, rlen, cvars,
                   opened, closed>>

\* connect_one_ws returns.  The select over `cancelled()` and the connect
\* polls its branches in random order, so a connect that completes in the
\* poll that sees the cancellation may still win.
DialOpen(t, i) ==
    /\ handles[t][i] = "dialing"
    /\ handles' = [handles EXCEPT ![t][i] = "open"]
    /\ opened' = opened + 1
    /\ UNCHANGED <<clock, canceled, poolSize, queue, refilling, hvars, rpc,
                   rlen, cvars, closed>>

\* Every address failed or timed out, or the session was canceled.
DialFail(t, i) ==
    /\ handles[t][i] = "dialing"
    /\ handles' = [handles EXCEPT ![t][i] = "failed"]
    /\ UNCHANGED <<clock, canceled, poolSize, queue, refilling, hvars, rpc,
                   rlen, cvars, opened, closed>>

\* Mutant of Pushed: a stack instead of a queue.
PushedInFront(q) == <<clock>> \o q

\* A connection enters the queue with the time of the await, not with the time
\* it was established.
Pushed(q) == Append(q, clock)

\* `h.await` on the oldest handle: the connection is pushed unless the queue is
\* at the cap.
RefillCollect(t) ==
    LET s == TaskSlot(t)
        arrived == Head(handles[t]) = "open"
        room == Len(queue[s]) < Cap
    IN  /\ rpc[t] = "dialing"
        /\ handles[t] # <<>>
        /\ Head(handles[t]) # "dialing"
        /\ handles' = [handles EXCEPT ![t] = Tail(@)]
        /\ queue' = IF arrived /\ room
                    THEN [queue EXCEPT ![s] = Pushed(@)] ELSE queue
        /\ closed' = IF arrived /\ ~room THEN closed + 1 ELSE closed
        /\ UNCHANGED <<clock, canceled, poolSize, refilling, hvars, rpc, rlen,
                       cvars, opened>>

\* Mutant of RefillDone: the flag is forgotten on this way out.
RefillDoneKeepsFlag(t) ==
    /\ rpc[t] = "dialing"
    /\ handles[t] = <<>>
    /\ rpc' = [rpc EXCEPT ![t] = "done"]
    /\ UNCHANGED <<clock, canceled, poolSize, queue, refilling, hvars, rlen, handles,
                   cvars, opened, closed>>

RefillDone(t) ==
    /\ rpc[t] = "dialing"
    /\ handles[t] = <<>>
    /\ refilling' = [refilling EXCEPT ![TaskSlot(t)] = 0]
    /\ rpc' = [rpc EXCEPT ![t] = "done"]
    /\ UNCHANGED <<clock, canceled, poolSize, queue, hvars, rlen, handles,
                   cvars, opened, closed>>

-----------------------------------------------------------------------------
(* The end of the session, and what runs around the pool *)

\* StopProxy cancels the token of the session.
Cancel ==
    /\ ~canceled
    /\ canceled' = TRUE
    /\ UNCHANGED <<clock, poolSize, queue, refilling, hvars, rvars, cvars,
                   opened, closed>>

\* close_all takes the map lock ...
CloseAll(c) ==
    /\ canceled
    /\ cpc[c] = "before"
    /\ ~MapLocked
    /\ cpc' = [cpc EXCEPT ![c] = "draining"]
    /\ todo' = Slots
    /\ UNCHANGED <<clock, canceled, poolSize, queue, refilling, hvars, rvars,
                   opened, closed>>

\* Mutant of CloseSlot: the drained connections are dropped, not closed.
CloseSlotDrops(c, s) ==
    /\ cpc[c] = "draining"
    /\ s \in todo
    /\ todo' = todo \ {s}
    /\ cpc' = [cpc EXCEPT ![c] = IF todo = {s} THEN "done" ELSE "draining"]
    /\ queue' = [queue EXCEPT ![s] = <<>>]
    /\ UNCHANGED <<clock, canceled, poolSize, refilling, hvars, rvars, opened, closed>>

\* ... and drains one slot after the other, in the order of a HashMap, each
\* under its own queue lock.
CloseSlot(c, s) ==
    /\ cpc[c] = "draining"
    /\ s \in todo
    /\ todo' = todo \ {s}
    /\ cpc' = [cpc EXCEPT ![c] = IF todo = {s} THEN "done" ELSE "draining"]
    /\ closed' = closed + Len(queue[s])
    /\ queue' = [queue EXCEPT ![s] = <<>>]
    /\ UNCHANGED <<clock, canceled, poolSize, refilling, hvars, rvars, opened>>

\* SetPoolSize may be called at any time, from any thread.
SetPoolSize(n) ==
    /\ poolSize' = n
    /\ UNCHANGED <<clock, canceled, queue, refilling, hvars, rvars, cvars,
                   opened, closed>>

Tick ==
    /\ clock < MaxTime
    /\ clock' = clock + 1
    /\ UNCHANGED <<canceled, poolSize, queue, refilling, hvars, rvars, cvars,
                   opened, closed>>

HandlerStep(h) == GetBegin(h) \/ GetPop(h) \/ GetRefill(h)

RefillStep(t) ==
    \/ RefillLen(t)
    \/ RefillSpawn(t)
    \/ RefillCollect(t)
    \/ RefillDone(t)

DialStep(t, i) == DialOpen(t, i) \/ DialFail(t, i)

CloserStep(c) == CloseAll(c) \/ \E s \in Slots : CloseSlot(c, s)

Next ==
    \/ \E h \in Handlers : HandlerStep(h)
    \/ \E s \in WarmSlots : Warmup(s)
    \/ \E t \in Tasks : RefillStep(t) \/ \E i \in DOMAIN handles[t] : DialStep(t, i)
    \/ \E c \in Closers : CloserStep(c)
    \/ \E n \in Sizes : SetPoolSize(n)
    \/ Cancel
    \/ Tick

Spec == Init /\ [][Next]_vars

\* tokio keeps polling a runnable task, and a dial ends because every phase of
\* a connect has a timeout.  Nothing obliges the user to stop the proxy.
Fairness ==
    /\ \A h \in Handlers : WF_vars(HandlerStep(h))
    /\ \A t \in Tasks : WF_vars(RefillStep(t))
    /\ \A t \in Tasks : WF_vars(\E i \in DOMAIN handles[t] : DialStep(t, i))
    /\ \A c \in Closers : WF_vars(CloserStep(c))

FairSpec == Spec /\ Fairness

-----------------------------------------------------------------------------
(* Properties *)

\* The refill tasks at work on a slot: from the CAS to the store of 0.
Refillers(s) ==
    {t \in Tasks : rpc[t] \in {"spawned", "sized", "dialing"} /\ TaskSlot(t) = s}

\* The flag means what its name says: it is set exactly while one refill task
\* works for the slot, and there are never two of them, whoever raced for the
\* compare-and-swap of get and warmup.
OneRefiller ==
    \A s \in Slots : Cardinality(Refillers(s)) = refilling[s]

\* A slot never holds or has ordered more connections than the largest pool
\* size, although handlers pop, dials finish, POOL_SIZE changes and the length
\* is read long before the pushes: the cap of 16 in refill is never what stops
\* a push.
BoundedIdle ==
    \A s \in Slots :
        /\ Len(queue[s]) <= MaxIdle
        /\ \A t \in Refillers(s) : Len(queue[s]) + Len(handles[t]) <= MaxIdle

\* The queue of a slot is ordered by age, so the pop from the front of get
\* discards only stale entries and hands out the oldest usable one, and the
\* entries behind a usable one are usable too.
OrderedByAge ==
    \A s \in Slots : \A i, j \in DOMAIN queue[s] :
        i <= j => queue[s][i] <= queue[s][j]

\* The members of a family of sets, each with its index.
Members(family) == UNION {{x} \X family[x] : x \in DOMAIN family}

\* Where a connection is on its way from a dial to its close.
Opened(dials) == {i \in DOMAIN dials : dials[i] = "open"}
Arriving == Members([t \in Tasks |-> Opened(handles[t])])
Waiting == Members([s \in Slots |-> DOMAIN queue[s]])
Handed == {h \in Handlers : result[h] = "hit"}

\* No connection is lost: each one that a dial opened is still with its refill
\* task, idle in a queue, in the hands of the handler that hit, or closed.
NoLeak ==
    opened = closed + Cardinality(Handed) + Cardinality(Waiting) + Cardinality(Arriving)

\* The connections of a queue that are young enough at a moment.
Fresh(q, now) == {i \in DOMAIN q : now - q[i] <= ReuseAge}

\* No handler takes away a connection that another one could have used: a get
\* never lowers the number of connections young enough at its own `now` by more
\* than the one it returns, and misses only when there was none.
GetTakesOne ==
    [][\A h \in Handlers :
          hpc[h] = "slot" /\ hpc'[h] = "popped" =>
            LET before == Cardinality(Fresh(queue[hslot[h]], hnow[h]))
                after == Cardinality(Fresh(queue'[hslot[h]], hnow[h]))
            IN  /\ result'[h] = "hit" => after = before - 1
                /\ result'[h] = "miss" => before = 0
                /\ after = Len(queue'[hslot[h]])]_vars

\* No slot holds a connection; ...
NoIdle == \A s \in Slots : queue[s] = <<>>

\* ... both close_all are over and no dial is left that may still open one.
Drained ==
    /\ \A c \in Closers : cpc[c] = "done"
    /\ \A t \in Tasks : Range(handles[t]) \subseteq {"failed"}
    /\ NoIdle

\* After the last close_all an idle connection can only come from a refill
\* that was already dialing when the session was canceled: once no such task
\* is left, a drained pool stays empty.
DrainedStaysEmpty == [](Drained => []NoIdle)

\* A slot never stays locked in "refilling": the task that won the CAS always
\* clears the flag again, on both of its ways out.
RefillEnds == \A s \in Slots : (refilling[s] = 1) ~> (refilling[s] = 0)

\* The refill protocol implements the abstract pool.
Idle == INSTANCE IdlePool WITH
            idle <- [s \in Slots |-> Len(queue[s])],
            handed <- Handed

\* Every step of the pool is a step the abstract pool allows or leaves its
\* state alone.
ImplementsIdlePool == Idle!Spec

=============================================================================
