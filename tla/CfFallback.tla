------------------------------ MODULE CfFallback ------------------------------
(***************************************************************************)
(* The dials through Cloudflare: cfproxy_acquire_ws and                     *)
(* try_cfproxy_base_domain (src-wrapper/src/proxy.rs), the 429 cooldowns    *)
(* (cfproxy.rs) and the preferred domain of a data centre (balancer.rs).    *)
(*                                                                         *)
(* A client dials the preferred domain first and, if that fails, every      *)
(* other domain in tasks of its own, Parallel at a time, and awaits them in *)
(* order.  All clients share a semaphore of Permits dials and the table of  *)
(* cooldowns, which a dial tests before it waits for its permit and changes *)
(* after it.  The session's token ends the tasks, not the first dial.  A    *)
(* connection too many is closed by a task of its own, which nobody awaits. *)
(*                                                                         *)
(* The clients are those of one data centre, with the fallback enabled and  *)
(* a list of domains, already normalised, that does not change.             *)
(***************************************************************************)
EXTENDS Integers, FiniteSets, Sequences

CONSTANTS Clients,
          Domains,      \* CFPROXY.domains, which is also BALANCER's list
          Throttled,    \* those that may answer with 429 (all, in the program)
          None,
          Permits,      \* CFPROXY_GLOBAL_PARALLEL
          Parallel,     \* CFPROXY_FALLBACK_PARALLEL
          Cooldown,     \* CFPROXY_429_COOLDOWN
          MaxCooldown,  \* CFPROXY_429_MAX_COOLDOWN
          RetryAfters,  \* what retry_after_delay returns, 0 without a header
          MaxClosers,   \* bound on the tasks that close (model checking only)
          MaxTime       \* bound on the clock (model checking only)

ASSUME SetAssumption ==
    /\ IsFiniteSet(Clients) /\ IsFiniteSet(Domains)
    /\ Throttled \subseteq Domains /\ None \notin Domains

ASSUME NumberAssumption ==
    /\ Permits \in Nat \ {0} /\ Parallel \in Nat \ {0}
    /\ Cooldown \in Nat \ {0} /\ MaxCooldown \in Nat /\ Cooldown <= MaxCooldown
    /\ RetryAfters \subseteq Nat /\ MaxClosers \in Nat /\ MaxTime \in Nat

VARIABLES
    clock,      \* Instant::now()
    entries,    \* the keys of CFPROXY_429
    until,      \* their until, 0 for a domain without an entry
    strikes,    \* their strikes, 0 for a domain without an entry
    sticky,     \* dc_to_domain of the data centre
    permits,    \* the free permits of CFPROXY_SEM
    pc,         \* client -> "idle", "first" (awaits the first dial) or "rest"
    todo,       \* client -> the domains it has still to await, in order
    task,       \* client -> domain -> how far the attempt is
    cancelled,  \* client -> its session's token is cancelled
    chosen,     \* client -> the domain of the connection it keeps
    closers     \* the detached tasks that close a connection

table == <<entries, until, strikes>>
vars == <<clock, table, sticky, permits, pc, todo, task, cancelled, chosen, closers>>

Stages == {"none", "waiting", "expired", "queued", "dialling", "open", "failed"}
Ended == {"open", "failed"}
\* Past the test of the cooldown, before the answer of the server.
Committed == {"queued", "dialling"}

CommittedTo(d) == {c \in Clients : task[c][d] \in Committed}
Dials == {cd \in Clients \X Domains : task[cd[1]][cd[2]] = "dialling"}
Cooling(d) == until[d] > clock

-----------------------------------------------------------------------------

TypeOK ==
    /\ clock \in Nat
    /\ entries \in SUBSET Domains
    /\ until \in [Domains -> Nat]
    /\ strikes \in [Domains -> Nat]
    /\ sticky \in Domains
    /\ permits \in 0..Permits
    /\ pc \in [Clients -> {"idle", "first", "rest"}]
    /\ \A c \in Clients :
          /\ Len(todo[c]) <= Cardinality(Domains)
          /\ \A i \in 1..Len(todo[c]) : todo[c][i] \in Domains
    /\ task \in [Clients -> [Domains -> Stages]]
    /\ cancelled \in [Clients -> BOOLEAN]
    /\ chosen \in [Clients -> Domains \cup {None}]
    /\ closers \in Nat

Init ==
    /\ clock = 0
    /\ entries = {}
    /\ until = [d \in Domains |-> 0]
    /\ strikes = [d \in Domains |-> 0]
    /\ sticky \in Domains
    /\ permits = Permits
    /\ pc = [c \in Clients |-> "idle"]
    /\ todo = [c \in Clients |-> <<>>]
    /\ task = [c \in Clients |-> [d \in Domains |-> "none"]]
    /\ cancelled = [c \in Clients |-> FALSE]
    /\ chosen = [c \in Clients |-> None]
    /\ closers = 0

-----------------------------------------------------------------------------
(* The table of cooldowns.                                                  *)

Least(a, b) == IF a < b THEN a ELSE b

\* next_cfproxy_429_cooldown_delay without a header, after s strikes.
Backoff(s) == Least(Cooldown * 2^s, MaxCooldown)

\* The strikes that still count: none without an entry or with an old one.
Counted(d) ==
    IF d \in entries /\ clock - until[d] <= MaxCooldown THEN strikes[d] ELSE 0

Delay(d, retry_after) ==
    IF retry_after > 0 THEN Least(retry_after, MaxCooldown) ELSE Backoff(Counted(d))

Mark(d, retry_after) ==
    /\ entries' = entries \cup {d}
    /\ until' = [until EXCEPT ![d] = clock + Delay(d, retry_after)]
    /\ strikes' = [strikes EXCEPT ![d] = Counted(d) + 1]

Forget(D) ==
    /\ entries' = entries \ D
    /\ until' = [d \in Domains |-> IF d \in D THEN 0 ELSE until[d]]
    /\ strikes' = [d \in Domains |-> IF d \in D THEN 0 ELSE strikes[d]]

-----------------------------------------------------------------------------
(* A client: cfproxy_acquire_ws.                                            *)

\* get_domains_for_dc: the preferred domain, then the others shuffled.
Orders ==
    {o \in [1..Cardinality(Domains) -> Domains] :
        /\ o[1] = sticky
        /\ \A i, j \in DOMAIN o : o[i] = o[j] => i = j}

\* A handler of a session that is already cancelled may still come here.
Acquire(c) ==
    /\ pc[c] = "idle"
    /\ pc' = [pc EXCEPT ![c] = "first"]
    /\ \E o \in Orders :
          /\ todo' = [todo EXCEPT ![c] = o]
          /\ task' = [task EXCEPT ![c][o[1]] = "waiting"]
    /\ \E t \in BOOLEAN : cancelled' = [cancelled EXCEPT ![c] = t]
    /\ UNCHANGED <<clock, table, sticky, permits, chosen, closers>>

FirstOpens(c) ==
    /\ pc[c] = "first"
    /\ task[c][Head(todo[c])] = "open"
    /\ pc' = [pc EXCEPT ![c] = "rest"]
    /\ chosen' = [chosen EXCEPT ![c] = Head(todo[c])]
    /\ todo' = [todo EXCEPT ![c] = <<>>]
    /\ UNCHANGED <<clock, table, sticky, permits, task, cancelled, closers>>

\* Mutant of FirstFails: ordered[2..].
FirstFailsSkips(c) ==
    LET rest == Tail(Tail(todo[c])) IN
    /\ pc[c] = "first"
    /\ task[c][Head(todo[c])] = "failed"
    /\ pc' = [pc EXCEPT ![c] = "rest"]
    /\ todo' = [todo EXCEPT ![c] = rest]
    /\ task' = [task EXCEPT ![c] =
                   [d \in Domains |-> IF \E i \in 1..Len(rest) : rest[i] = d
                                      THEN "waiting" ELSE task[c][d]]]
    /\ UNCHANGED <<clock, table, sticky, permits, cancelled, chosen, closers>>

\* ordered[1..]: one task for each of the other domains.
FirstFails(c) ==
    LET rest == Tail(todo[c]) IN
    /\ pc[c] = "first"
    /\ task[c][Head(todo[c])] = "failed"
    /\ pc' = [pc EXCEPT ![c] = "rest"]
    /\ todo' = [todo EXCEPT ![c] = rest]
    /\ task' = [task EXCEPT ![c] =
                   [d \in Domains |-> IF \E i \in 1..Len(rest) : rest[i] = d
                                      THEN "waiting" ELSE task[c][d]]]
    /\ UNCHANGED <<clock, table, sticky, permits, cancelled, chosen, closers>>

\* Mutant of Await: the first connection ends the loop.
AwaitFirst(c) ==
    LET d == Head(todo[c]) IN
    /\ pc[c] = "rest" /\ todo[c] # <<>>
    /\ task[c][d] \in Ended
    /\ todo' = [todo EXCEPT ![c] = IF task[c][d] = "open" THEN <<>> ELSE Tail(@)]
    /\ chosen' = [chosen EXCEPT ![c] = IF task[c][d] = "open" THEN d ELSE None]
    /\ UNCHANGED <<clock, table, sticky, permits, pc, task, cancelled, closers>>

\* The first connection in the order is kept; for a later one a task is spawned
\* that closes it.
Await(c) ==
    LET d == Head(todo[c]) IN
    /\ pc[c] = "rest" /\ todo[c] # <<>>
    /\ todo' = [todo EXCEPT ![c] = Tail(todo[c])]
    /\ \/ /\ task[c][d] = "failed"
          /\ UNCHANGED <<task, chosen, closers>>
       \/ /\ task[c][d] = "open" /\ chosen[c] = None
          /\ chosen' = [chosen EXCEPT ![c] = d]
          /\ UNCHANGED <<task, closers>>
       \/ /\ task[c][d] = "open" /\ chosen[c] # None
          /\ closers < MaxClosers
          /\ closers' = closers + 1
          /\ task' = [task EXCEPT ![c][d] = "none"]
          /\ UNCHANGED chosen
    /\ UNCHANGED <<clock, table, sticky, permits, pc, cancelled>>

\* update_domain_for_dc, and the connection goes to the caller.
Return(c) ==
    /\ pc[c] = "rest" /\ todo[c] = <<>>
    /\ pc' = [pc EXCEPT ![c] = "idle"]
    /\ sticky' = IF chosen[c] = None THEN sticky ELSE chosen[c]
    /\ chosen' = [chosen EXCEPT ![c] = None]
    /\ task' = [task EXCEPT ![c] = [d \in Domains |-> "none"]]
    /\ cancelled' = [cancelled EXCEPT ![c] = FALSE]
    /\ UNCHANGED <<clock, table, permits, todo, closers>>

-----------------------------------------------------------------------------
(* An attempt: try_cfproxy_base_domain, for the first domain or in a task.  *)

\* The tasks that hold a permit of the client's own semaphore.
Entered(c) ==
    {d \in Domains : task[c][d] \in {"expired"} \cup Committed}

\* A task takes its permit and goes on to the test without an await between them;
\* the first dial needs none, and no task is there yet that could hold one.  The
\* test is cfproxy_429_cooldown_remaining, as far as it holds the table's lock.
Check(c, d) ==
    /\ task[c][d] = "waiting"
    /\ Cardinality(Entered(c)) < Parallel
    /\ task' = [task EXCEPT ![c][d] =
                   IF d \notin entries THEN "queued"
                   ELSE IF Cooling(d) THEN "failed" ELSE "expired"]
    /\ UNCHANGED <<clock, table, sticky, permits, pc, todo, cancelled, chosen, closers>>

\* Mutant of Remove: the entry stays until a dial succeeds.
RemoveLater(c, d) ==
    /\ task[c][d] = "expired"
    /\ task' = [task EXCEPT ![c][d] = "queued"]
    /\ UNCHANGED <<clock, table, sticky, permits, pc, todo, cancelled, chosen, closers>>

\* It removes an entry it found over under a second lock, without a new test.
Remove(c, d) ==
    /\ task[c][d] = "expired"
    /\ Forget({d})
    /\ task' = [task EXCEPT ![c][d] = "queued"]
    /\ UNCHANGED <<clock, sticky, permits, pc, todo, cancelled, chosen, closers>>

GetPermit(c, d) ==
    /\ task[c][d] = "queued"
    /\ permits > 0
    /\ permits' = permits - 1
    /\ task' = [task EXCEPT ![c][d] = "dialling"]
    /\ UNCHANGED <<clock, table, sticky, pc, todo, cancelled, chosen, closers>>

DialOk(c, d) ==
    /\ task[c][d] = "dialling"
    /\ Forget({d})
    /\ permits' = permits + 1
    /\ task' = [task EXCEPT ![c][d] = "open"]
    /\ UNCHANGED <<clock, sticky, pc, todo, cancelled, chosen, closers>>

DialThrottled(c, d) ==
    /\ task[c][d] = "dialling" /\ d \in Throttled
    /\ \E retry_after \in RetryAfters : Mark(d, retry_after)
    /\ permits' = permits + 1
    /\ task' = [task EXCEPT ![c][d] = "failed"]
    /\ UNCHANGED <<clock, sticky, pc, todo, cancelled, chosen, closers>>

DialFails(c, d) ==
    /\ task[c][d] = "dialling"
    /\ permits' = permits + 1
    /\ task' = [task EXCEPT ![c][d] = "failed"]
    /\ UNCHANGED <<clock, table, sticky, pc, todo, cancelled, chosen, closers>>

\* Where an attempt awaits: its client's semaphore, the global one, the dial.
Awaits == {"waiting", "queued", "dialling"}

\* Mutant of Abort: the permit of a dropped attempt is forgotten.
AbortKeepsPermit(c, d) ==
    /\ pc[c] = "rest" /\ cancelled[c]
    /\ task[c][d] \in Awaits
    /\ task' = [task EXCEPT ![c][d] = "failed"]
    /\ UNCHANGED <<clock, table, sticky, permits, pc, todo, cancelled, chosen, closers>>

\* The task's select! drops the attempt, and with it a permit it holds.
Abort(c, d) ==
    /\ pc[c] = "rest" /\ cancelled[c]
    /\ task[c][d] \in Awaits
    /\ permits' = IF task[c][d] = "dialling" THEN permits + 1 ELSE permits
    /\ task' = [task EXCEPT ![c][d] = "failed"]
    /\ UNCHANGED <<clock, table, sticky, pc, todo, cancelled, chosen, closers>>

\* RawWebSocket::close in its task: the CLOSE frame is written, fails or times out.
CloseEnds ==
    /\ closers > 0
    /\ closers' = closers - 1
    /\ UNCHANGED <<clock, table, sticky, permits, pc, todo, task, cancelled, chosen>>

-----------------------------------------------------------------------------
(* The session and the time.                                                *)

Cancel ==
    /\ \E c \in Clients : pc[c] # "idle" /\ ~cancelled[c]
    /\ cancelled' = [c \in Clients |-> pc[c] # "idle"]
    /\ UNCHANGED <<clock, table, sticky, permits, pc, todo, task, chosen, closers>>

\* StopProxy clears the table after it has cancelled the session, StartProxy
\* before it opens the next one: only handlers of old sessions are left.
ClearCooldowns ==
    /\ \A c \in Clients : pc[c] # "idle" => cancelled[c]
    /\ Forget(Domains)
    /\ UNCHANGED <<clock, sticky, permits, pc, todo, task, cancelled, chosen, closers>>

Tick ==
    /\ clock < MaxTime
    /\ clock' = clock + 1
    /\ UNCHANGED <<table, sticky, permits, pc, todo, task, cancelled, chosen, closers>>

Next ==
    \/ \E c \in Clients :
          \/ Acquire(c)
          \/ FirstOpens(c)
          \/ FirstFails(c)
          \/ Await(c)
          \/ Return(c)
    \/ \E c \in Clients, d \in Domains :
          \/ Check(c, d)
          \/ Remove(c, d)
          \/ GetPermit(c, d)
          \/ DialOk(c, d)
          \/ DialThrottled(c, d)
          \/ DialFails(c, d)
          \/ Abort(c, d)
    \/ CloseEnds
    \/ Cancel
    \/ ClearCooldowns
    \/ Tick

Spec == Init /\ [][Next]_vars

-----------------------------------------------------------------------------
(* Properties.                                                              *)

\* Every permit of CFPROXY_SEM is free or held by a dial that goes on: no way
\* out of an attempt, the cancellation of its task included, loses one, which
\* would take the Cloudflare route from every later client.
PermitsKept == permits + Cardinality(Dials) = Permits

\* The strikes that double the delay come from attempts that passed the test of
\* the cooldown before the first of them was refused: one for each client that
\* dials the domain at the same time, and never more, because a test that finds
\* the cooldown over removes the entry with its strikes.
StrikesBounded ==
    \A d \in Domains : strikes[d] + Cardinality(CommittedTo(d)) <= Cardinality(Clients)

Returns(c) == pc[c] # "idle" /\ pc'[c] = "idle"

\* When cfproxy_acquire_ws returns, none of its attempts goes on; and a connection
\* leaves its hands only to the caller, which gets one, or, one by one, to tasks
\* that do nothing but close it.  Those are all that it leaves behind.
LeavesOnlyClosers ==
    [][\A c \in Clients :
          /\ Returns(c) => \A d \in Domains : task[c][d] \in Ended \cup {"none"}
          /\ \A d \in Domains : task[c][d] = "open" /\ task'[c][d] # "open" =>
                (Returns(c) /\ d = chosen[c]) \/ closers' = closers + 1]_vars

\* It returns without a connection only after an attempt for every domain.
GivesUpLast ==
    [][\A c \in Clients : Returns(c) /\ chosen[c] = None =>
          \A d \in Domains : task[c][d] = "failed"]_vars
=============================================================================
