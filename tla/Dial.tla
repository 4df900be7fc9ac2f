---------------------------------- MODULE Dial ----------------------------------
(***************************************************************************)
(* One dial to a WebSocket server: ws_connect_once (src-wrapper/src/ws.rs)  *)
(* as ws_connect and cf_connect_domain call it, and resolve_doh             *)
(* (src-wrapper/src/cfproxy.rs), which cf_connect_domain asks for an        *)
(* address when the name alone did not lead to a server.                    *)
(*                                                                         *)
(* An attempt has four stages, each under a limit of its own.  resolve_doh  *)
(* spawns one task for each resolver, takes the first address that arrives  *)
(* before its deadline and aborts the tasks that are still asking.  The     *)
(* limit of a task is as long as the deadline: both may be met at once, and *)
(* every order is possible.  Whoever waits for a dial may drop it (a select *)
(* with the CancellationToken of the session); a dropped future aborts      *)
(* nothing, and its tasks go on.                                            *)
(*                                                                         *)
(* All dials are for one domain, so that they share its entry of DOH_CACHE. *)
(* ws_connect is always given an address here: the branch in which it       *)
(* resolves a name itself has no caller.  Ticks stand for the time that     *)
(* passes; no timer is overdue, and any step may happen before a timer.     *)
(***************************************************************************)
EXTENDS Integers, Sequences

CONSTANTS Dials,        \* the calls
          Resolvers,    \* the endpoints and the system's resolver
          Timeout,      \* what the callers pass, 5.0 for cf_connect_domain
          DefaultTimeout,   \* 5 s
          TlsTimeout,       \* 3 s
          PhaseTimeout,     \* CFPROXY_DIAL_PHASE_TIMEOUT, 4 s
          DohTimeout,       \* 1.5 s, of a task and of all of them
          CacheTime         \* 300 s

ASSUME TimesAssumption ==
    /\ Timeout \in Int
    /\ {DefaultTimeout, TlsTimeout, PhaseTimeout, DohTimeout, CacheTime} \subseteq Nat \ {0}

VARIABLES
    kind,       \* dial -> "direct" (ws_connect) or "cf" (cf_connect_domain)
    pc,         \* dial -> where it is
    byAddress,  \* the dials at their second attempt
    left,       \* dial -> time left to the stage, or to resolve_doh
    result,     \* dial -> how it ended
    task,       \* dial -> resolver -> what its task does
    taskLeft,   \* dial -> time left to its tasks
    mail,       \* dial -> the channel of its tasks: was an address found?
    cache,      \* time left to the entry of DOH_CACHE, 0 if there is none
    spent       \* dial -> time since it began (for the properties only)

vars == <<kind, pc, byAddress, left, result, task, taskLeft, mail, cache, spent>>

Stages == <<"connect", "tls", "write", "read">>
InAttempt == {Stages[i] : i \in 1..4}
Running(d) == pc[d] \in InAttempt \cup {"resolve"}
Asking(d) == {r \in Resolvers : task[d][r] = "asking"}

-----------------------------------------------------------------------------
(* The limits *)

WsConnectTimeout(t) == IF t <= 0 THEN DefaultTimeout ELSE t

AtMost(t, limit) == IF t > limit THEN limit ELSE t

\* The limit of the stages of an attempt.
AttemptTimeout(k) ==
    IF k = "cf" THEN AtMost(WsConnectTimeout(Timeout), PhaseTimeout)
                ELSE WsConnectTimeout(Timeout)

\* Mutant of StageTimeout: the handshake has the limit of the other stages.
StageTimeoutOne(k, stage) == AttemptTimeout(k)

StageTimeout(k, stage) ==
    IF stage = "tls" THEN AtMost(AttemptTimeout(k), TlsTimeout) ELSE AttemptTimeout(k)

-----------------------------------------------------------------------------

Results == {"none", "ws", "429", "failed", "dropped"}

TypeOK ==
    /\ kind \in [Dials -> {"direct", "cf"}]
    /\ pc \in [Dials -> InAttempt \cup {"idle", "resolve", "done"}]
    /\ byAddress \in SUBSET Dials
    /\ left \in [Dials -> Nat]
    /\ result \in [Dials -> Results]
    /\ task \in [Dials -> [Resolvers -> {"none", "asking", "aborted", "empty", "found"}]]
    /\ taskLeft \in [Dials -> 0..DohTimeout]
    /\ mail \in [Dials -> Seq(BOOLEAN)]
    /\ cache \in 0..CacheTime
    /\ spent \in [Dials -> Nat]

Init ==
    /\ kind \in [Dials -> {"direct", "cf"}]
    /\ pc = [d \in Dials |-> "idle"]
    /\ byAddress = {}
    /\ left = [d \in Dials |-> 0]
    /\ result = [d \in Dials |-> "none"]
    /\ task = [d \in Dials |-> [r \in Resolvers |-> "none"]]
    /\ taskLeft = [d \in Dials |-> 0]
    /\ mail = [d \in Dials |-> <<>>]
    /\ cache = 0
    /\ spent = [d \in Dials |-> 0]

lookup == <<task, taskLeft, mail>>

Enter(d, stage) ==
    /\ pc' = [pc EXCEPT ![d] = stage]
    /\ left' = [left EXCEPT ![d] = StageTimeout(kind[d], stage)]

End(d, how) ==
    /\ pc' = [pc EXCEPT ![d] = "done"]
    /\ left' = [left EXCEPT ![d] = 0]
    /\ result' = [result EXCEPT ![d] = how]

-----------------------------------------------------------------------------
(* ws_connect_once *)

Begin(d) ==
    /\ pc[d] = "idle"
    /\ Enter(d, "connect")
    /\ UNCHANGED <<kind, byAddress, result, lookup, cache, spent>>

StageEnds(d) ==
    /\ \E i \in 1..3 : pc[d] = Stages[i] /\ Enter(d, Stages[i + 1])
    /\ UNCHANGED <<kind, byAddress, result, lookup, cache, spent>>

\* The server answers 101.
Upgraded(d) ==
    /\ pc[d] = "read"
    /\ End(d, "ws")
    /\ UNCHANGED <<kind, byAddress, lookup, cache, spent>>

\* The server answers 429, which ends either call at once.
TooManyRequests(d) ==
    /\ pc[d] = "read"
    /\ End(d, "429")
    /\ UNCHANGED <<kind, byAddress, lookup, cache, spent>>

\* Any other error, end of stream, answer or timeout, with no attempt left.
Fails(d) ==
    /\ pc[d] \in InAttempt
    /\ kind[d] = "direct" \/ d \in byAddress
    /\ End(d, "failed")
    /\ UNCHANGED <<kind, byAddress, lookup, cache, spent>>

-----------------------------------------------------------------------------
(* resolve_doh *)

HostFailed(d) == pc[d] \in InAttempt /\ kind[d] = "cf" /\ d \notin byAddress

SecondAttempt(d) == byAddress' = byAddress \cup {d} /\ Enter(d, "connect")

FindsCached(d) ==
    /\ HostFailed(d)
    /\ cache > 0
    /\ SecondAttempt(d)
    /\ UNCHANGED <<kind, result, lookup, cache, spent>>

\* There is no HTTP client to ask with.
CannotAsk(d) ==
    /\ HostFailed(d) /\ cache = 0
    /\ End(d, "failed")
    /\ UNCHANGED <<kind, byAddress, lookup, cache, spent>>

Asks(d) ==
    /\ HostFailed(d) /\ cache = 0
    /\ pc' = [pc EXCEPT ![d] = "resolve"]
    /\ left' = [left EXCEPT ![d] = DohTimeout]
    /\ task' = [task EXCEPT ![d] = [r \in Resolvers |-> "asking"]]
    /\ taskLeft' = [taskLeft EXCEPT ![d] = DohTimeout]
    /\ UNCHANGED <<kind, byAddress, result, mail, cache, spent>>

\* A task ends; nobody listens to the tasks of a dial that was dropped.
Answers(d, r, found) ==
    /\ r \in Asking(d)
    /\ task' = [task EXCEPT ![d][r] = IF found THEN "found" ELSE "empty"]
    /\ mail' = IF pc[d] = "resolve" THEN [mail EXCEPT ![d] = Append(@, found)] ELSE mail
    /\ UNCHANGED <<kind, pc, byAddress, left, result, taskLeft, cache, spent>>

\* Mutant of Abort: the tasks that are still asking are left alone.
AbortNone(d) == mail' = [mail EXCEPT ![d] = <<>>] /\ UNCHANGED <<task, taskLeft>>

\* The loop is over: the tasks that are still asking are aborted.
Abort(d) ==
    /\ task' = [task EXCEPT ![d] =
          [r \in Resolvers |-> IF @[r] = "asking" THEN "aborted" ELSE @[r]]]
    /\ mail' = [mail EXCEPT ![d] = <<>>]
    /\ UNCHANGED taskLeft

TakesAddress(d) ==
    /\ pc[d] = "resolve" /\ mail[d] # <<>> /\ Head(mail[d])
    /\ Abort(d)
    /\ cache' = CacheTime
    /\ SecondAttempt(d)
    /\ UNCHANGED <<kind, result, spent>>

SkipsEmpty(d) ==
    /\ pc[d] = "resolve" /\ mail[d] # <<>> /\ ~Head(mail[d])
    /\ mail' = [mail EXCEPT ![d] = Tail(@)]
    /\ UNCHANGED <<kind, pc, byAddress, left, result, task, taskLeft, cache, spent>>

\* Mutant of NoneLeft: the first empty answer ends the loop.
NoneLeftEarly(d) == mail[d] # <<>> /\ ~Head(mail[d])

\* The channel is closed: every task has ended and was heard.
NoneLeft(d) == mail[d] = <<>> /\ Asking(d) = {}

FindsNone(d) ==
    /\ pc[d] = "resolve"
    /\ left[d] = 0 \/ NoneLeft(d)
    /\ Abort(d)
    /\ End(d, "failed")
    /\ UNCHANGED <<kind, byAddress, cache, spent>>

-----------------------------------------------------------------------------
(* The caller and the time *)

Drop(d) ==
    /\ Running(d)
    /\ End(d, "dropped")
    /\ mail' = [mail EXCEPT ![d] = <<>>]
    /\ UNCHANGED <<kind, byAddress, task, taskLeft, cache, spent>>

Less(t) == IF t = 0 THEN 0 ELSE t - 1

Tick ==
    /\ \E d \in Dials : Running(d) \/ Asking(d) # {}
    /\ \A d \in Dials : Running(d) => left[d] > 0
    /\ \A d \in Dials : Asking(d) # {} => taskLeft[d] > 0
    /\ left' = [d \in Dials |-> Less(left[d])]
    /\ taskLeft' = [d \in Dials |-> Less(taskLeft[d])]
    /\ cache' = Less(cache)
    /\ spent' = [d \in Dials |-> IF Running(d) THEN spent[d] + 1 ELSE spent[d]]
    /\ UNCHANGED <<kind, pc, byAddress, result, task, mail>>

Next ==
    \/ \E d \in Dials :
          \/ Begin(d) \/ StageEnds(d) \/ Upgraded(d) \/ TooManyRequests(d) \/ Fails(d)
          \/ FindsCached(d) \/ CannotAsk(d) \/ Asks(d)
          \/ \E r \in Resolvers, found \in BOOLEAN : Answers(d, r, found)
          \/ TakesAddress(d) \/ SkipsEmpty(d) \/ FindsNone(d)
          \/ Drop(d)
    \/ Tick

Spec == Init /\ [][Next]_vars

-----------------------------------------------------------------------------
(* Properties *)

\* The limits of the stages add up.  A client that waits for a dial of a
\* Cloudflare domain waits for two whole attempts and a lookup at most.
AttemptBound(k) == 3 * AttemptTimeout(k) + AtMost(AttemptTimeout(k), TlsTimeout)

DialBounded ==
    \A d \in Dials :
        spent[d] <= IF kind[d] = "cf" THEN 2 * AttemptBound("cf") + DohTimeout
                                      ELSE AttemptBound("direct")

\* The comment before the abort calls it the fix of a leak: no task of
\* resolve_doh goes on asking when its dial has gone on.  Only a dial that was
\* dropped leaves tasks behind, and these end by their own limit.
NoOrphans ==
    \A d \in Dials :
        Asking(d) # {} => pc[d] = "resolve" \/ result[d] = "dropped"

\* A lookup gives up only at its deadline or when every resolver has answered
\* that it found nothing: no address that came in time is lost, whichever
\* resolver found it, and however many had answered before.
NoEarlySurrender ==
    [][\A d \in Dials :
          pc[d] = "resolve" /\ pc'[d] = "done" /\ result'[d] # "dropped"
          => left[d] = 0 \/ \A r \in Resolvers : task[d][r] = "empty"]_vars

=============================================================================
