------------------------------ MODULE ViewModel ------------------------------
(***************************************************************************)
(* The application's ProxyViewModel (ios/TgWsProxy/Proxy) in the local      *)
(* mode: LoopbackEngine calls the Rust core of the same process.            *)
(*                                                                         *)
(* The view model lives on the main actor: what runs between two awaits is  *)
(* one action, and any other main-actor code may run at an await.  A call   *)
(* of the engine is three steps: the main-actor code that awaits it, the    *)
(* effect on the core in a detached task, and the resumption.  The core is  *)
(* reduced to what the calls and the port probe observe (module ProxyCore   *)
(* is the detailed one).                                                    *)
(***************************************************************************)
EXTENDS Integers, FiniteSets

CONSTANTS MaxRuns,       \* bound on the calls of start() that pass its guard
          MaxStops,      \* bound on the taps that stop
          MaxAttempts    \* maxReconnectAttempts

ASSUME BoundAssumption ==
    MaxRuns \in Nat /\ MaxStops \in Nat /\ MaxAttempts \in Nat

Runs == 1..MaxRuns
Stops == 1..MaxStops

VARIABLES
    state,      \* ProxyViewModel.state
    attempt,    \* startAttempt
    runs,       \* number of starts so far
    start,      \* run -> the task of start(): where it is
    result,     \* run -> what engine.start returned to it
    retry,      \* run -> the reconnect task its failure created
    retryRef,   \* reconnectTask: the run whose task it refers to, 0 for nil
    stop,       \* stop -> the task of stop(): where it is
    poll,       \* run -> the statistics task of its didStart
    pollStop,   \* run -> that task is cancelled
    pollRef,    \* statsTask: the run whose task it refers to, 0 for nil
    seen,       \* run -> what the call its statistics task awaits answered
    shown,      \* the screen shows statistics of a working core
    keeper,     \* BackgroundKeeper.isActive
    coreUp,     \* StartProxy succeeded and StopProxy was not called since
    listening,  \* the listener of that session is open
    lingering,  \* the listener of a stopped session is not dropped yet
    obstacle,   \* what keeps a start from succeeding: "none", "port", "cache"
    reconnect   \* the setting app.reconnect

model == <<state, attempt, runs, keeper, shown>>
startVars == <<start, result>>
retryVars == <<retry, retryRef>>
pollVars == <<poll, pollStop, pollRef, seen>>
core == <<coreUp, listening, lingering>>
outside == <<obstacle, reconnect>>
vars == <<model, startVars, retryVars, stop, pollVars, core, outside>>

-----------------------------------------------------------------------------

TypeOK ==
    /\ state \in {"stopped", "starting", "running", "failed"}
    /\ attempt \in 0..MaxAttempts
    /\ runs \in 0..MaxRuns
    /\ start \in [Runs -> {"none", "calling", "answered", "done"}]
    /\ result \in [Runs -> {0, -1, -3, -4}]
    /\ retry \in [Runs -> {"none", "sleeping", "cancelled", "done"}]
    /\ retryRef \in 0..MaxRuns
    /\ stop \in [Stops -> {"none", "queued", "calling", "answered", "done"}]
    /\ poll \in [Runs -> {"none", "asking", "told", "probing", "probed", "sleeping", "done"}]
    /\ pollStop \in [Runs -> BOOLEAN]
    /\ pollRef \in 0..MaxRuns
    /\ seen \in [Runs -> BOOLEAN]
    /\ shown \in BOOLEAN
    /\ keeper \in BOOLEAN
    /\ coreUp \in BOOLEAN
    /\ listening \in BOOLEAN
    /\ lingering \in BOOLEAN
    /\ obstacle \in {"none", "port", "cache"}
    /\ reconnect \in BOOLEAN

Init ==
    /\ state = "stopped"
    /\ attempt = 0
    /\ runs = 0
    /\ start = [r \in Runs |-> "none"]
    /\ result = [r \in Runs |-> 0]
    /\ retry = [r \in Runs |-> "none"]
    /\ retryRef = 0
    /\ stop = [j \in Stops |-> "none"]
    /\ poll = [r \in Runs |-> "none"]
    /\ pollStop = [r \in Runs |-> FALSE]
    /\ pollRef = 0
    /\ seen = [r \in Runs |-> FALSE]
    /\ shown = FALSE
    /\ keeper = FALSE
    /\ coreUp = FALSE
    /\ listening = FALSE
    /\ lingering = FALSE
    /\ obstacle \in {"none", "port", "cache"}
    /\ reconnect \in BOOLEAN

\* reconnectTask?.cancel() on a map of the reconnect tasks.
CancelRetry(f) ==
    [r \in Runs |-> IF r = retryRef /\ f[r] = "sleeping" THEN "cancelled" ELSE f[r]]

\* Mutant of CancelPoll: the reference is dropped without a cancel.
CancelPollNot == pollStop

\* statsTask?.cancel()
CancelPoll == [r \in Runs |-> pollStop[r] \/ r = pollRef]

-----------------------------------------------------------------------------
(* start *)

\* The body of start() after its guard; f is the map of the reconnect tasks.
DoStart(isRetry, f) ==
    /\ runs < MaxRuns
    /\ runs' = runs + 1
    /\ attempt' = IF isRetry THEN attempt ELSE 0
    /\ retry' = CancelRetry(f)
    /\ state' = "starting"
    /\ start' = [start EXCEPT ![runs + 1] = "calling"]

\* A tap on the power button, or the auto-start of ContentView.  The button is
\* disabled while starting.  SwiftUI handles a tap when the main queue has run
\* the tasks of earlier taps.
TapStart ==
    /\ \A j \in Stops : stop[j] # "queued"
    /\ state \in {"stopped", "failed"}
    /\ DoStart(FALSE, retry)
    /\ UNCHANGED <<shown, keeper, result, retryRef, stop, pollVars, core, outside>>

\* NativeProxy.start in a detached task: no cache directory, or StartProxy.
StartCall(r) ==
    LET code == IF obstacle = "cache" THEN -4
                ELSE IF coreUp THEN -1
                ELSE IF lingering \/ obstacle = "port" THEN -3
                ELSE 0
    IN  /\ start[r] = "calling"
        /\ start' = [start EXCEPT ![r] = "answered"]
        /\ result' = [result EXCEPT ![r] = code]
        /\ coreUp' = (coreUp \/ code = 0)
        /\ listening' = (listening \/ code = 0)
        /\ UNCHANGED <<model, retryVars, stop, pollVars, lingering, outside>>

\* didStart, on the main actor.  Nothing looks at the state that start() left.
StartSucceeded(r) ==
    /\ start[r] = "answered"
    /\ result[r] = 0
    /\ start' = [start EXCEPT ![r] = "done"]
    /\ attempt' = 0
    /\ state' = "running"
    /\ keeper' = TRUE
    /\ pollStop' = CancelPoll
    /\ pollRef' = r
    /\ poll' = [poll EXCEPT ![r] = "asking"]
    /\ UNCHANGED <<runs, shown, result, retryVars, stop, seen, core, outside>>

\* Mutant of StartFailed: the failure is not reported.
StartFailedSilently(r) ==
    /\ start[r] = "answered"
    /\ result[r] # 0
    /\ start' = [start EXCEPT ![r] = "done"]
    /\ UNCHANGED <<model, result, retryVars, stop, pollVars, core, outside>>

\* handleStartFailure: retry in three seconds, or didFail.
StartFailed(r) ==
    /\ start[r] = "answered"
    /\ result[r] # 0
    /\ start' = [start EXCEPT ![r] = "done"]
    /\ \/ /\ reconnect /\ attempt < MaxAttempts
          /\ attempt' = attempt + 1
          /\ state' = "starting"
          /\ retry' = [CancelRetry(retry) EXCEPT ![r] = "sleeping"]
          /\ retryRef' = r
       \/ /\ ~(reconnect /\ attempt < MaxAttempts)
          /\ state' = "failed"
          /\ UNCHANGED <<attempt, retry, retryRef>>
    /\ UNCHANGED <<runs, shown, keeper, result, stop, pollVars, core, outside>>

\* The sleep of a reconnect task ends.  It calls start(isRetry: true), whose
\* guard refuses while the state is starting or running.
RetryWakes(r) ==
    LET woken == [retry EXCEPT ![r] = "done"]
    IN  /\ \/ /\ retry[r] = "sleeping"
              /\ state \in {"stopped", "failed"}
              /\ DoStart(TRUE, woken)
           \/ /\ retry[r] = "sleeping" => state \in {"starting", "running"}
              /\ retry[r] \in {"sleeping", "cancelled"}
              /\ retry' = woken
              /\ UNCHANGED <<runs, attempt, state, start>>
        /\ UNCHANGED <<shown, keeper, result, retryRef, stop, pollVars, core,
                       outside>>

-----------------------------------------------------------------------------
(* stop *)

\* A tap while running queues a task that will run stopAndWait.
TapStop(j) ==
    /\ state = "running"
    /\ \A i \in Stops : stop[i] # "queued"
    /\ stop[j] = "none"
    /\ \A i \in Stops : i < j => stop[i] # "none"
    /\ stop' = [stop EXCEPT ![j] = "queued"]
    /\ UNCHANGED <<model, startVars, retryVars, pollVars, core, outside>>

\* Mutant of StopBegin: the state is left to the end of the await.
StopBeginLate(j) ==
    /\ stop[j] = "queued"
    /\ stop' = [stop EXCEPT ![j] = "calling"]
    /\ UNCHANGED <<model, startVars, retryVars, pollVars, core, outside>>

\* stopAndWait up to `await engine.stop()`.
StopBegin(j) ==
    /\ stop[j] = "queued"
    /\ \/ /\ state = "stopped"
          /\ stop' = [stop EXCEPT ![j] = "done"]
          /\ UNCHANGED <<attempt, state, retryVars, pollStop, pollRef>>
       \/ /\ state # "stopped"
          /\ stop' = [stop EXCEPT ![j] = "calling"]
          /\ retry' = CancelRetry(retry)
          /\ retryRef' = 0
          /\ pollStop' = CancelPoll
          /\ pollRef' = 0
          /\ attempt' = 0
          /\ state' = "stopped"
    /\ UNCHANGED <<runs, shown, keeper, startVars, poll, seen, core, outside>>

\* StopProxy in a detached task: the listener is dropped later.
StopCall(j) ==
    /\ stop[j] = "calling"
    /\ stop' = [stop EXCEPT ![j] = "answered"]
    /\ coreUp' = FALSE
    /\ lingering' = (lingering \/ (coreUp /\ listening))
    /\ listening' = FALSE
    /\ UNCHANGED <<model, startVars, retryVars, pollVars, outside>>

\* Mutant of StopEnd: the location updates go on.
StopEndKeeping(j) ==
    /\ stop[j] = "answered"
    /\ stop' = [stop EXCEPT ![j] = "done"]
    /\ shown' = FALSE
    /\ UNCHANGED <<state, attempt, runs, keeper, startVars, retryVars, pollVars, core,
                   outside>>

\* The rest of stopAndWait.
StopEnd(j) ==
    /\ stop[j] = "answered"
    /\ stop' = [stop EXCEPT ![j] = "done"]
    /\ keeper' = FALSE
    /\ shown' = FALSE
    /\ UNCHANGED <<state, attempt, runs, startVars, retryVars, pollVars, core,
                   outside>>

-----------------------------------------------------------------------------
(* The statistics task of didStart *)

\* engine.stats() in a detached task.
PollCall(r) ==
    /\ poll[r] = "asking"
    /\ poll' = [poll EXCEPT ![r] = "told"]
    /\ seen' = [seen EXCEPT ![r] = coreUp]
    /\ UNCHANGED <<model, startVars, retryVars, stop, pollStop, pollRef, core,
                   outside>>

\* The answer is shown; every fifth time, while running, the port is probed.
PollShow(r) ==
    /\ poll[r] = "told"
    /\ shown' = seen[r]
    /\ \/ poll' = [poll EXCEPT ![r] = "sleeping"]
       \/ state = "running" /\ poll' = [poll EXCEPT ![r] = "probing"]
    /\ UNCHANGED <<state, attempt, runs, keeper, startVars, retryVars, stop,
                   pollStop, pollRef, seen, core, outside>>

\* isListening: whoever listens on the port answers the probe, unless the timer
\* of two seconds is over first.
PollProbe(r) ==
    /\ poll[r] = "probing"
    /\ poll' = [poll EXCEPT ![r] = "probed"]
    /\ \E alive \in BOOLEAN :
          /\ alive => listening \/ lingering \/ obstacle = "port"
          /\ seen' = [seen EXCEPT ![r] = alive]
    /\ UNCHANGED <<model, startVars, retryVars, stop, pollStop, pollRef, core,
                   outside>>

\* A probe that failed calls didFail, whatever happened during the await.
PollVerdict(r) ==
    /\ poll[r] = "probed"
    /\ poll' = [poll EXCEPT ![r] = IF seen[r] THEN "sleeping" ELSE "done"]
    /\ state' = IF seen[r] THEN state ELSE "failed"
    /\ UNCHANGED <<attempt, runs, shown, keeper, startVars, retryVars, stop,
                   pollStop, pollRef, seen, core, outside>>

\* Mutant of PollWakes: Task.isCancelled is not looked at.
PollWakesAlways(r) ==
    /\ poll[r] = "sleeping"
    /\ poll' = [poll EXCEPT ![r] = "asking"]
    /\ UNCHANGED <<model, startVars, retryVars, stop, pollStop, pollRef, seen,
                   core, outside>>

PollWakes(r) ==
    /\ poll[r] = "sleeping"
    /\ poll' = [poll EXCEPT ![r] = IF pollStop[r] THEN "done" ELSE "asking"]
    /\ UNCHANGED <<model, startVars, retryVars, stop, pollStop, pollRef, seen,
                   core, outside>>

-----------------------------------------------------------------------------
(* The surroundings *)

\* run_proxy of the stopped session drops its listener.
ListenerDropped ==
    /\ lingering
    /\ lingering' = FALSE
    /\ UNCHANGED <<model, startVars, retryVars, stop, pollVars, coreUp, listening,
                   outside>>

\* iOS takes the sockets of a suspended application; the core does not notice.
ListenerLost ==
    /\ listening
    /\ listening' = FALSE
    /\ UNCHANGED <<model, startVars, retryVars, stop, pollVars, coreUp, lingering,
                   outside>>

\* The other program leaves the port, or the cache becomes available.
ObstacleGone ==
    /\ obstacle # "none"
    /\ obstacle' = "none"
    /\ UNCHANGED <<model, startVars, retryVars, stop, pollVars, core, reconnect>>

\* The user turns the switch of SettingsView.
SetReconnect(on) ==
    /\ reconnect' = on
    /\ UNCHANGED <<model, startVars, retryVars, stop, pollVars, core, obstacle>>

StartStep(r) == StartCall(r) \/ StartSucceeded(r) \/ StartFailed(r)
StopStep(j) == StopBegin(j) \/ StopCall(j) \/ StopEnd(j)
PollStep(r) ==
    \/ PollCall(r)
    \/ PollShow(r)
    \/ PollProbe(r)
    \/ PollVerdict(r)
    \/ PollWakes(r)

Next ==
    \/ TapStart
    \/ \E j \in Stops : TapStop(j) \/ StopStep(j)
    \/ \E r \in Runs : StartStep(r) \/ RetryWakes(r) \/ PollStep(r)
    \/ ListenerDropped
    \/ ListenerLost
    \/ ObstacleGone
    \/ \E on \in BOOLEAN : SetReconnect(on)

Spec == Init /\ [][Next]_vars

\* Awaits of the engine resume, sleeps end, a dropped listener is dropped; the
\* user and the system owe nothing.
Fairness ==
    /\ \A r \in Runs :
          /\ WF_vars(StartStep(r))
          /\ WF_vars(RetryWakes(r))
          /\ WF_vars(PollStep(r))
    /\ \A j \in Stops : WF_vars(StopStep(j))
    /\ WF_vars(ListenerDropped)

FairSpec == Spec /\ Fairness

-----------------------------------------------------------------------------
(* Properties *)

\* The screen says "running" only while the core of this process is started:
\* no order of taps, late answers and stops leaves the button on with the core
\* stopped.
RunningMeansCoreUp == state = "running" => coreUp

\* Once everything a stop began has ended and nothing was started since, the
\* core is stopped and the background location updates are off.
StoppedIsQuiet ==
    /\ state = "stopped"
    /\ \A j \in Stops : stop[j] \in {"none", "done"}
    /\ \A r \in Runs : start[r] \in {"none", "done"}
    => ~coreUp /\ ~keeper

\* At most one statistics task goes on polling: an earlier one is cancelled
\* before the next is created, and a cancelled one ends.
OnePoller ==
    Cardinality({r \in Runs : ~pollStop[r] /\ poll[r] \notin {"none", "done"}}) <= 1

\* A cancelled statistics task ends.
PollEnds == \A r \in Runs : pollStop[r] ~> poll[r] \in {"none", "done"}

\* Starting is a passing state: it ends in running, in failed or in a stop.
StartingEnds == (state = "starting") ~> (state # "starting")

\* ... while the reconnection is switched off.
SingleStartEnds == [](~reconnect) => StartingEnds

\* The reduced core as its host sees it: StartProxy and StopProxy are one step
\* each, there is one port, and iOS may take the listener.
Core == INSTANCE Service WITH
            Ports <- {"port"}, NoPort <- "no port",
            up <- IF coreUp THEN "port" ELSE "no port",
            open <- IF listening \/ lingering THEN {"port"} ELSE {}

\* The core does nothing here that the promise of ProxyCore does not allow,
\* except that a suspended application may lose its listener.
CoreIsService == Core!SuspendedSpec

=============================================================================
