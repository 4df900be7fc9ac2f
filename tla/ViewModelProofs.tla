---------------------------- MODULE ViewModelProofs ----------------------------
(***************************************************************************)
(* Theorems about ViewModel, for any number of starts, stops and attempts:  *)
(* the state on the screen and the core of the process agree, and one       *)
(* statistics task polls.                                                   *)
(***************************************************************************)
EXTENDS ViewModel, FiniteSetTheorems, TLAPS

Types ==
    /\ state \in {"stopped", "starting", "running", "failed"}
    /\ start \in [Runs -> {"none", "calling", "answered", "done"}]
    /\ result \in [Runs -> Int]
    /\ stop \in [Stops -> {"none", "queued", "calling", "answered", "done"}]
    /\ poll \in [Runs -> {"none", "asking", "told", "probing", "probed", "sleeping", "done"}]
    /\ DOMAIN pollStop = Runs
    /\ keeper \in BOOLEAN
    /\ coreUp \in BOOLEAN
    /\ runs \in Nat

\* The call of a start has succeeded, and didStart has not run yet.
Started(r) == start[r] = "answered" /\ result[r] = 0

\* A tap has decided to stop the core, and StopProxy has not run yet.
Stopping(j) == stop[j] \in {"queued", "calling"}

\* Whoever will act on the core's success or its end is the only one, and the
\* core is up until then: a stop is under way only against a core that is up,
\* so no start can succeed before StopProxy has run.
Owners ==
    /\ \A r \in Runs : Started(r) => coreUp /\ state # "running"
    /\ \A r, s \in Runs : Started(r) /\ Started(s) => r = s
    /\ \A j \in Stops : Stopping(j) => coreUp
    /\ \A i, j \in Stops : Stopping(i) /\ Stopping(j) => i = j
    /\ \A r \in Runs, j \in Stops : ~(Started(r) /\ Stopping(j))
    /\ \A j \in Stops : stop[j] = "queued" => state # "stopped"
    /\ \A j \in Stops : stop[j] = "calling" => state # "running"

\* A core that is up behind the screen "stopped" has someone who will end that,
\* and so have the location updates.
Settling ==
    /\ coreUp /\ state = "stopped" =>
          \/ \E r \in Runs : Started(r)
          \/ \E j \in Stops : stop[j] = "calling"
    /\ keeper /\ state = "stopped" => \E j \in Stops : stop[j] \in {"calling", "answered"}

\* Only the task that statsTask refers to is not cancelled.
Polling ==
    \A r \in Runs : ~pollStop[r] /\ poll[r] \notin {"none", "done"} => r = pollRef

ModelInv == Types /\ RunningMeansCoreUp /\ Owners /\ Settling /\ Polling

-----------------------------------------------------------------------------

LEMMA InitKeeps ==
    ASSUME Init
    PROVE  ModelInv
<1>1. Types
  <2>1. DOMAIN pollStop = Runs
    BY Zenon DEF Init
  <2>2. keeper \in BOOLEAN /\ coreUp \in BOOLEAN
    BY Zenon DEF Init
  <2>3. result \in [Runs -> Int] /\ runs \in Nat
    BY DEF Init
  <2>. QED  BY <2>1, <2>2, <2>3, Zenon DEF Init, Types
<1>2. RunningMeansCoreUp /\ Settling /\ Polling
  BY DEF Init, RunningMeansCoreUp, Settling, Polling
<1>3. (\A r \in Runs : ~Started(r)) /\ (\A j \in Stops : stop[j] = "none")
  BY DEF Init, Started
<1>4. Owners
  BY <1>3 DEF Owners, Stopping
<1>. QED  BY <1>1, <1>2, <1>4 DEF ModelInv

\* What the invariant reads and a step leaves alone.
LEMMA Unread ==
    ASSUME ModelInv, state' = state, runs' = runs, keeper' = keeper, coreUp' = coreUp,
           start' = start, result' = result, stop' = stop,
           poll' = poll, pollStop' = pollStop, pollRef' = pollRef
    PROVE  ModelInv'
  BY DEF ModelInv, Types, RunningMeansCoreUp, Owners, Settling, Polling, Started, Stopping

\* start() is entered.
LEMMA DoStartKeeps ==
    ASSUME ModelInv, state \in {"stopped", "failed"}, NEW isRetry, NEW f, DoStart(isRetry, f),
           UNCHANGED <<keeper, result, stop, pollVars, core>>
    PROVE  ModelInv'
<1>1. /\ runs' = runs + 1 /\ state' = "starting" /\ runs + 1 \in Runs
      /\ start' = [start EXCEPT ![runs + 1] = "calling"]
  BY BoundAssumption DEF DoStart, Runs, ModelInv, Types
<1>2. \A r \in Runs : Started(r)' => Started(r)
  BY <1>1 DEF Started, ModelInv, Types
<1>3. Types'
  BY <1>1 DEF ModelInv, Types, pollVars, core
<1>4. RunningMeansCoreUp' /\ Settling' /\ Polling'
  BY <1>1 DEF ModelInv, RunningMeansCoreUp, Settling, Polling, pollVars, core
<1>5. Owners'
  BY <1>1, <1>2 DEF ModelInv, Owners, Stopping, core
<1>. QED  BY <1>3, <1>4, <1>5 DEF ModelInv

LEMMA StartCallKeeps ==
    ASSUME ModelInv, NEW r \in Runs, StartCall(r)
    PROVE  ModelInv'
<1>1. /\ UNCHANGED <<state, runs, keeper, stop, poll, pollStop, pollRef>>
      /\ start' = [start EXCEPT ![r] = "answered"]
  BY DEF StartCall, model, pollVars
<1>2. PICK code \in {0, -1, -3, -4} :
         /\ result' = [result EXCEPT ![r] = code]
         /\ code = 0 => ~coreUp
         /\ coreUp' = (coreUp \/ code = 0)
  <2> DEFINE code == IF obstacle = "cache" THEN -4
                     ELSE IF coreUp THEN -1
                     ELSE IF lingering \/ obstacle = "port" THEN -3
                     ELSE 0
  <2>1. code \in {0, -1, -3, -4} /\ (code = 0 => ~coreUp)
    OBVIOUS
  <2>2. result' = [result EXCEPT ![r] = code] /\ coreUp' = (coreUp \/ code = 0)
    BY DEF StartCall
  <2> HIDE DEF code
  <2>. QED  BY <2>1, <2>2
<1>3. Types'
  BY <1>1, <1>2 DEF ModelInv, Types
<1>4. Polling' /\ (coreUp => coreUp')
  BY <1>1, <1>2 DEF ModelInv, Polling
<1>5. \A s \in Runs \ {r} : Started(s)' <=> Started(s)
  BY <1>1, <1>2 DEF ModelInv, Types, Started
<1>6. ~Started(r)
  BY DEF StartCall, Started
<1>7. CASE code = 0
  <2>1. ~coreUp /\ coreUp' /\ Started(r)'
    BY <1>1, <1>2, <1>7 DEF ModelInv, Types, Started
  <2>2. /\ \A s \in Runs : ~Started(s)
        /\ \A j \in Stops : ~Stopping(j)
        /\ state # "running"
    BY <2>1 DEF ModelInv, Owners, RunningMeansCoreUp
  <2>3. \A j \in Stops : ~Stopping(j)'
    BY <1>1, <2>2 DEF Stopping
  <2>4. Owners'
    BY <1>1, <1>5, <2>1, <2>2, <2>3 DEF Owners, Stopping
  <2>5. RunningMeansCoreUp' /\ Settling'
    BY <1>1, <2>1 DEF ModelInv, RunningMeansCoreUp, Settling
  <2>. QED  BY <1>3, <1>4, <2>4, <2>5 DEF ModelInv
<1>8. CASE code # 0
  <2>1. coreUp' = coreUp /\ ~Started(r)'
    BY <1>1, <1>2, <1>8 DEF ModelInv, Types, Started
  <2>2. \A s \in Runs : Started(s)' <=> Started(s)
    BY <1>5, <1>6, <2>1
  <2>3. Owners' /\ RunningMeansCoreUp' /\ Settling'
    BY <1>1, <2>1, <2>2 DEF ModelInv, Owners, RunningMeansCoreUp, Settling, Stopping
  <2>. QED  BY <1>3, <1>4, <2>3 DEF ModelInv
<1>. QED  BY <1>7, <1>8

LEMMA StartSucceededKeeps ==
    ASSUME ModelInv, NEW r \in Runs, StartSucceeded(r)
    PROVE  ModelInv'
<1>1. /\ start' = [start EXCEPT ![r] = "done"]
      /\ state' = "running" /\ keeper' = TRUE
      /\ pollRef' = r /\ poll' = [poll EXCEPT ![r] = "asking"]
      /\ UNCHANGED <<runs, result, stop, coreUp>>
      /\ pollStop' = CancelPoll
  BY DEF StartSucceeded, core
<1>2. Started(r)
  BY DEF StartSucceeded, Started
<1>3. Types'
  BY <1>1 DEF ModelInv, Types, CancelPoll
<1>4. coreUp' /\ \A j \in Stops : ~Stopping(j)'
  BY <1>1, <1>2 DEF ModelInv, Owners, Stopping
<1>5. \A s \in Runs : ~Started(s)'
  BY <1>1, <1>2 DEF ModelInv, Types, Owners, Started
<1>6. RunningMeansCoreUp' /\ Settling' /\ Owners'
  BY <1>1, <1>4, <1>5 DEF RunningMeansCoreUp, Settling, Owners, Stopping
<1>7. Polling'
  <2>1. ASSUME NEW s \in Runs, s # r, ~pollStop'[s], poll'[s] \notin {"none", "done"}
        PROVE  FALSE
    <3>1. ~pollStop[s] /\ s # pollRef /\ poll'[s] = poll[s]
      BY <1>1, <2>1 DEF CancelPoll, ModelInv, Types
    <3>. QED  BY <2>1, <3>1 DEF ModelInv, Polling
  <2>. QED  BY <1>1, <2>1 DEF Polling
<1>. QED  BY <1>3, <1>6, <1>7 DEF ModelInv

LEMMA StartFailedKeeps ==
    ASSUME ModelInv, NEW r \in Runs, StartFailed(r)
    PROVE  ModelInv'
<1>1. /\ start' = [start EXCEPT ![r] = "done"]
      /\ state' \in {"starting", "failed"}
      /\ UNCHANGED <<runs, keeper, result, stop, poll, pollStop, pollRef, coreUp>>
  BY DEF StartFailed, pollVars, core
<1>2. \A s \in Runs : Started(s)' => Started(s)
  BY <1>1 DEF ModelInv, Types, Started
<1>3. Types' /\ Polling'
  BY <1>1 DEF ModelInv, Types, Polling
<1>4. RunningMeansCoreUp' /\ Settling'
  BY <1>1 DEF ModelInv, RunningMeansCoreUp, Settling
<1>5. Owners'
  BY <1>1, <1>2 DEF ModelInv, Owners, Stopping
<1>. QED  BY <1>3, <1>4, <1>5 DEF ModelInv

LEMMA RetryKeeps ==
    ASSUME ModelInv, NEW r \in Runs, RetryWakes(r)
    PROVE  ModelInv'
<1>1. UNCHANGED <<keeper, result, stop, pollVars, core>>
  BY DEF RetryWakes
<1>2. CASE state \in {"stopped", "failed"} /\ DoStart(TRUE, [retry EXCEPT ![r] = "done"])
  BY <1>1, <1>2, DoStartKeeps
<1>3. CASE UNCHANGED <<runs, attempt, state, start>>
  BY <1>1, <1>3, Unread DEF pollVars, core
<1>. QED  BY <1>2, <1>3 DEF RetryWakes

LEMMA TapStopKeeps ==
    ASSUME ModelInv, NEW j \in Stops, TapStop(j)
    PROVE  ModelInv'
<1>1. /\ state = "running" /\ stop[j] = "none" /\ \A i \in Stops : stop[i] # "queued"
      /\ stop' = [stop EXCEPT ![j] = "queued"]
      /\ UNCHANGED <<state, runs, keeper, start, result, poll, pollStop, pollRef, coreUp>>
  BY DEF TapStop, model, startVars, pollVars, core
<1>2. /\ coreUp /\ \A r \in Runs : ~Started(r)
      /\ \A i \in Stops : ~Stopping(i)
  BY <1>1 DEF ModelInv, RunningMeansCoreUp, Owners, Stopping
<1>3. /\ \A r \in Runs : ~Started(r)'
      /\ \A i \in Stops \ {j} : ~Stopping(i)'
      /\ stop'[j] = "queued" /\ \A i \in Stops : stop'[i] # "calling"
  BY <1>1, <1>2 DEF ModelInv, Types, Started, Stopping
<1>4. Types' /\ Polling' /\ RunningMeansCoreUp' /\ Settling'
  BY <1>1, <1>2 DEF ModelInv, Types, Polling, RunningMeansCoreUp, Settling
<1>5. Owners'
  BY <1>1, <1>2, <1>3 DEF Owners
<1>. QED  BY <1>4, <1>5 DEF ModelInv

LEMMA StopBeginKeeps ==
    ASSUME ModelInv, NEW j \in Stops, StopBegin(j)
    PROVE  ModelInv'
<1>1. /\ stop[j] = "queued"
      /\ UNCHANGED <<runs, keeper, start, result, poll, coreUp>>
  BY DEF StopBegin, startVars, core
<1>2. state # "stopped"
  BY <1>1 DEF ModelInv, Owners
<1>3. /\ stop' = [stop EXCEPT ![j] = "calling"] /\ state' = "stopped"
      /\ pollStop' = CancelPoll /\ pollRef' = 0
  BY <1>2 DEF StopBegin
<1>4. /\ coreUp /\ \A r \in Runs : ~Started(r)
      /\ \A i \in Stops \ {j} : ~Stopping(i)
  BY <1>1 DEF ModelInv, Owners, Stopping
<1>5. /\ \A r \in Runs : ~Started(r)'
      /\ \A i \in Stops \ {j} : ~Stopping(i)'
      /\ stop'[j] = "calling" /\ \A i \in Stops : stop'[i] # "queued"
  BY <1>1, <1>3, <1>4 DEF ModelInv, Types, Started, Stopping
<1>6. Types'
  BY <1>1, <1>3 DEF ModelInv, Types, CancelPoll
<1>7. RunningMeansCoreUp' /\ Settling' /\ Owners'
  BY <1>1, <1>3, <1>4, <1>5 DEF RunningMeansCoreUp, Settling, Owners
<1>8. Polling'
  <2>1. ASSUME NEW s \in Runs, ~pollStop'[s], poll'[s] \notin {"none", "done"}
        PROVE  FALSE
    <3>1. ~pollStop[s] /\ s # pollRef /\ poll'[s] = poll[s]
      BY <1>1, <1>3, <2>1 DEF CancelPoll
    <3>. QED  BY <2>1, <3>1 DEF ModelInv, Polling
  <2>. QED  BY <2>1 DEF Polling
<1>. QED  BY <1>6, <1>7, <1>8 DEF ModelInv

LEMMA StopCallKeeps ==
    ASSUME ModelInv, NEW j \in Stops, StopCall(j)
    PROVE  ModelInv'
<1>1. /\ stop[j] = "calling" /\ stop' = [stop EXCEPT ![j] = "answered"] /\ coreUp' = FALSE
      /\ UNCHANGED <<state, runs, keeper, start, result, poll, pollStop, pollRef>>
  BY DEF StopCall, model, startVars, pollVars
<1>2. /\ \A r \in Runs : ~Started(r)
      /\ \A i \in Stops \ {j} : ~Stopping(i)
      /\ state # "running"
  BY <1>1 DEF ModelInv, Owners, Stopping
<1>3. /\ \A r \in Runs : ~Started(r)'
      /\ \A i \in Stops : ~Stopping(i)'
      /\ stop'[j] = "answered"
  BY <1>1, <1>2 DEF ModelInv, Types, Started, Stopping
<1>4. Types' /\ Polling'
  BY <1>1 DEF ModelInv, Types, Polling
<1>5. RunningMeansCoreUp' /\ Settling' /\ Owners'
  BY <1>1, <1>2, <1>3 DEF RunningMeansCoreUp, Settling, Owners, Stopping
<1>. QED  BY <1>4, <1>5 DEF ModelInv

LEMMA StopEndKeeps ==
    ASSUME ModelInv, NEW j \in Stops, StopEnd(j)
    PROVE  ModelInv'
<1>1. /\ stop[j] = "answered" /\ stop' = [stop EXCEPT ![j] = "done"] /\ keeper' = FALSE
      /\ UNCHANGED <<state, runs, start, result, poll, pollStop, pollRef, coreUp>>
  BY DEF StopEnd, startVars, pollVars, core
<1>2. \A i \in Stops : /\ stop'[i] = "queued" <=> stop[i] = "queued"
                       /\ stop'[i] = "calling" <=> stop[i] = "calling"
  BY <1>1 DEF ModelInv, Types
<1>3. Types' /\ Polling' /\ RunningMeansCoreUp'
  BY <1>1 DEF ModelInv, Types, Polling, RunningMeansCoreUp
<1>4. Settling'
  BY <1>1, <1>2 DEF ModelInv, Settling, Started
<1>5. Owners'
  BY <1>1, <1>2 DEF ModelInv, Owners, Started, Stopping
<1>. QED  BY <1>3, <1>4, <1>5 DEF ModelInv

LEMMA PollKeeps ==
    ASSUME ModelInv, NEW r \in Runs, PollStep(r)
    PROVE  ModelInv'
<1>1. /\ UNCHANGED <<runs, keeper, start, result, stop, coreUp, pollStop, pollRef>>
      /\ state' = state \/ state' = "failed"
      /\ poll[r] \notin {"none", "done"}
  BY DEF PollStep, PollCall, PollShow, PollProbe, PollVerdict, PollWakes, model, startVars, core
<1>2. PICK p \in {"asking", "told", "probing", "probed", "sleeping", "done"} :
         poll' = [poll EXCEPT ![r] = p]
  BY DEF PollStep, PollCall, PollShow, PollProbe, PollVerdict, PollWakes
<1>3. Types'
  BY <1>1, <1>2 DEF ModelInv, Types
<1>4. Polling'
  BY <1>1, <1>2 DEF ModelInv, Types, Polling
<1>5. RunningMeansCoreUp' /\ Settling'
  BY <1>1 DEF ModelInv, RunningMeansCoreUp, Settling, Started
<1>6. Owners'
  BY <1>1 DEF ModelInv, Owners, Started, Stopping
<1>. QED  BY <1>3, <1>4, <1>5, <1>6 DEF ModelInv

\* Every step of Next, or none, keeps the invariant.
LEMMA ModelStep ==
    ASSUME ModelInv, [Next]_vars
    PROVE  ModelInv'
<1>1. CASE TapStart
  BY <1>1, DoStartKeeps DEF TapStart
<1>2. ASSUME NEW j \in Stops, TapStop(j) \/ StopStep(j) PROVE ModelInv'
  BY <1>2, TapStopKeeps, StopBeginKeeps, StopCallKeeps, StopEndKeeps DEF StopStep
<1>3. ASSUME NEW r \in Runs, StartStep(r) \/ RetryWakes(r) \/ PollStep(r) PROVE ModelInv'
  BY <1>3, StartCallKeeps, StartSucceededKeeps, StartFailedKeeps, RetryKeeps, PollKeeps
     DEF StartStep
<1>4. CASE \/ ListenerDropped \/ ListenerLost \/ ObstacleGone
           \/ (\E on \in BOOLEAN : SetReconnect(on)) \/ UNCHANGED vars
  BY <1>4, Unread DEF ListenerDropped, ListenerLost, ObstacleGone, SetReconnect, vars, model,
                      startVars, pollVars, core
<1>. QED  BY <1>1, <1>2, <1>3, <1>4 DEF Next

\* "running" is shown only while the core is up.
THEOREM RunningMeansCoreUpHolds == Spec => []RunningMeansCoreUp
<1>1. ModelInv => RunningMeansCoreUp
  BY DEF ModelInv
<1>. QED  BY <1>1, InitKeeps, ModelStep, PTL DEF Spec

\* A stop that has ended has stopped the core and the location updates.
THEOREM StoppedIsQuietHolds == Spec => []StoppedIsQuiet
<1>1. ModelInv => StoppedIsQuiet
  BY DEF ModelInv, Types, Settling, StoppedIsQuiet, Started
<1>. QED  BY <1>1, InitKeeps, ModelStep, PTL DEF Spec

\* At most one statistics task goes on polling.
THEOREM OnePollerHolds == Spec => []OnePoller
<1>1. ASSUME ModelInv PROVE OnePoller
  <2> DEFINE P == {r \in Runs : ~pollStop[r] /\ poll[r] \notin {"none", "done"}}
  <2>1. P = {} \/ P = {pollRef}
    BY <1>1 DEF ModelInv, Polling
  <2>2. Cardinality({}) = 0 /\ Cardinality({pollRef}) = 1
    BY FS_EmptySet, FS_Singleton
  <2>3. Cardinality(P) <= 1
    <3> HIDE DEF P
    <3>. QED  BY <2>1, <2>2
  <2>. QED  BY <2>3 DEF OnePoller
<1>. QED  BY <1>1, InitKeeps, ModelStep, PTL DEF Spec

-----------------------------------------------------------------------------
(* The reduced core and the promise of the detailed one.                     *)

\* Only the core that is up listens for itself, and a start waits until the
\* listener of the session before it is gone.
OneListener == (listening => coreUp) /\ (lingering => ~coreUp)

\* The steps of the core, whoever takes them.
CoreStep ==
    \/ ~coreUp /\ ~lingering /\ coreUp' = TRUE /\ listening' = TRUE /\ lingering' = FALSE
    \/ coreUp' = FALSE /\ listening' = FALSE /\ lingering' = (lingering \/ (coreUp /\ listening))
    \/ lingering /\ lingering' = FALSE /\ UNCHANGED <<coreUp, listening>>
    \/ listening /\ listening' = FALSE /\ UNCHANGED <<coreUp, lingering>>
    \/ UNCHANGED core

Switches == coreUp \in BOOLEAN /\ listening \in BOOLEAN /\ lingering \in BOOLEAN

LEMMA CoreMoves ==
    ASSUME Switches, [Next]_vars
    PROVE  CoreStep
<1>1. ASSUME NEW r \in Runs, StartCall(r)
      PROVE  CoreStep
  <2>1. CASE obstacle # "cache" /\ ~coreUp /\ ~lingering /\ obstacle # "port"
    <3>1. coreUp' = TRUE /\ listening' = TRUE /\ lingering' = FALSE
      BY <1>1, <2>1 DEF StartCall, Switches
    <3>. QED  BY <2>1, <3>1 DEF CoreStep
  <2>2. CASE ~(obstacle # "cache" /\ ~coreUp /\ ~lingering /\ obstacle # "port")
    <3>1. coreUp' = coreUp /\ listening' = listening /\ lingering' = lingering
      BY <1>1, <2>2 DEF StartCall, Switches
    <3>. QED  BY <3>1 DEF CoreStep, core
  <2>. QED  BY <2>1, <2>2
<1>2. ASSUME NEW r \in Runs, StartSucceeded(r) \/ StartFailed(r) \/ RetryWakes(r) \/ PollStep(r)
      PROVE  UNCHANGED core
  BY <1>2, Zenon DEF StartSucceeded, StartFailed, RetryWakes, PollStep, PollCall, PollShow,
                     PollProbe, PollVerdict, PollWakes
<1>3. ASSUME NEW j \in Stops, TapStop(j) \/ StopBegin(j) \/ StopEnd(j)
      PROVE  UNCHANGED core
  BY <1>3, Zenon DEF TapStop, StopBegin, StopEnd
<1>4. ASSUME NEW j \in Stops, StopCall(j)
      PROVE  CoreStep
  BY <1>4, Zenon DEF StopCall, CoreStep
<1>5. CASE TapStart \/ ObstacleGone \/ (\E on \in BOOLEAN : SetReconnect(on)) \/ UNCHANGED vars
  <2>1. UNCHANGED core
    BY <1>5, Zenon DEF TapStart, ObstacleGone, SetReconnect, vars
  <2>. QED  BY <2>1 DEF CoreStep
<1>6. CASE ListenerDropped
  BY <1>6, Zenon DEF ListenerDropped, CoreStep
<1>7. CASE ListenerLost
  BY <1>7, Zenon DEF ListenerLost, CoreStep
<1>8. UNCHANGED core => CoreStep
  BY DEF CoreStep
<1>. QED
  BY <1>1, <1>2, <1>3, <1>4, <1>5, <1>6, <1>7, <1>8, Zenon DEF Next, StartStep, StopStep

CoreInv == Switches /\ OneListener

LEMMA CoreKeeps ==
    ASSUME CoreInv, CoreStep
    PROVE  CoreInv'
<1>1. CASE coreUp' = TRUE /\ listening' = TRUE /\ lingering' = FALSE
  BY <1>1, Zenon DEF CoreInv, Switches, OneListener
<1>2. CASE /\ coreUp' = FALSE /\ listening' = FALSE
           /\ lingering' = (lingering \/ (coreUp /\ listening))
  <2>1. (lingering \/ (coreUp /\ listening)) \in BOOLEAN
    BY Zenon
  <2>2. Switches'
    BY <1>2, <2>1, Zenon DEF Switches
  <2>3. OneListener'
    BY <1>2, Zenon DEF OneListener
  <2>. QED  BY <2>2, <2>3, Zenon DEF CoreInv
<1>3. CASE lingering' = FALSE /\ UNCHANGED <<coreUp, listening>>
  <2>1. Switches'
    BY <1>3, Zenon DEF CoreInv, Switches
  <2>2. OneListener'
    BY <1>3 DEF CoreInv, OneListener
  <2>. QED  BY <2>1, <2>2, Zenon DEF CoreInv
<1>4. CASE listening' = FALSE /\ UNCHANGED <<coreUp, lingering>>
  <2>1. Switches'
    BY <1>4, Zenon DEF CoreInv, Switches
  <2>2. OneListener'
    BY <1>4 DEF CoreInv, OneListener
  <2>. QED  BY <2>1, <2>2, Zenon DEF CoreInv
<1>5. CASE UNCHANGED core
  BY <1>5 DEF CoreInv, Switches, OneListener, core
<1>. QED  BY <1>1, <1>2, <1>3, <1>4, <1>5, Zenon DEF CoreStep

LEMMA CoreMaps ==
    ASSUME CoreInv, CoreStep
    PROVE  [Core!Next \/ Core!Lose]_(Core!vars)
<1>1. CASE ~coreUp /\ ~lingering /\ coreUp' = TRUE /\ listening' = TRUE /\ lingering' = FALSE
  <2>1. ~listening
    BY <1>1, Zenon DEF CoreInv, OneListener
  <2>2. Core!Start("port")
    BY <1>1, <2>1 DEF Core!Start
  <2>. QED  BY <2>2, Zenon DEF Core!Next
<1>2. CASE /\ coreUp' = FALSE /\ listening' = FALSE
           /\ lingering' = (lingering \/ (coreUp /\ listening))
  <2>1. (listening' \/ lingering') <=> (listening \/ lingering)
    BY <1>2, Zenon DEF CoreInv, OneListener
  <2>2. CASE coreUp
    BY <1>2, <2>1, <2>2 DEF Core!Next, Core!Stop
  <2>3. CASE ~coreUp
    BY <1>2, <2>1, <2>3 DEF Core!vars
  <2>. QED  BY <2>2, <2>3
<1>3. CASE lingering /\ lingering' = FALSE /\ UNCHANGED <<coreUp, listening>>
  <2>1. ~coreUp /\ ~listening
    BY <1>3, Zenon DEF CoreInv, OneListener
  <2>2. Core!Drop("port")
    BY <1>3, <2>1 DEF Core!Drop
  <2>. QED  BY <2>2, Zenon DEF Core!Next
<1>4. CASE listening /\ listening' = FALSE /\ UNCHANGED <<coreUp, lingering>>
  <2>1. coreUp /\ ~lingering
    BY <1>4, Zenon DEF CoreInv, OneListener
  <2>2. Core!Lose
    BY <1>4, <2>1 DEF Core!Lose
  <2>. QED  BY <2>2
<1>5. CASE UNCHANGED core
  BY <1>5 DEF core, Core!vars
<1>. QED  BY <1>1, <1>2, <1>3, <1>4, <1>5, Zenon DEF CoreStep

\* The core that the view model calls takes only steps that Service allows:
\* what ProxyCore is proved to promise, and the loss of a listener.
THEOREM CoreIsServiceHolds == Spec => CoreIsService
<1>1. Init => CoreInv /\ Core!Init
  <2>1. ASSUME Init PROVE CoreInv
    BY <2>1, Zenon DEF Init, CoreInv, Switches, OneListener
  <2>2. ASSUME Init PROVE Core!Init
    BY <2>2 DEF Init, Core!Init
  <2>. QED  BY <2>1, <2>2
<1>2. CoreInv /\ [Next]_vars => CoreInv'
  BY CoreMoves, CoreKeeps, Zenon DEF CoreInv
<1>3. CoreInv /\ [Next]_vars => [Core!Next \/ Core!Lose]_(Core!vars)
  BY CoreMoves, CoreMaps, Zenon DEF CoreInv
<1>. QED  BY <1>1, <1>2, <1>3, PTL DEF Spec, Core!SuspendedSpec, CoreIsService

-----------------------------------------------------------------------------
(* The types.                                                                *)

\* Cancelling is well typed.
LEMMA Cancelled ==
    ASSUME TypeOK
    PROVE  /\ CancelPoll \in [Runs -> BOOLEAN]
           /\ \A f \in [Runs -> {"none", "sleeping", "cancelled", "done"}] :
                 CancelRetry(f) \in [Runs -> {"none", "sleeping", "cancelled", "done"}]
<1>1. \A r \in Runs : (pollStop[r] \/ r = pollRef) \in BOOLEAN
  BY Zenon
<1>2. CancelPoll \in [Runs -> BOOLEAN]
  BY <1>1, Zenon DEF CancelPoll
<1>3. ASSUME NEW f \in [Runs -> {"none", "sleeping", "cancelled", "done"}]
      PROVE  CancelRetry(f) \in [Runs -> {"none", "sleeping", "cancelled", "done"}]
  BY DEF CancelRetry
<1>. QED  BY <1>2, <1>3

LEMMA StartsType ==
    ASSUME TypeOK, NEW isRetry \in BOOLEAN,
           NEW f \in [Runs -> {"none", "sleeping", "cancelled", "done"}], DoStart(isRetry, f),
           UNCHANGED <<shown, keeper, result, retryRef, stop, pollVars, core, outside>>
    PROVE  TypeOK'
<1>1. retry' \in [Runs -> {"none", "sleeping", "cancelled", "done"}]
  BY Cancelled, Zenon DEF DoStart
<1>2. /\ state' = "starting" /\ runs' \in 0..MaxRuns
      /\ start' \in [Runs -> {"none", "calling", "answered", "done"}]
  <2>1. /\ runs < MaxRuns /\ runs' = runs + 1 /\ state' = "starting"
        /\ start' = [start EXCEPT ![runs + 1] = "calling"]
    BY Zenon DEF DoStart
  <2>2. runs \in 0..MaxRuns /\ start \in [Runs -> {"none", "calling", "answered", "done"}]
    BY Zenon DEF TypeOK
  <2>3. runs' \in 0..MaxRuns
    BY <2>1, <2>2, BoundAssumption
  <2>4. start' \in [Runs -> {"none", "calling", "answered", "done"}]
    BY <2>1, <2>2
  <2>. QED  BY <2>1, <2>3, <2>4
<1>3. attempt' \in 0..MaxAttempts
  <2>1. 0 \in 0..MaxAttempts
    BY BoundAssumption
  <2>. QED  BY <2>1, Zenon DEF TypeOK, DoStart
<1>. QED  BY <1>1, <1>2, <1>3, Zenon DEF TypeOK, pollVars, core, outside

LEMMA CallType ==
    ASSUME TypeOK, NEW r \in Runs, StartCall(r)
    PROVE  TypeOK'
<1>1. PICK code \in {0, -1, -3, -4} :
         /\ result' = [result EXCEPT ![r] = code]
         /\ coreUp' = (coreUp \/ code = 0)
         /\ listening' = (listening \/ code = 0)
  <2> DEFINE code == IF obstacle = "cache" THEN -4
                     ELSE IF coreUp THEN -1
                     ELSE IF lingering \/ obstacle = "port" THEN -3
                     ELSE 0
  <2>1. code \in {0, -1, -3, -4}
    OBVIOUS
  <2>2. /\ result' = [result EXCEPT ![r] = code]
        /\ coreUp' = (coreUp \/ code = 0) /\ listening' = (listening \/ code = 0)
    BY DEF StartCall
  <2> HIDE DEF code
  <2>. QED  BY <2>1, <2>2
<1>2. coreUp' \in BOOLEAN /\ listening' \in BOOLEAN
  <2>1. (coreUp \/ code = 0) \in BOOLEAN /\ (listening \/ code = 0) \in BOOLEAN
    BY Zenon
  <2>. QED  BY <1>1, <2>1, Zenon
<1>3. /\ result' \in [Runs -> {0, -1, -3, -4}]
      /\ start' \in [Runs -> {"none", "calling", "answered", "done"}]
  BY <1>1 DEF TypeOK, StartCall
<1>. QED  BY <1>2, <1>3, Zenon DEF TypeOK, StartCall, model, retryVars, pollVars, outside

LEMMA DoneType ==
    ASSUME TypeOK, NEW r \in Runs, StartSucceeded(r) \/ StartFailed(r)
    PROVE  TypeOK'
<1>1. /\ start' \in [Runs -> {"none", "calling", "answered", "done"}]
      /\ poll' \in [Runs -> {"none", "asking", "told", "probing", "probed", "sleeping", "done"}]
      /\ state' \in {"starting", "running", "failed"}
  BY DEF TypeOK, StartSucceeded, StartFailed, pollVars
<1>2. attempt' \in 0..MaxAttempts /\ retryRef' \in 0..MaxRuns /\ pollRef' \in 0..MaxRuns
  BY BoundAssumption DEF TypeOK, StartSucceeded, StartFailed, Runs, pollVars, retryVars
<1>3. retry' \in [Runs -> {"none", "sleeping", "cancelled", "done"}]
  <2>1. CancelRetry(retry) \in [Runs -> {"none", "sleeping", "cancelled", "done"}]
    BY Cancelled, Zenon DEF TypeOK
  <2>2. \/ retry' = retry
        \/ retry' = [CancelRetry(retry) EXCEPT ![r] = "sleeping"]
    BY DEF StartSucceeded, StartFailed, retryVars
  <2> HIDE DEF CancelRetry
  <2>. QED  BY <2>1, <2>2 DEF TypeOK
<1>4. pollStop' \in [Runs -> BOOLEAN] /\ keeper' \in BOOLEAN
  BY Cancelled, Zenon DEF TypeOK, StartSucceeded, StartFailed, pollVars
<1>5. UNCHANGED <<runs, shown, result, stop, seen, coreUp, listening, lingering, outside>>
  BY DEF StartSucceeded, StartFailed, pollVars, core
<1>. QED  BY <1>1, <1>2, <1>3, <1>4, <1>5, Zenon DEF TypeOK, outside

LEMMA RetryType ==
    ASSUME TypeOK, NEW r \in Runs, RetryWakes(r)
    PROVE  TypeOK'
<1> DEFINE woken == [retry EXCEPT ![r] = "done"]
<1>1. woken \in [Runs -> {"none", "sleeping", "cancelled", "done"}]
  BY DEF TypeOK
<1>2. UNCHANGED <<shown, keeper, result, retryRef, stop, pollVars, core, outside>>
  BY DEF RetryWakes
<1>3. CASE DoStart(TRUE, woken)
  <2> HIDE DEF woken
  <2>. QED  BY <1>1, <1>2, <1>3, StartsType
<1>4. CASE retry' = woken /\ UNCHANGED <<runs, attempt, state, start>>
  <2>1. UNCHANGED <<poll, pollStop, pollRef, seen, coreUp, listening, lingering,
                    obstacle, reconnect>>
    BY <1>2, Zenon DEF pollVars, core, outside
  <2> HIDE DEF woken
  <2>. QED  BY <1>1, <1>2, <1>4, <2>1, Zenon DEF TypeOK
<1>. QED  BY <1>3, <1>4 DEF RetryWakes

LEMMA StopsType ==
    ASSUME TypeOK, NEW j \in Stops, TapStop(j) \/ StopStep(j)
    PROVE  TypeOK'
<1>1. /\ stop' \in [Stops -> {"none", "queued", "calling", "answered", "done"}]
      /\ state' \in {"stopped", "starting", "running", "failed"}
  BY DEF TypeOK, TapStop, StopStep, StopBegin, StopCall, StopEnd, model
<1>2. attempt' \in 0..MaxAttempts /\ retryRef' \in 0..MaxRuns /\ pollRef' \in 0..MaxRuns
  BY BoundAssumption
     DEF TypeOK, TapStop, StopStep, StopBegin, StopCall, StopEnd, model, pollVars, retryVars
<1>3. retry' \in [Runs -> {"none", "sleeping", "cancelled", "done"}]
  BY Cancelled, Zenon DEF TypeOK, TapStop, StopStep, StopBegin, StopCall, StopEnd, retryVars
<1>4. pollStop' \in [Runs -> BOOLEAN]
  BY Cancelled, Zenon DEF TypeOK, TapStop, StopStep, StopBegin, StopCall, StopEnd, pollVars
<1>5. keeper' \in BOOLEAN /\ shown' \in BOOLEAN
  BY Zenon DEF TypeOK, TapStop, StopStep, StopBegin, StopCall, StopEnd, model
<1>6. coreUp' \in BOOLEAN /\ listening' \in BOOLEAN /\ lingering' \in BOOLEAN
  <2>1. (lingering \/ (coreUp /\ listening)) \in BOOLEAN
    BY Zenon
  <2>. QED  BY <2>1, Zenon DEF TypeOK, TapStop, StopStep, StopBegin, StopCall, StopEnd, core
<1>7. UNCHANGED <<runs, startVars, poll, seen, outside>>
  BY DEF TapStop, StopStep, StopBegin, StopCall, StopEnd, model, pollVars
<1>. QED
  BY <1>1, <1>2, <1>3, <1>4, <1>5, <1>6, <1>7, Zenon DEF TypeOK, startVars, outside

LEMMA PollsType ==
    ASSUME TypeOK, NEW r \in Runs, PollStep(r)
    PROVE  TypeOK'
<1>1. /\ poll' \in [Runs -> {"none", "asking", "told", "probing", "probed", "sleeping", "done"}]
      /\ state' \in {"stopped", "starting", "running", "failed"}
  BY DEF TypeOK, PollStep, PollCall, PollShow, PollProbe, PollVerdict, PollWakes, model
<1>2. seen' \in [Runs -> BOOLEAN] /\ shown' \in BOOLEAN
  <2>1. (listening \/ lingering \/ obstacle = "port") \in BOOLEAN
    BY Zenon
  <2>2. PICK b \in BOOLEAN : seen' = [seen EXCEPT ![r] = b] \/ seen' = seen
    BY <2>1, Zenon DEF TypeOK, PollStep, PollCall, PollShow, PollProbe, PollVerdict, PollWakes
  <2>3. seen' \in [Runs -> BOOLEAN]
    BY <2>2 DEF TypeOK
  <2>4. shown' = shown \/ shown' = seen[r]
    BY Zenon DEF PollStep, PollCall, PollShow, PollProbe, PollVerdict, PollWakes, model
  <2>5. seen[r] \in BOOLEAN
    BY Zenon DEF TypeOK
  <2>. QED  BY <2>3, <2>4, <2>5, Zenon DEF TypeOK
<1>3. UNCHANGED <<attempt, runs, keeper, startVars, retryVars, stop, pollStop, pollRef, core,
                  outside>>
  BY DEF PollStep, PollCall, PollShow, PollProbe, PollVerdict, PollWakes, model
<1>. QED
  BY <1>1, <1>2, <1>3, Zenon DEF TypeOK, startVars, retryVars, core, outside

\* Every state of the view model is well typed, whatever overlaps.
THEOREM TypeCorrect == Spec => []TypeOK
<1>1. Init => TypeOK
  <2> SUFFICES ASSUME Init PROVE TypeOK
    OBVIOUS
  <2>1. /\ 0 \in 0..MaxAttempts /\ 0 \in 0..MaxRuns
        /\ result \in [Runs -> {0, -1, -3, -4}]
    BY BoundAssumption DEF Init
  <2>. QED  BY <2>1, Zenon DEF Init, TypeOK
<1>2. TypeOK /\ [Next]_vars => TypeOK'
  <2> SUFFICES ASSUME TypeOK, [Next]_vars PROVE TypeOK'
    OBVIOUS
  <2>1. CASE TapStart
    <3>1. retry \in [Runs -> {"none", "sleeping", "cancelled", "done"}]
      BY DEF TypeOK
    <3>. QED  BY <2>1, <3>1, StartsType DEF TapStart
  <2>2. ASSUME NEW r \in Runs, StartStep(r) \/ RetryWakes(r) \/ PollStep(r)
        PROVE  TypeOK'
    BY <2>2, CallType, DoneType, RetryType, PollsType, Zenon DEF StartStep
  <2>3. CASE ListenerDropped \/ ListenerLost
    <3>1. /\ UNCHANGED <<model, startVars, retryVars, stop, pollVars, coreUp, outside>>
          /\ listening' \in BOOLEAN /\ lingering' \in BOOLEAN
      BY <2>3, Zenon DEF ListenerDropped, ListenerLost, TypeOK
    <3>. QED  BY <3>1, Zenon DEF TypeOK, model, startVars, retryVars, pollVars, outside
  <2>4. CASE ObstacleGone
    BY <2>4, Zenon DEF ObstacleGone, TypeOK, model, startVars, retryVars, pollVars, core
  <2>5. ASSUME NEW on \in BOOLEAN, SetReconnect(on)
        PROVE  TypeOK'
    <3>1. /\ UNCHANGED <<model, startVars, retryVars, stop, pollVars, core, obstacle>>
          /\ reconnect' \in BOOLEAN
      BY <2>5, Zenon DEF SetReconnect
    <3>. QED  BY <3>1, Zenon DEF TypeOK, model, startVars, retryVars, pollVars, core
  <2>6. CASE UNCHANGED vars
    <3>1. UNCHANGED <<model, startVars, retryVars, stop, pollVars, core, outside>>
      BY <2>6, Zenon DEF vars
    <3>2. /\ UNCHANGED <<state, attempt, runs, shown, keeper, start, result, retry, retryRef>>
          /\ UNCHANGED <<stop, poll, pollStop, pollRef, seen>>
          /\ UNCHANGED <<coreUp, listening, lingering, obstacle, reconnect>>
      BY <3>1, Zenon DEF model, startVars, retryVars, pollVars, core, outside
    <3>. QED  BY <3>2, Zenon DEF TypeOK
  <2>7. ASSUME NEW j \in Stops, TapStop(j) \/ StopStep(j)
        PROVE  TypeOK'
    BY <2>7, StopsType, Zenon
  <2>. QED  BY <2>1, <2>2, <2>3, <2>4, <2>5, <2>6, <2>7, Zenon DEF Next
<1>. QED  BY <1>1, <1>2, PTL DEF Spec

=============================================================================
