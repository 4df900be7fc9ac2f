--------------------------- MODULE CfFallbackProofs ---------------------------
(***************************************************************************)
(* Theorems about CfFallback, for any number of clients, domains, permits   *)
(* and parallel tasks, all delays and an unbounded clock: the strikes of a  *)
(* domain never exceed the clients that dial it at the same time, no permit *)
(* is lost, and a client that returns has tried every domain it had to and  *)
(* leaves nothing behind but the tasks that close what it does not keep.    *)
(***************************************************************************)
EXTENDS CfFallback, FiniteSetTheorems, SequenceTheorems, TLAPS

\* What the steps need of the types.
StrikeType ==
    /\ entries \in SUBSET Domains
    /\ strikes \in [Domains -> Nat]
    /\ task \in [Clients -> [Domains -> Stages]]

\* A domain without an entry starts without strikes.
EntryInv == \A d \in Domains : d \notin entries => strikes[d] = 0

StrikeInv == StrikeType /\ EntryInv /\ StrikesBounded

\* The clients committed to a domain are finitely many, at most all.
LEMMA CommittedCount ==
    ASSUME NEW d
    PROVE  /\ IsFiniteSet(CommittedTo(d))
           /\ Cardinality(CommittedTo(d)) \in Nat
           /\ Cardinality(Clients) \in Nat
           /\ Cardinality(CommittedTo(d)) <= Cardinality(Clients)
<1>1. IsFiniteSet(Clients) /\ CommittedTo(d) \subseteq Clients
  BY SetAssumption DEF CommittedTo
<1> QED
  BY <1>1, FS_Subset, FS_CardinalityType

\* The same of the next state.
LEMMA CommittedCountNext ==
    ASSUME NEW d
    PROVE  /\ IsFiniteSet(CommittedTo(d)')
           /\ Cardinality(CommittedTo(d)') \in Nat
           /\ Cardinality(CommittedTo(d)') <= Cardinality(Clients)
<1>1. IsFiniteSet(Clients) /\ CommittedTo(d)' \subseteq Clients
  BY SetAssumption DEF CommittedTo
<1> QED
  BY <1>1, FS_Subset, FS_CardinalityType

\* No step of this kind commits a client or adds a strike.
Relaxes ==
    \A d \in Domains : /\ CommittedTo(d)' \subseteq CommittedTo(d)
                       /\ strikes[d]' <= strikes[d]

LEMMA RelaxKeeps ==
    ASSUME StrikeInv, StrikeType', Relaxes
    PROVE  StrikesBounded'
<1> SUFFICES ASSUME NEW d \in Domains
             PROVE  strikes[d]' + Cardinality(CommittedTo(d)') <= Cardinality(Clients)
  BY DEF StrikesBounded
<1>1. Cardinality(CommittedTo(d)') <= Cardinality(CommittedTo(d))
  BY CommittedCount, FS_Subset DEF Relaxes
<1>2. strikes[d] \in Nat /\ strikes[d]' \in Nat /\ strikes[d]' <= strikes[d]
  BY DEF StrikeInv, StrikeType, Relaxes
<1>3. strikes[d] + Cardinality(CommittedTo(d)) <= Cardinality(Clients)
  BY DEF StrikeInv, StrikesBounded
<1> QED
  BY <1>1, <1>2, <1>3, CommittedCount, CommittedCountNext

\* Forgetting the entries of some domains.
LEMMA ForgetFacts ==
    ASSUME StrikeInv, NEW D \in SUBSET Domains, Forget(D)
    PROVE  /\ entries' \in SUBSET Domains
           /\ strikes' \in [Domains -> Nat]
           /\ EntryInv'
           /\ \A d \in Domains : strikes[d]' <= strikes[d]
           /\ \A d \in D : strikes[d]' = 0
           /\ \A d \in Domains \ D : strikes[d]' = strikes[d]
  BY DEF StrikeInv, StrikeType, EntryInv, Forget

\* A step that leaves the table alone and moves one attempt to a stage that is
\* not committed.
LEMMA MoveKeeps ==
    ASSUME StrikeInv, UNCHANGED table, NEW c \in Clients, NEW d,
           NEW s \in Stages \ Committed, task' = [task EXCEPT ![c][d] = s]
    PROVE  StrikeInv'
<1>1. StrikeType'
  BY DEF StrikeInv, StrikeType, table
<1>2. EntryInv'
  BY DEF StrikeInv, EntryInv, table
<1>3. \A e \in Domains : CommittedTo(e)' \subseteq CommittedTo(e)
  BY DEF StrikeInv, StrikeType, CommittedTo
<1>4. Relaxes
  BY <1>3 DEF StrikeInv, StrikeType, Relaxes, table
<1> QED
  BY <1>1, <1>2, <1>4, RelaxKeeps DEF StrikeInv

\* A step that changes neither the table nor an attempt.
LEMMA IdleKeeps ==
    ASSUME StrikeInv, UNCHANGED <<table, task>>
    PROVE  StrikeInv'
  BY DEF StrikeInv, StrikeType, EntryInv, StrikesBounded, CommittedTo, table

LEMMA AcquireKeeps ==
    ASSUME StrikeInv, NEW c \in Clients, Acquire(c)
    PROVE  StrikeInv'
<1>1. PICK o \in Orders : task' = [task EXCEPT ![c][o[1]] = "waiting"]
  BY DEF Acquire
<1>2. UNCHANGED table
  BY DEF Acquire, table
<1> QED
  BY <1>1, <1>2, MoveKeeps DEF Stages, Committed

LEMMA FirstFailsKeeps ==
    ASSUME StrikeInv, NEW c \in Clients, FirstFails(c)
    PROVE  StrikeInv'
<1> DEFINE spawned == {d \in Domains : \E i \in 1..Len(Tail(todo[c])) : Tail(todo[c])[i] = d}
<1>1. task' = [task EXCEPT ![c] =
                  [d \in Domains |-> IF d \in spawned THEN "waiting" ELSE task[c][d]]]
  BY DEF FirstFails
<1>2. UNCHANGED table
  BY DEF FirstFails, table
<1> HIDE DEF spawned
<1>3. StrikeType'
  BY <1>1, <1>2 DEF StrikeInv, StrikeType, Stages, table
<1>4. \A e \in Domains : CommittedTo(e)' \subseteq CommittedTo(e)
  BY <1>1 DEF StrikeInv, StrikeType, CommittedTo, Committed
<1>5. Relaxes /\ EntryInv'
  BY <1>2, <1>4 DEF StrikeInv, StrikeType, EntryInv, Relaxes, table
<1> QED
  BY <1>3, <1>5, RelaxKeeps DEF StrikeInv

LEMMA AwaitKeeps ==
    ASSUME StrikeInv, NEW c \in Clients, Await(c)
    PROVE  StrikeInv'
<1>1. UNCHANGED table
  BY DEF Await, table
<1>2. \/ UNCHANGED task
      \/ task' = [task EXCEPT ![c][Head(todo[c])] = "none"]
  BY DEF Await
<1> QED
  BY <1>1, <1>2, IdleKeeps, MoveKeeps DEF Stages, Committed

LEMMA ReturnKeeps ==
    ASSUME StrikeInv, NEW c \in Clients, Return(c)
    PROVE  StrikeInv'
<1>1. task' = [task EXCEPT ![c] = [d \in Domains |-> "none"]] /\ UNCHANGED table
  BY DEF Return, table
<1>2. StrikeType'
  BY <1>1 DEF StrikeInv, StrikeType, Stages, table
<1>3. \A e \in Domains : CommittedTo(e)' \subseteq CommittedTo(e)
  BY <1>1 DEF StrikeInv, StrikeType, CommittedTo, Committed
<1>4. Relaxes /\ EntryInv'
  BY <1>1, <1>3 DEF StrikeInv, StrikeType, EntryInv, Relaxes, table
<1> QED
  BY <1>2, <1>4, RelaxKeeps DEF StrikeInv

\* An attempt that finds no entry, or removes the one it found, is committed at
\* a moment when its domain has no strikes.
LEMMA CommitKeeps ==
    ASSUME StrikeInv, StrikeType', NEW c \in Clients, NEW d \in Domains,
           task' = [task EXCEPT ![c][d] = "queued"],
           strikes[d]' = 0,
           \A e \in Domains \ {d} : strikes[e]' = strikes[e]
    PROVE  StrikesBounded'
<1> SUFFICES ASSUME NEW e \in Domains
             PROVE  strikes[e]' + Cardinality(CommittedTo(e)') <= Cardinality(Clients)
  BY DEF StrikesBounded
<1>1. CASE e = d
  BY <1>1, CommittedCount, CommittedCountNext
<1>2. CASE e # d
  <2>1. CommittedTo(e)' = CommittedTo(e)
    BY <1>2 DEF StrikeInv, StrikeType, CommittedTo
  <2> QED
    BY <1>2, <2>1 DEF StrikeInv, StrikesBounded
<1> QED
  BY <1>1, <1>2

LEMMA CheckKeeps ==
    ASSUME StrikeInv, NEW c \in Clients, NEW d \in Domains, Check(c, d)
    PROVE  StrikeInv'
<1>1. UNCHANGED table
  BY DEF Check, table
<1>2. CASE d \in entries
  <2>1. \/ task' = [task EXCEPT ![c][d] = "failed"]
        \/ task' = [task EXCEPT ![c][d] = "expired"]
    BY <1>2 DEF Check
  <2> QED
    BY <1>1, <2>1, MoveKeeps DEF Stages, Committed
<1>3. CASE d \notin entries
  <2>1. task' = [task EXCEPT ![c][d] = "queued"]
    BY <1>3 DEF Check
  <2>2. StrikeType'
    BY <1>1, <2>1 DEF StrikeInv, StrikeType, Stages, table
  <2>3. EntryInv'
    BY <1>1 DEF StrikeInv, EntryInv, table
  <2>4. strikes[d]' = 0 /\ \A e \in Domains \ {d} : strikes[e]' = strikes[e]
    BY <1>1, <1>3 DEF StrikeInv, EntryInv, table
  <2> QED
    BY <2>1, <2>2, <2>3, <2>4, CommitKeeps DEF StrikeInv
<1> QED
  BY <1>2, <1>3

LEMMA RemoveKeeps ==
    ASSUME StrikeInv, NEW c \in Clients, NEW d \in Domains, Remove(c, d)
    PROVE  StrikeInv'
<1>1. Forget({d}) /\ task' = [task EXCEPT ![c][d] = "queued"]
  BY DEF Remove
<1>2. /\ entries' \in SUBSET Domains /\ strikes' \in [Domains -> Nat] /\ EntryInv'
      /\ strikes[d]' = 0 /\ \A e \in Domains \ {d} : strikes[e]' = strikes[e]
  BY <1>1, ForgetFacts
<1>3. StrikeType'
  BY <1>1, <1>2 DEF StrikeInv, StrikeType, Stages
<1> QED
  BY <1>1, <1>2, <1>3, CommitKeeps DEF StrikeInv

\* A permit moves an attempt from one committed stage to the other.
LEMMA GetPermitKeeps ==
    ASSUME StrikeInv, NEW c \in Clients, NEW d \in Domains, GetPermit(c, d)
    PROVE  StrikeInv'
<1>1. /\ task[c][d] = "queued"
      /\ task' = [task EXCEPT ![c][d] = "dialling"]
      /\ UNCHANGED table
  BY DEF GetPermit, table
<1>2. StrikeType'
  BY <1>1 DEF StrikeInv, StrikeType, Stages, table
<1>3. \A e \in Domains : CommittedTo(e)' \subseteq CommittedTo(e)
  BY <1>1 DEF StrikeInv, StrikeType, CommittedTo, Committed
<1>4. Relaxes /\ EntryInv'
  BY <1>1, <1>3 DEF StrikeInv, StrikeType, EntryInv, Relaxes, table
<1> QED
  BY <1>2, <1>4, RelaxKeeps DEF StrikeInv

LEMMA DialOkKeeps ==
    ASSUME StrikeInv, NEW c \in Clients, NEW d \in Domains, DialOk(c, d)
    PROVE  StrikeInv'
<1>1. Forget({d}) /\ task' = [task EXCEPT ![c][d] = "open"]
  BY DEF DialOk
<1>2. /\ entries' \in SUBSET Domains /\ strikes' \in [Domains -> Nat] /\ EntryInv'
      /\ \A e \in Domains : strikes[e]' <= strikes[e]
  BY <1>1, ForgetFacts
<1>3. StrikeType'
  BY <1>1, <1>2 DEF StrikeInv, StrikeType, Stages
<1>4. \A e \in Domains : CommittedTo(e)' \subseteq CommittedTo(e)
  BY <1>1 DEF StrikeInv, StrikeType, CommittedTo, Committed
<1> QED
  BY <1>2, <1>3, <1>4, RelaxKeeps DEF StrikeInv, Relaxes

\* A refusal turns one committed client into at most one more strike.
LEMMA DialThrottledKeeps ==
    ASSUME StrikeInv, NEW c \in Clients, NEW d \in Domains, DialThrottled(c, d)
    PROVE  StrikeInv'
<1>1. /\ task[c][d] = "dialling"
      /\ task' = [task EXCEPT ![c][d] = "failed"]
      /\ entries' = entries \cup {d}
      /\ strikes' = [strikes EXCEPT ![d] = Counted(d) + 1]
  BY DEF DialThrottled, Mark
<1>2. Counted(d) \in Nat /\ Counted(d) <= strikes[d]
  BY DEF StrikeInv, StrikeType, Counted
<1>3. StrikeType'
  BY <1>1, <1>2 DEF StrikeInv, StrikeType, Stages
<1>4. EntryInv'
  BY <1>1 DEF StrikeInv, StrikeType, EntryInv
<1>5. ASSUME NEW e \in Domains
      PROVE  strikes[e]' + Cardinality(CommittedTo(e)') <= Cardinality(Clients)
  <2>1. CASE e = d
    <3>1. c \in CommittedTo(d) /\ CommittedTo(d)' = CommittedTo(d) \ {c}
      BY <1>1 DEF StrikeInv, StrikeType, CommittedTo, Committed
    <3>2. Cardinality(CommittedTo(d)') = Cardinality(CommittedTo(d)) - 1
      BY <3>1, CommittedCount, FS_RemoveElement
    <3>3. strikes[d]' <= strikes[d] + 1 /\ strikes[d] \in Nat /\ strikes[d]' \in Nat
      BY <1>1, <1>2, <1>3 DEF StrikeInv, StrikeType
    <3>4. strikes[d] + Cardinality(CommittedTo(d)) <= Cardinality(Clients)
      BY DEF StrikeInv, StrikesBounded
    <3> QED
      BY <2>1, <3>2, <3>3, <3>4, CommittedCount
  <2>2. CASE e # d
    <3>1. CommittedTo(e)' = CommittedTo(e) /\ strikes[e]' = strikes[e]
      BY <1>1, <2>2 DEF StrikeInv, StrikeType, CommittedTo
    <3> QED
      BY <3>1 DEF StrikeInv, StrikesBounded
  <2> QED
    BY <2>1, <2>2
<1>6. StrikesBounded'
  BY <1>5 DEF StrikesBounded
<1> QED
  BY <1>3, <1>4, <1>6 DEF StrikeInv

LEMMA ClearKeeps ==
    ASSUME StrikeInv, ClearCooldowns
    PROVE  StrikeInv'
<1>1. Forget(Domains) /\ UNCHANGED task
  BY DEF ClearCooldowns
<1>2. /\ entries' \in SUBSET Domains /\ strikes' \in [Domains -> Nat] /\ EntryInv'
      /\ \A e \in Domains : strikes[e]' <= strikes[e]
  BY <1>1, ForgetFacts
<1>3. StrikeType'
  BY <1>1, <1>2 DEF StrikeInv, StrikeType
<1>4. \A e \in Domains : CommittedTo(e)' \subseteq CommittedTo(e)
  BY <1>1 DEF CommittedTo
<1> QED
  BY <1>2, <1>3, <1>4, RelaxKeeps DEF StrikeInv, Relaxes

-----------------------------------------------------------------------------

LEMMA StrikeInvInit == Init => StrikeInv
<1> SUFFICES ASSUME Init
             PROVE  StrikeInv
  OBVIOUS
<1>1. StrikeType /\ EntryInv
  BY DEF Init, StrikeType, EntryInv, Stages
<1>2. StrikesBounded
  <2> SUFFICES ASSUME NEW d \in Domains
               PROVE  strikes[d] + Cardinality(CommittedTo(d)) <= Cardinality(Clients)
    BY DEF StrikesBounded
  <2> QED
    BY CommittedCount DEF Init
<1> QED
  BY <1>1, <1>2 DEF StrikeInv

\* The strengthening of StrikesBounded is inductive: the only step that adds a
\* strike takes a client out of the committed ones, and the only steps that add
\* a committed client find or leave the domain without strikes.
THEOREM StrikesInductive == StrikeInv /\ [Next]_vars => StrikeInv'
<1> SUFFICES ASSUME StrikeInv, [Next]_vars
             PROVE  StrikeInv'
  OBVIOUS
<1>1. ASSUME NEW c \in Clients, Acquire(c) PROVE StrikeInv'
  BY <1>1, AcquireKeeps
<1>2. ASSUME NEW c \in Clients, FirstOpens(c) PROVE StrikeInv'
  BY <1>2, IdleKeeps DEF FirstOpens
<1>3. ASSUME NEW c \in Clients, FirstFails(c) PROVE StrikeInv'
  BY <1>3, FirstFailsKeeps
<1>4. ASSUME NEW c \in Clients, Await(c) PROVE StrikeInv'
  BY <1>4, AwaitKeeps
<1>5. ASSUME NEW c \in Clients, Return(c) PROVE StrikeInv'
  BY <1>5, ReturnKeeps
<1>6. CASE CloseEnds
  BY <1>6, IdleKeeps DEF CloseEnds
<1>7. ASSUME NEW c \in Clients, NEW d \in Domains, Check(c, d) PROVE StrikeInv'
  BY <1>7, CheckKeeps
<1>8. ASSUME NEW c \in Clients, NEW d \in Domains, Remove(c, d) PROVE StrikeInv'
  BY <1>8, RemoveKeeps
<1>9. ASSUME NEW c \in Clients, NEW d \in Domains, GetPermit(c, d) PROVE StrikeInv'
  BY <1>9, GetPermitKeeps
<1>10. ASSUME NEW c \in Clients, NEW d \in Domains, DialOk(c, d) PROVE StrikeInv'
  BY <1>10, DialOkKeeps
<1>11. ASSUME NEW c \in Clients, NEW d \in Domains, DialThrottled(c, d) PROVE StrikeInv'
  BY <1>11, DialThrottledKeeps
<1>12. ASSUME NEW c \in Clients, NEW d \in Domains, DialFails(c, d) PROVE StrikeInv'
  BY <1>12, MoveKeeps DEF DialFails, Stages, Committed
<1>13. ASSUME NEW c \in Clients, NEW d \in Domains, Abort(c, d) PROVE StrikeInv'
  BY <1>13, MoveKeeps DEF Abort, Awaits, Stages, Committed
<1>14. CASE Cancel
  BY <1>14, IdleKeeps DEF Cancel
<1>15. CASE ClearCooldowns
  BY <1>15, ClearKeeps
<1>16. CASE Tick
  BY <1>16, IdleKeeps DEF Tick
<1>17. CASE UNCHANGED vars
  BY <1>17, IdleKeeps DEF vars
<1> QED
  BY <1>1, <1>2, <1>3, <1>4, <1>5, <1>6, <1>7, <1>8, <1>9, <1>10, <1>11, <1>12,
     <1>13, <1>14, <1>15, <1>16, <1>17 DEF Next

\* However many clients dial however many domains, the strikes of a domain and
\* the attempts that may still add one are together at most the clients: the
\* doubling of mark_cfproxy_429_cooldown never goes further than the number of
\* dials that ran at the same time.
THEOREM StrikesBoundedHolds == Spec => []StrikesBounded
<1>1. StrikeInv => StrikesBounded
  BY DEF StrikeInv
<1> QED
  BY StrikeInvInit, StrikesInductive, <1>1, PTL DEF Spec
-----------------------------------------------------------------------------
(* The attempts of a client, and their permits.                              *)

AttemptType ==
    /\ task \in [Clients -> [Domains -> Stages]]
    /\ pc \in [Clients -> {"idle", "first", "rest"}]
    /\ todo \in [Clients -> Seq(Domains)]
    /\ chosen \in [Clients -> Domains \cup {None}]
    /\ sticky \in Domains
    /\ permits \in Nat

InTodo(c) == {todo[c][i] : i \in 1..Len(todo[c])}

\* What has become of the attempts that the client no longer awaits.
Settled(c, d) ==
    \/ task[c][d] = "failed"
    \/ chosen[c] # None /\ task[c][d] = "none"
    \/ chosen[c] = d /\ task[c][d] = "open"

AttemptInv(c) ==
    /\ pc[c] = "idle" => chosen[c] = None /\ \A d \in Domains : task[c][d] = "none"
    /\ pc[c] = "first" => /\ chosen[c] = None /\ todo[c] # <<>> /\ Domains \subseteq InTodo(c)
                          /\ \A d \in Domains \ {Head(todo[c])} : task[c][d] = "none"
    /\ pc[c] = "rest" => \A d \in Domains : d \in InTodo(c) \/ Settled(c, d)

AwaitInv == AttemptType /\ \A c \in Clients : AttemptInv(c)

\* The head and the rest of the domains to await.
LEMMA TodoSplits ==
    ASSUME NEW s \in Seq(Domains), s # <<>>
    PROVE  /\ Head(s) \in Domains /\ Tail(s) \in Seq(Domains)
           /\ {s[i] : i \in 1..Len(s)} =
                 {Head(s)} \cup {Tail(s)[i] : i \in 1..Len(Tail(s))}
<1>1. /\ Head(s) \in Domains /\ Tail(s) \in Seq(Domains)
      /\ Len(s) \in Nat /\ Len(Tail(s)) = Len(s) - 1 /\ Head(s) = s[1]
      /\ \A i \in 1..Len(Tail(s)) : Tail(s)[i] = s[i + 1]
  BY HeadTailProperties, LenProperties
<1>2. Len(s) # 0
  BY <1>1, EmptySeq
<1>3. ASSUME NEW i \in 1..Len(s)
      PROVE  s[i] \in {Head(s)} \cup {Tail(s)[j] : j \in 1..Len(Tail(s))}
  <2>1. CASE i = 1
    BY <1>1, <2>1
  <2>2. CASE i # 1
    <3>1. i - 1 \in 1..Len(Tail(s)) /\ (i - 1) + 1 = i
      BY <1>1, <2>2
    <3>2. Tail(s)[i - 1] = s[i]
      BY <1>1, <3>1
    <3>. QED  BY <3>1, <3>2
  <2>. QED  BY <2>1, <2>2
<1>4. ASSUME NEW i \in 1..Len(Tail(s))
      PROVE  Tail(s)[i] \in {s[j] : j \in 1..Len(s)}
  <2>1. i + 1 \in 1..Len(s) /\ Tail(s)[i] = s[i + 1]
    BY <1>1
  <2>. QED  BY <2>1
<1>5. Head(s) \in {s[j] : j \in 1..Len(s)}
  <2>1. 1 \in 1..Len(s)
    BY <1>1, <1>2
  <2>. QED  BY <1>1, <2>1
<1>. QED  BY <1>1, <1>3, <1>4, <1>5

\* An order of dials is a sequence in which every domain occurs: it is as long
\* as there are domains and repeats none.
LEMMA OrderIsComplete ==
    ASSUME sticky \in Domains, NEW o \in Orders
    PROVE  /\ o \in Seq(Domains) /\ o # <<>> /\ Head(o) = o[1] /\ o[1] \in Domains
           /\ Domains \subseteq {o[i] : i \in 1..Len(o)}
<1> DEFINE n == Cardinality(Domains)
<1>1. IsFiniteSet(Domains) /\ n \in Nat /\ n # 0
  BY SetAssumption, FS_CardinalityType, FS_EmptySet
<1>2. o \in [1..n -> Domains] /\ \A i, j \in 1..n : o[i] = o[j] => i = j
  BY DEF Orders
<1>3. o \in Seq(Domains) /\ Len(o) = n
  BY <1>1, <1>2
<1>4. Cardinality(1..n) = n
  BY <1>1, FS_Interval
<1>5. o \in Injection(1..n, Domains)
  BY <1>2 DEF Injection, IsInjective
<1>6. o \in Surjection(1..n, Domains)
  BY <1>1, <1>4, <1>5, FS_Injection
<1>7. Domains \subseteq {o[i] : i \in 1..n}
  BY <1>6 DEF Surjection
<1>. QED  BY <1>1, <1>2, <1>3, <1>7

\* The other clients are left alone.
LEMMA OthersKeep ==
    ASSUME AwaitInv, AttemptType', NEW c \in Clients, AttemptInv(c)',
           \A e \in Clients \ {c} : /\ pc'[e] = pc[e] /\ todo'[e] = todo[e]
                                    /\ task'[e] = task[e] /\ chosen'[e] = chosen[e]
    PROVE  AwaitInv'
  BY DEF AwaitInv, AttemptInv, InTodo, Settled

\* One attempt goes on; it is one that its client still awaits.
Going(c, d) == task[c][d] \in {"waiting", "expired", "queued", "dialling"}

LEMMA GoingIsAwaited ==
    ASSUME AwaitInv, NEW c \in Clients, NEW d \in Domains, Going(c, d)
    PROVE  \/ pc[c] = "first" /\ d = Head(todo[c])
           \/ pc[c] = "rest" /\ d \in InTodo(c)
  BY DEF AwaitInv, AttemptType, AttemptInv, Settled, Going

LEMMA AttemptGoesOn ==
    ASSUME AwaitInv, NEW c \in Clients, NEW d \in Domains, Going(c, d),
           NEW s \in Stages, task' = [task EXCEPT ![c][d] = s],
           UNCHANGED <<pc, todo, chosen, sticky>>, permits' \in Nat
    PROVE  AwaitInv'
<1>1. AttemptType'
  BY DEF AwaitInv, AttemptType
<1>2. /\ \A e \in Domains \ {d} : task'[c][e] = task[c][e]
      /\ \A e \in Clients \ {c} : task'[e] = task[e]
  BY DEF AwaitInv, AttemptType
<1>3. AttemptInv(c)'
  BY <1>2, GoingIsAwaited DEF AwaitInv, AttemptInv, InTodo, Settled
<1>. QED  BY <1>1, <1>2, <1>3, OthersKeep

LEMMA AcquireAwaits ==
    ASSUME AwaitInv, NEW c \in Clients, Acquire(c)
    PROVE  AwaitInv'
<1>1. PICK o \in Orders : /\ todo' = [todo EXCEPT ![c] = o]
                          /\ task' = [task EXCEPT ![c][o[1]] = "waiting"]
  BY DEF Acquire
<1>2. /\ o \in Seq(Domains) /\ o # <<>> /\ Head(o) = o[1] /\ o[1] \in Domains
      /\ Domains \subseteq {o[i] : i \in 1..Len(o)}
  BY OrderIsComplete DEF AwaitInv, AttemptType
<1>3. AttemptType'
  BY <1>1, <1>2 DEF AwaitInv, AttemptType, Acquire, Stages
<1>4. /\ pc'[c] = "first" /\ chosen'[c] = None /\ todo'[c] = o
      /\ \A d \in Domains \ {o[1]} : task'[c][d] = "none"
      /\ \A e \in Clients \ {c} : /\ pc'[e] = pc[e] /\ todo'[e] = todo[e]
                                  /\ task'[e] = task[e] /\ chosen'[e] = chosen[e]
  <2>1. pc[c] = "idle" /\ chosen[c] = None /\ \A d \in Domains : task[c][d] = "none"
    BY DEF AwaitInv, AttemptInv, Acquire
  <2>2. pc' = [pc EXCEPT ![c] = "first"] /\ chosen' = chosen
    BY DEF Acquire
  <2>3. /\ pc'[c] = "first" /\ chosen'[c] = None /\ todo'[c] = o
        /\ \A e \in Clients \ {c} : /\ pc'[e] = pc[e] /\ todo'[e] = todo[e]
                                    /\ chosen'[e] = chosen[e]
    BY <1>1, <2>1, <2>2 DEF AwaitInv, AttemptType
  <2>4. /\ \A d \in Domains \ {o[1]} : task'[c][d] = "none"
        /\ \A e \in Clients \ {c} : task'[e] = task[e]
    BY <1>1, <2>1 DEF AwaitInv, AttemptType
  <2>. QED  BY <2>3, <2>4
<1>5. AttemptInv(c)'
  BY <1>2, <1>4 DEF AttemptInv, InTodo
<1>. QED  BY <1>3, <1>4, <1>5, OthersKeep

LEMMA FirstOpensAwaits ==
    ASSUME AwaitInv, NEW c \in Clients, FirstOpens(c)
    PROVE  AwaitInv'
<1>1. Head(todo[c]) \in Domains /\ Head(todo[c]) # None /\ task[c][Head(todo[c])] = "open"
      /\ \A d \in Domains \ {Head(todo[c])} : task[c][d] = "none"
  BY TodoSplits, SetAssumption DEF AwaitInv, AttemptType, AttemptInv, FirstOpens
<1>2. AttemptType'
  BY <1>1 DEF AwaitInv, AttemptType, FirstOpens
<1>3. /\ pc'[c] = "rest" /\ chosen'[c] = Head(todo[c]) /\ task' = task
      /\ \A e \in Clients \ {c} : /\ pc'[e] = pc[e] /\ todo'[e] = todo[e]
                                  /\ task'[e] = task[e] /\ chosen'[e] = chosen[e]
  BY DEF AwaitInv, AttemptType, FirstOpens
<1>4. AttemptInv(c)'
  BY <1>1, <1>3 DEF AttemptInv, Settled
<1>. QED  BY <1>2, <1>3, <1>4, OthersKeep

LEMMA FirstFailsAwaits ==
    ASSUME AwaitInv, NEW c \in Clients, FirstFails(c)
    PROVE  AwaitInv'
<1> DEFINE rest == Tail(todo[c])
           spawned == {d \in Domains : \E i \in 1..Len(rest) : rest[i] = d}
<1>1. /\ todo[c] \in Seq(Domains) /\ todo[c] # <<>> /\ rest \in Seq(Domains)
      /\ InTodo(c) = {Head(todo[c])} \cup {rest[i] : i \in 1..Len(rest)}
      /\ Domains \subseteq InTodo(c) /\ task[c][Head(todo[c])] = "failed"
  <2>1. /\ pc[c] = "first" /\ task[c][Head(todo[c])] = "failed"
        /\ todo[c] \in Seq(Domains) /\ todo[c] # <<>> /\ Domains \subseteq InTodo(c)
    BY DEF AwaitInv, AttemptType, AttemptInv, FirstFails
  <2>. QED  BY <2>1, TodoSplits DEF InTodo
<1>2. /\ task' = [task EXCEPT ![c] =
                    [d \in Domains |-> IF d \in spawned THEN "waiting" ELSE task[c][d]]]
      /\ todo' = [todo EXCEPT ![c] = rest]
      /\ pc' = [pc EXCEPT ![c] = "rest"]
      /\ UNCHANGED <<chosen, sticky, permits>>
  BY DEF FirstFails
<1>3. spawned = {rest[i] : i \in 1..Len(rest)}
  <2>1. rest \in Seq(Domains)
    BY <1>1
  <2> HIDE DEF rest
  <2>2. \A i \in 1..Len(rest) : rest[i] \in Domains
    BY <2>1, ElementOfSeq
  <2>. QED  BY <2>2
<1> HIDE DEF rest, spawned
<1>4. AttemptType'
  BY <1>1, <1>2 DEF AwaitInv, AttemptType, Stages
<1>5. /\ pc'[c] = "rest" /\ todo'[c] = rest
      /\ \A d \in Domains : task'[c][d] = IF d \in spawned THEN "waiting" ELSE task[c][d]
      /\ \A e \in Clients \ {c} : /\ pc'[e] = pc[e] /\ todo'[e] = todo[e]
                                  /\ task'[e] = task[e] /\ chosen'[e] = chosen[e]
  BY <1>2 DEF AwaitInv, AttemptType
<1>6. AttemptInv(c)'
  <2>1. InTodo(c)' = spawned
    BY <1>3, <1>5 DEF InTodo
  <2>2. \A d \in Domains \ spawned : task'[c][d] = "failed"
    BY <1>1, <1>3, <1>5
  <2>. QED  BY <1>5, <2>1, <2>2 DEF AttemptInv, Settled
<1>. QED  BY <1>4, <1>5, <1>6, OthersKeep

LEMMA AwaitAwaits ==
    ASSUME AwaitInv, NEW c \in Clients, Await(c)
    PROVE  AwaitInv'
<1> DEFINE d == Head(todo[c])
<1>1. /\ d \in Domains /\ Tail(todo[c]) \in Seq(Domains) /\ d # None
      /\ InTodo(c) = {d} \cup {Tail(todo[c])[i] : i \in 1..Len(Tail(todo[c]))}
  BY TodoSplits, SetAssumption DEF AwaitInv, AttemptType, Await, InTodo
<1>2. /\ pc[c] = "rest" /\ task[c][d] \in {"open", "failed"} /\ pc' = pc
      /\ todo'[c] = Tail(todo[c])
      /\ \A e \in Clients \ {c} : todo'[e] = todo[e]
      /\ UNCHANGED <<sticky, permits>>
  BY DEF AwaitInv, AttemptType, Await, Ended
<1>3. InTodo(c)' \cup {d} = InTodo(c)
  BY <1>1, <1>2 DEF InTodo
<1>4. \A e \in Domains : e \in InTodo(c) \/ Settled(c, e)
  BY <1>2 DEF AwaitInv, AttemptInv
<1>5. CASE task[c][d] = "open" /\ chosen[c] = None
  <2>1. chosen' = [chosen EXCEPT ![c] = d] /\ task' = task
    BY <1>5 DEF Await
  <2>2. AttemptType'
    BY <1>1, <1>2, <2>1 DEF AwaitInv, AttemptType, Await
  <2>3. \A e \in Domains : e \in InTodo(c)' \/ Settled(c, e)'
    <3>1. chosen'[c] = d /\ chosen'[c] # None /\ task'[c][d] = "open"
      BY <1>1, <1>5, <2>1 DEF AwaitInv, AttemptType
    <3>2. ASSUME NEW e \in Domains \ {d}
          PROVE  e \in InTodo(c)' \/ Settled(c, e)'
      BY <1>3, <1>4, <1>5, <2>1, <3>1, SetAssumption DEF Settled
    <3>. QED  BY <3>1, <3>2 DEF Settled
  <2>4. AttemptInv(c)'
    BY <1>2, <2>3 DEF AttemptInv
  <2>. QED  BY <1>2, <2>1, <2>2, <2>4, OthersKeep DEF AwaitInv, AttemptType
<1>6. CASE task[c][d] = "open" /\ chosen[c] # None
  <2>1. chosen' = chosen /\ task' = [task EXCEPT ![c][d] = "none"]
    BY <1>6 DEF Await
  <2>2. AttemptType'
    BY <1>1, <1>2, <2>1 DEF AwaitInv, AttemptType, Await, Stages
  <2>3. /\ task'[c][d] = "none" /\ \A e \in Domains \ {d} : task'[c][e] = task[c][e]
        /\ \A e \in Clients \ {c} : task'[e] = task[e]
    BY <1>1, <2>1 DEF AwaitInv, AttemptType
  <2>4. \A e \in Domains : e \in InTodo(c)' \/ Settled(c, e)'
    BY <1>3, <1>4, <1>6, <2>1, <2>3 DEF Settled
  <2>5. AttemptInv(c)'
    BY <1>2, <2>4 DEF AttemptInv
  <2>. QED  BY <1>2, <2>1, <2>2, <2>3, <2>5, OthersKeep
<1>7. CASE task[c][d] = "failed"
  <2>1. chosen' = chosen /\ task' = task
    BY <1>7 DEF Await
  <2>2. AttemptType'
    BY <1>1, <1>2, <2>1 DEF AwaitInv, AttemptType, Await
  <2>3. \A e \in Domains : e \in InTodo(c)' \/ Settled(c, e)'
    BY <1>3, <1>4, <1>7, <2>1 DEF Settled
  <2>4. AttemptInv(c)'
    BY <1>2, <2>3 DEF AttemptInv
  <2>. QED  BY <1>2, <2>1, <2>2, <2>4, OthersKeep
<1>. QED  BY <1>2, <1>5, <1>6, <1>7

LEMMA ReturnAwaits ==
    ASSUME AwaitInv, NEW c \in Clients, Return(c)
    PROVE  AwaitInv'
<1>1. AttemptType'
  BY DEF AwaitInv, AttemptType, Return, Stages
<1>2. /\ pc'[c] = "idle" /\ chosen'[c] = None /\ \A d \in Domains : task'[c][d] = "none"
      /\ \A e \in Clients \ {c} : /\ pc'[e] = pc[e] /\ todo'[e] = todo[e]
                                  /\ task'[e] = task[e] /\ chosen'[e] = chosen[e]
  BY DEF AwaitInv, AttemptType, Return
<1>3. AttemptInv(c)'
  BY <1>2 DEF AttemptInv
<1>. QED  BY <1>1, <1>2, <1>3, OthersKeep

\* What a step does to one attempt.
Attempts(c, d) ==
    \/ Check(c, d) \/ Remove(c, d) \/ GetPermit(c, d)
    \/ DialOk(c, d) \/ DialThrottled(c, d) \/ DialFails(c, d) \/ Abort(c, d)

LEMMA AttemptSteps ==
    ASSUME AwaitInv, NEW c \in Clients, NEW d \in Domains, Attempts(c, d)
    PROVE  /\ Going(c, d)
           /\ \E s \in Stages : /\ task' = [task EXCEPT ![c][d] = s]
                                /\ \/ s # "dialling" /\ task[c][d] # "dialling"
                                      /\ permits' = permits
                                   \/ s = "dialling" /\ task[c][d] = "queued"
                                      /\ permits > 0 /\ permits' = permits - 1
                                   \/ s # "dialling" /\ task[c][d] = "dialling"
                                      /\ permits' = permits + 1
           /\ UNCHANGED <<pc, todo, chosen, sticky>>
<1>1. task[c][d] \in Stages
  BY DEF AwaitInv, AttemptType
<1>3. CASE Check(c, d)
  BY <1>3 DEF Check, Going, Stages
<1>4. CASE Remove(c, d)
  BY <1>4 DEF Remove, Going, Stages
<1>5. CASE GetPermit(c, d)
  BY <1>5 DEF GetPermit, Going, Stages
<1>6. CASE DialOk(c, d)
  BY <1>6 DEF DialOk, Going, Stages
<1>7. CASE DialThrottled(c, d) \/ DialFails(c, d)
  BY <1>7 DEF DialThrottled, DialFails, Going, Stages
<1>8. CASE Abort(c, d)
  BY <1>1, <1>8 DEF Abort, Awaits, Going, Stages
<1>. QED  BY <1>3, <1>4, <1>5, <1>6, <1>7, <1>8 DEF Attempts

LEMMA AwaitStep ==
    ASSUME AwaitInv, [Next]_vars
    PROVE  AwaitInv'
<1>1. ASSUME NEW c \in Clients,
             Acquire(c) \/ FirstOpens(c) \/ FirstFails(c) \/ Await(c) \/ Return(c)
      PROVE  AwaitInv'
  BY <1>1, AcquireAwaits, FirstOpensAwaits, FirstFailsAwaits, AwaitAwaits, ReturnAwaits
<1>2. ASSUME NEW c \in Clients, NEW d \in Domains, Attempts(c, d)
      PROVE  AwaitInv'
  <2>1. \/ permits' \in {permits, permits + 1}
        \/ permits > 0 /\ permits' = permits - 1
    BY <1>2, AttemptSteps
  <2>2. permits' \in Nat
    BY <2>1 DEF AwaitInv, AttemptType
  <2>3. PICK s \in Stages : task' = [task EXCEPT ![c][d] = s]
    BY <1>2, AttemptSteps
  <2>4. Going(c, d) /\ UNCHANGED <<pc, todo, chosen, sticky>>
    BY <1>2, AttemptSteps
  <2>. QED  BY <2>2, <2>3, <2>4, AttemptGoesOn
<1>3. CASE UNCHANGED <<task, pc, todo, chosen, sticky, permits>>
  BY <1>3 DEF AwaitInv, AttemptType, AttemptInv, InTodo, Settled
<1>4. CloseEnds \/ Cancel \/ ClearCooldowns \/ Tick \/ UNCHANGED vars
      => UNCHANGED <<task, pc, todo, chosen, sticky, permits>>
  BY DEF CloseEnds, Cancel, ClearCooldowns, Tick, vars
<1>. QED  BY <1>1, <1>2, <1>3, <1>4, Zenon DEF Next, Attempts

LEMMA AwaitInit ==
    ASSUME Init
    PROVE  AwaitInv
  BY NumberAssumption DEF Init, AwaitInv, AttemptType, AttemptInv, Stages

\* Only Return makes a client idle.
LEMMA ReturnOnly ==
    ASSUME AwaitInv, [Next]_vars, NEW c \in Clients, Returns(c)
    PROVE  pc[c] = "rest" /\ todo[c] = <<>>
<1>1. pc # pc'
  BY DEF Returns
<1>2. PICK e \in Clients :
         Acquire(e) \/ FirstOpens(e) \/ FirstFails(e) \/ Await(e) \/ Return(e)
  <2>1. ASSUME NEW e \in Clients, NEW d \in Domains, pc' # pc
        PROVE  /\ ~Check(e, d) /\ ~Remove(e, d) /\ ~GetPermit(e, d)
               /\ ~DialOk(e, d) /\ ~DialThrottled(e, d) /\ ~DialFails(e, d) /\ ~Abort(e, d)
    BY <2>1 DEF Check, Remove, GetPermit, DialOk, DialThrottled, DialFails, Abort
  <2>2. ~CloseEnds /\ ~Cancel /\ ~ClearCooldowns /\ ~Tick /\ ~UNCHANGED vars
    BY <1>1 DEF CloseEnds, Cancel, ClearCooldowns, Tick, vars
  <2>. QED  BY <1>1, <2>1, <2>2, Zenon DEF Next
<1>3. Return(c)
  BY <1>2 DEF Returns, AwaitInv, AttemptType, Acquire, FirstOpens, FirstFails, Await, Return
<1>. QED  BY <1>3 DEF Return

\* A step takes an open connection from a client only when the client returns with
\* it or spawns a task that closes it.
LEMMA OpenGoes ==
    ASSUME AwaitInv, [Next]_vars, NEW c \in Clients, NEW d \in Domains,
           task[c][d] = "open", task'[c][d] # "open"
    PROVE  (Returns(c) /\ d = chosen[c]) \/ closers' = closers + 1
<1>1. task' # task
  OBVIOUS
<1>2. ASSUME NEW e \in Clients, NEW f \in Domains, Attempts(e, f)
      PROVE  FALSE
  <2>1. Going(e, f) /\ \E s \in Stages : task' = [task EXCEPT ![e][f] = s]
    BY <1>2, AttemptSteps
  <2>2. e = c /\ f = d
    BY <2>1 DEF AwaitInv, AttemptType
  <2>. QED  BY <2>1, <2>2 DEF Going
<1>3. ~CloseEnds /\ ~Cancel /\ ~ClearCooldowns /\ ~Tick /\ ~UNCHANGED vars
  BY <1>1 DEF CloseEnds, Cancel, ClearCooldowns, Tick, vars
<1>4. PICK e \in Clients :
         Acquire(e) \/ FirstOpens(e) \/ FirstFails(e) \/ Await(e) \/ Return(e)
  BY <1>2, <1>3, Zenon DEF Next, Attempts
<1>5. e = c
  BY <1>4 DEF AwaitInv, AttemptType, Acquire, FirstOpens, FirstFails, Await, Return
<1>6. CASE Acquire(c)
  BY <1>6 DEF AwaitInv, AttemptInv, Acquire
<1>7. CASE FirstOpens(c)
  BY <1>1, <1>7 DEF FirstOpens
<1>8. CASE FirstFails(c)
  <2>1. /\ pc[c] = "first" /\ task[c][Head(todo[c])] = "failed"
        /\ \A f \in Domains \ {Head(todo[c])} : task[c][f] = "none"
    BY <1>8 DEF AwaitInv, AttemptInv, FirstFails
  <2>. QED  BY <2>1
<1>9. CASE Await(c)
  BY <1>1, <1>9 DEF Await
<1>10. CASE Return(c)
  <2>1. InTodo(c) = {} /\ pc[c] = "rest"
    BY <1>10 DEF Return, InTodo
  <2>2. d = chosen[c]
    BY <2>1 DEF AwaitInv, AttemptInv, Settled
  <2>3. Returns(c)
    BY <1>10 DEF Returns, Return, AwaitInv, AttemptType
  <2>. QED  BY <2>2, <2>3
<1>. QED  BY <1>4, <1>5, <1>6, <1>7, <1>8, <1>9, <1>10

\* When cfproxy_acquire_ws returns, none of its attempts goes on, and every
\* connection it opened has gone to the caller or to a task of its own that closes
\* it, however many domains there are.
THEOREM LeavesOnlyClosersHolds == Spec => LeavesOnlyClosers
<1>1. ASSUME AwaitInv, [Next]_vars, NEW c \in Clients
      PROVE  /\ Returns(c) => \A d \in Domains : task[c][d] \in Ended \cup {"none"}
             /\ \A d \in Domains : task[c][d] = "open" /\ task'[c][d] # "open" =>
                   (Returns(c) /\ d = chosen[c]) \/ closers' = closers + 1
  <2>1. ASSUME Returns(c)
        PROVE  \A d \in Domains : task[c][d] \in Ended \cup {"none"}
    <3>1. pc[c] = "rest" /\ todo[c] = <<>>
      BY <1>1, <2>1, ReturnOnly
    <3>2. InTodo(c) = {}
      BY <3>1 DEF InTodo
    <3>. QED  BY <1>1, <3>1, <3>2 DEF AwaitInv, AttemptInv, Settled, Ended
  <2>. QED  BY <1>1, <2>1, OpenGoes
<1>2. AwaitInv /\ [Next]_vars
         => [\A c \in Clients :
                /\ Returns(c) => \A d \in Domains : task[c][d] \in Ended \cup {"none"}
                /\ \A d \in Domains : task[c][d] = "open" /\ task'[c][d] # "open" =>
                      (Returns(c) /\ d = chosen[c]) \/ closers' = closers + 1]_vars
  BY <1>1
<1>. QED  BY <1>2, AwaitInit, AwaitStep, PTL DEF Spec, LeavesOnlyClosers

\* It returns without a connection only after an attempt for every domain: the
\* order it draws leaves no domain out.
THEOREM GivesUpLastHolds == Spec => GivesUpLast
<1>1. ASSUME AwaitInv, [Next]_vars, NEW c \in Clients, Returns(c), chosen[c] = None
      PROVE  \A d \in Domains : task[c][d] = "failed"
  <2>1. pc[c] = "rest" /\ todo[c] = <<>>
    BY <1>1, ReturnOnly
  <2>2. InTodo(c) = {}
    BY <2>1 DEF InTodo
  <2>. QED  BY <1>1, <2>1, <2>2, SetAssumption DEF AwaitInv, AttemptInv, Settled
<1>2. AwaitInv /\ [Next]_vars
         => [\A c \in Clients : Returns(c) /\ chosen[c] = None =>
                \A d \in Domains : task[c][d] = "failed"]_vars
  BY <1>1
<1>. QED  BY <1>2, AwaitInit, AwaitStep, PTL DEF Spec, GivesUpLast

-----------------------------------------------------------------------------
(* The permits.                                                              *)

LEMMA DialsFinite ==
    /\ IsFiniteSet(Dials) /\ Cardinality(Dials) \in Nat
<1>1. IsFiniteSet(Clients \X Domains)
  BY SetAssumption, FS_Product
<1>2. Dials \in SUBSET (Clients \X Domains)
  BY DEF Dials
<1>. QED  BY <1>1, <1>2, FS_Subset, FS_CardinalityType

LEMMA PermitsStep ==
    ASSUME AwaitInv, PermitsKept, [Next]_vars
    PROVE  PermitsKept'
<1>1. ASSUME NEW c \in Clients, NEW d \in Domains, Attempts(c, d)
      PROVE  PermitsKept'
  <2>1. PICK s \in Stages : /\ task' = [task EXCEPT ![c][d] = s]
                            /\ \/ s # "dialling" /\ task[c][d] # "dialling"
                                  /\ permits' = permits
                               \/ s = "dialling" /\ task[c][d] = "queued"
                                  /\ permits > 0 /\ permits' = permits - 1
                               \/ s # "dialling" /\ task[c][d] = "dialling"
                                  /\ permits' = permits + 1
    BY <1>1, AttemptSteps
  <2>2. /\ task'[c][d] = s /\ \A e \in Domains \ {d} : task'[c][e] = task[c][e]
        /\ \A e \in Clients \ {c} : task'[e] = task[e]
    BY <2>1 DEF AwaitInv, AttemptType
  <2>3. \A a \in Clients, e \in Domains :
           <<a, e>> # <<c, d>> => task'[a][e] = task[a][e]
    BY <2>2
  <2>4. permits \in Nat
    BY DEF AwaitInv, AttemptType
  <2>5. CASE s # "dialling" /\ task[c][d] # "dialling" /\ permits' = permits
    <3>1. Dials' = Dials
      BY <2>2, <2>3, <2>5 DEF Dials
    <3>. QED  BY <3>1, <2>5 DEF PermitsKept
  <2>6. CASE s = "dialling" /\ task[c][d] = "queued" /\ permits' = permits - 1
    <3>1. Dials' = Dials \cup {<<c, d>>} /\ <<c, d>> \notin Dials
      BY <2>2, <2>3, <2>6 DEF Dials
    <3>2. Cardinality(Dials') = Cardinality(Dials) + 1
      BY <3>1, DialsFinite, FS_AddElement
    <3>. QED  BY <2>4, <2>6, <3>2, DialsFinite, NumberAssumption DEF PermitsKept
  <2>7. CASE s # "dialling" /\ task[c][d] = "dialling" /\ permits' = permits + 1
    <3>1. Dials' = Dials \ {<<c, d>>} /\ <<c, d>> \in Dials
      BY <2>2, <2>3, <2>7 DEF Dials
    <3>2. Cardinality(Dials') = Cardinality(Dials) - 1
      BY <3>1, DialsFinite, FS_RemoveElement
    <3>. QED  BY <2>4, <2>7, <3>2, DialsFinite, NumberAssumption DEF PermitsKept
  <2>. QED  BY <2>1, <2>5, <2>6, <2>7
<1>2. ASSUME permits' = permits, Dials' = Dials
      PROVE  PermitsKept'
  BY <1>2 DEF PermitsKept
<1>3. ASSUME NEW c \in Clients,
             Acquire(c) \/ FirstOpens(c) \/ FirstFails(c) \/ Await(c) \/ Return(c)
      PROVE  permits' = permits /\ Dials' = Dials
  <2>1. permits' = permits
    BY <1>3 DEF Acquire, FirstOpens, FirstFails, Await, Return
  <2>2. \A e \in Clients \ {c} : task'[e] = task[e]
    BY <1>3 DEF Acquire, FirstOpens, FirstFails, Await, Return, AwaitInv, AttemptType
  <2>3. \A d \in Domains : task'[c][d] # task[c][d] =>
                              task[c][d] # "dialling" /\ task'[c][d] # "dialling"
    <3>1. CASE Acquire(c)
      BY <3>1 DEF Acquire, AwaitInv, AttemptType, AttemptInv
    <3>2. CASE FirstOpens(c)
      BY <3>2 DEF FirstOpens
    <3>3. CASE FirstFails(c)
      BY <3>3 DEF FirstFails, AwaitInv, AttemptType, AttemptInv
    <3>4. CASE Await(c)
      <4>1. task' = task \/ (task[c][Head(todo[c])] = "open"
                             /\ task' = [task EXCEPT ![c][Head(todo[c])] = "none"])
        BY <3>4 DEF Await
      <4>. QED  BY <4>1 DEF AwaitInv, AttemptType
    <3>5. CASE Return(c)
      <4>1. InTodo(c) = {}
        BY <3>5 DEF Return, InTodo
      <4>2. \A d \in Domains : Settled(c, d)
        BY <3>5, <4>1 DEF Return, AwaitInv, AttemptInv
      <4>3. \A d \in Domains : task[c][d] # "dialling"
        BY <4>2 DEF Settled
      <4>. QED  BY <3>5, <4>3 DEF Return, AwaitInv, AttemptType
    <3>. QED  BY <1>3, <3>1, <3>2, <3>3, <3>4, <3>5
  <2>4. \A a \in Clients, e \in Domains :
           task'[a][e] = "dialling" <=> task[a][e] = "dialling"
    BY <2>2, <2>3
  <2>. QED  BY <2>1, <2>4 DEF Dials
<1>4. CloseEnds \/ Cancel \/ ClearCooldowns \/ Tick \/ UNCHANGED vars
      => permits' = permits /\ Dials' = Dials
  BY DEF CloseEnds, Cancel, ClearCooldowns, Tick, vars, Dials
<1>. QED  BY <1>1, <1>2, <1>3, <1>4, Zenon DEF Next, Attempts

\* No way out of an attempt loses a permit, however many clients share them.
THEOREM PermitsKeptHolds == Spec => []PermitsKept
<1>1. ASSUME Init
      PROVE  AwaitInv /\ PermitsKept
  <2>1. Dials = {} /\ permits = Permits /\ Permits \in Nat
    BY <1>1, NumberAssumption DEF Init, Dials
  <2>2. Cardinality(Dials) = 0
    BY <2>1, FS_EmptySet
  <2>. QED  BY <1>1, <2>1, <2>2, AwaitInit DEF PermitsKept
<1>2. AwaitInv /\ PermitsKept /\ [Next]_vars => (AwaitInv /\ PermitsKept)'
  BY AwaitStep, PermitsStep
<1>. QED  BY <1>1, <1>2, PTL DEF Spec
=============================================================================
