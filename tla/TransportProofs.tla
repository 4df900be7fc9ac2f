---------------------------- MODULE TransportProofs ----------------------------
(***************************************************************************)
(* Theorems about the two machines of MCTransport: Dial, for any number of  *)
(* dials and resolvers and every choice of the limits, and MsgSplitter, for *)
(* every stream, every cut of it and every choice of the literals.          *)
(***************************************************************************)
EXTENDS MCTransport, SequenceTheorems, TLAPS

Kinds == {"direct", "cf"}
T(k) == AttemptTimeout(k)
Tls(k) == AtMost(AttemptTimeout(k), TlsTimeout)

LEMMA Limits ==
    ASSUME NEW k \in Kinds
    PROVE  /\ T(k) \in Nat /\ Tls(k) \in Nat
           /\ StageTimeout(k, "tls") = Tls(k)
           /\ \A s \in {"connect", "write", "read"} : StageTimeout(k, s) = T(k)
  BY TimesAssumption
     DEF T, Tls, AttemptTimeout, WsConnectTimeout, AtMost, StageTimeout

\* The stages by name.
LEMMA StageNames ==
    /\ InAttempt = {"connect", "tls", "write", "read"}
    /\ \A d \in Dials :
          (\E i \in 1..3 : pc[d] = Stages[i] /\ Enter(d, Stages[i + 1])) =>
             \/ pc[d] = "connect" /\ Enter(d, "tls")
             \/ pc[d] = "tls" /\ Enter(d, "write")
             \/ pc[d] = "write" /\ Enter(d, "read")
<1>1. Stages[1] = "connect" /\ Stages[2] = "tls" /\ Stages[3] = "write" /\ Stages[4] = "read"
  BY DEF Stages
<1>2. 1..4 = {1, 2, 3, 4} /\ 1..3 = {1, 2, 3}
  OBVIOUS
<1>3. InAttempt = {"connect", "tls", "write", "read"}
  BY <1>1, <1>2 DEF InAttempt
<1>4. ASSUME NEW d \in Dials, NEW i \in 1..3, pc[d] = Stages[i], Enter(d, Stages[i + 1])
      PROVE  \/ pc[d] = "connect" /\ Enter(d, "tls")
             \/ pc[d] = "tls" /\ Enter(d, "write")
             \/ pc[d] = "write" /\ Enter(d, "read")
  <2>1. CASE i = 1
    BY <2>1, <1>1, <1>4
  <2>2. CASE i = 2
    BY <2>2, <1>1, <1>4
  <2>3. CASE i = 3
    BY <2>3, <1>1, <1>4
  <2>. QED  BY <2>1, <2>2, <2>3, <1>2
<1>. QED  BY <1>3, <1>4

-----------------------------------------------------------------------------
(* What a dial does, seen from its own variables.  Every action moves one    *)
(* dial, or only its tasks, and leaves the others alone.                     *)

Position == <<kind, pc, byAddress, left, result, spent>>

\* A dial d is the only one that moves.
Only(d) ==
    /\ kind' = kind /\ spent' = spent
    /\ \A e \in Dials \ {d} :
          /\ pc'[e] = pc[e] /\ left'[e] = left[e] /\ result'[e] = result[e]
          /\ e \in byAddress' <=> e \in byAddress

Types ==
    /\ kind \in [Dials -> Kinds]
    /\ pc \in [Dials -> InAttempt \cup {"idle", "resolve", "done"}]
    /\ byAddress \in SUBSET Dials
    /\ left \in [Dials -> Nat]
    /\ result \in [Dials -> Results]
    /\ spent \in [Dials -> Nat]

\* The ways a dial moves.
Moves(d) ==
    \/ pc[d] = "idle" /\ Enter(d, "connect") /\ UNCHANGED <<byAddress, result>>
    \/ /\ \/ pc[d] = "connect" /\ Enter(d, "tls")
          \/ pc[d] = "tls" /\ Enter(d, "write")
          \/ pc[d] = "write" /\ Enter(d, "read")
       /\ UNCHANGED <<byAddress, result>>
    \/ /\ HostFailed(d) \/ pc[d] = "resolve"
       /\ SecondAttempt(d) /\ UNCHANGED result
    \/ /\ HostFailed(d)
       /\ pc' = [pc EXCEPT ![d] = "resolve"]
       /\ left' = [left EXCEPT ![d] = DohTimeout]
       /\ UNCHANGED <<byAddress, result>>
    \/ /\ Running(d)
       /\ \E how \in Results \ {"none"} : End(d, how)
       /\ UNCHANGED byAddress

LEMMA NextMoves ==
    ASSUME Next
    PROVE  \/ \E d \in Dials : Moves(d) /\ UNCHANGED <<kind, spent>>
           \/ Tick
           \/ UNCHANGED Position
<1>1. CASE Tick
  BY <1>1
<1>2. ASSUME NEW d \in Dials,
             \/ Begin(d) \/ StageEnds(d) \/ Upgraded(d) \/ TooManyRequests(d) \/ Fails(d)
             \/ FindsCached(d) \/ CannotAsk(d) \/ Asks(d)
             \/ \E r \in Resolvers, found \in BOOLEAN : Answers(d, r, found)
             \/ TakesAddress(d) \/ SkipsEmpty(d) \/ FindsNone(d)
             \/ Drop(d)
      PROVE  (Moves(d) /\ UNCHANGED <<kind, spent>>) \/ UNCHANGED Position
  <2>1. CASE Begin(d)
    BY <2>1 DEF Begin, Moves
  <2>2. CASE StageEnds(d)
    BY <2>2, StageNames DEF StageEnds, Moves
  <2>3. CASE Upgraded(d) \/ TooManyRequests(d) \/ Fails(d)
    BY <2>3, StageNames DEF Upgraded, TooManyRequests, Fails, Moves, Running, Results
  <2>4. CASE FindsCached(d) \/ Asks(d)
    BY <2>4 DEF FindsCached, Asks, Moves
  <2>5. CASE CannotAsk(d)
    BY <2>5 DEF CannotAsk, Moves, HostFailed, Running, Results
  <2>6. CASE TakesAddress(d)
    BY <2>6 DEF TakesAddress, Moves
  <2>7. CASE FindsNone(d) \/ Drop(d)
    BY <2>7 DEF FindsNone, Drop, Moves, Running, Results
  <2>8. CASE SkipsEmpty(d) \/ \E r \in Resolvers, found \in BOOLEAN : Answers(d, r, found)
    BY <2>8 DEF SkipsEmpty, Answers, Position
  <2>. QED  BY <1>2, <2>1, <2>2, <2>3, <2>4, <2>5, <2>6, <2>7, <2>8
<1>. QED  BY <1>1, <1>2, Zenon DEF Next

-----------------------------------------------------------------------------
(* How long a dial takes.                                                    *)

\* The time a first attempt and the lookup may have used up ...
Before(d) == IF d \in byAddress THEN AttemptBound("cf") + DohTimeout ELSE 0

\* ... the time the attempt at hand may have used at the end of a stage ...
UpTo(k, p) ==
    IF p = "connect" THEN T(k)
    ELSE IF p = "tls" THEN T(k) + Tls(k)
    ELSE IF p = "write" THEN 2 * T(k) + Tls(k)
    ELSE IF p = "read" THEN AttemptBound(k)
    ELSE IF p = "resolve" THEN AttemptBound(k) + DohTimeout
    ELSE 0

\* ... and a whole dial.
Total(k) ==
    IF k = "cf" THEN 2 * AttemptBound("cf") + DohTimeout ELSE AttemptBound("direct")

\* What a dial has used and what its stage may still use.
SpentInv(d) ==
    /\ pc[d] = "done" => spent[d] <= Total(kind[d])
    /\ pc[d] # "done" => spent[d] + left[d] <= Before(d) + UpTo(kind[d], pc[d])
    /\ d \in byAddress => kind[d] = "cf" /\ pc[d] \notin {"idle", "resolve"}
    /\ pc[d] = "resolve" => kind[d] = "cf"

TimeInv == Types /\ \A d \in Dials : SpentInv(d)

LEMMA Sums ==
    ASSUME NEW k \in Kinds
    PROVE  /\ AttemptBound(k) = 3 * T(k) + Tls(k)
           /\ T(k) \in Nat /\ Tls(k) \in Nat /\ DohTimeout \in Nat
           /\ AttemptBound(k) \in Nat /\ Total(k) \in Nat
  <1>1. T(k) \in Nat /\ Tls(k) \in Nat /\ DohTimeout \in Nat
    BY Limits, TimesAssumption
  <1>2. AttemptBound(k) = 3 * T(k) + Tls(k)
    BY DEF AttemptBound, T, Tls
  <1>3. AttemptBound(k) \in Nat
    BY <1>1, <1>2
  <1>4. Total(k) \in Nat
    BY <1>1, <1>3 DEF Total, Kinds
  <1>. QED  BY <1>1, <1>2, <1>3, <1>4

LEMMA MoveTypes ==
    ASSUME Types, NEW d \in Dials, Moves(d), UNCHANGED <<kind, spent>>
    PROVE  Types' /\ Only(d)
  <1>1. kind[d] \in Kinds /\ StageTimeout(kind[d], "connect") \in Nat
        /\ StageTimeout(kind[d], "tls") \in Nat /\ StageTimeout(kind[d], "write") \in Nat
        /\ StageTimeout(kind[d], "read") \in Nat /\ DohTimeout \in Nat
    BY Limits, TimesAssumption DEF Types
  <1>. QED
    BY <1>1, StageNames DEF Types, Moves, Only, Enter, SecondAttempt, End, Results

LEMMA TimeStep ==
    ASSUME TimeInv, [Next]_vars
    PROVE  TimeInv'
<1>1. ASSUME NEW d \in Dials, Moves(d), UNCHANGED <<kind, spent>>
      PROVE  TimeInv'
  <2>1. Types' /\ Only(d)
    BY <1>1, MoveTypes DEF TimeInv
  <2>2. ASSUME NEW e \in Dials \ {d}
        PROVE  SpentInv(e)'
    BY <2>1, <2>2 DEF TimeInv, SpentInv, Before, UpTo, Only
  <2>3. SpentInv(d)'
    <3> DEFINE k == kind[d]
    <3>1. k \in Kinds /\ spent[d] \in Nat /\ left[d] \in Nat /\ SpentInv(d)
          /\ kind'[d] = k /\ spent'[d] = spent[d]
      BY <1>1 DEF TimeInv, Types
    <3>2. /\ AttemptBound(k) = 3 * T(k) + Tls(k)
          /\ T(k) \in Nat /\ Tls(k) \in Nat /\ DohTimeout \in Nat
          /\ AttemptBound(k) \in Nat /\ AttemptBound("cf") \in Nat /\ Total(k) \in Nat
          /\ StageTimeout(k, "tls") = Tls(k)
          /\ \A s \in {"connect", "write", "read"} : StageTimeout(k, s) = T(k)
      BY <3>1, Sums, Limits DEF Kinds
    <3>3. CASE pc[d] = "idle" /\ Enter(d, "connect") /\ UNCHANGED <<byAddress, result>>
      BY <3>1, <3>2, <3>3 DEF TimeInv, Types, SpentInv, Before, UpTo, Enter
    <3>4. CASE /\ \/ pc[d] = "connect" /\ Enter(d, "tls")
                  \/ pc[d] = "tls" /\ Enter(d, "write")
                  \/ pc[d] = "write" /\ Enter(d, "read")
               /\ UNCHANGED <<byAddress, result>>
      BY <3>1, <3>2, <3>4 DEF TimeInv, Types, SpentInv, Before, UpTo, Enter
    <3>5. CASE (HostFailed(d) \/ pc[d] = "resolve") /\ SecondAttempt(d) /\ UNCHANGED result
      <4>1. k = "cf" /\ d \notin byAddress
        BY <3>1, <3>5 DEF SpentInv, HostFailed
      <4>2. spent[d] <= AttemptBound("cf") + DohTimeout
        BY <3>1, <3>2, <3>5, <4>1, StageNames DEF SpentInv, HostFailed, Before, UpTo
      <4>. QED
        BY <3>1, <3>2, <3>5, <4>1, <4>2
           DEF TimeInv, Types, SpentInv, Before, UpTo, Enter, SecondAttempt
    <3>6. CASE /\ HostFailed(d)
               /\ pc' = [pc EXCEPT ![d] = "resolve"]
               /\ left' = [left EXCEPT ![d] = DohTimeout]
               /\ UNCHANGED <<byAddress, result>>
      <4>1. k = "cf" /\ d \notin byAddress
        BY <3>6 DEF HostFailed
      <4>2. spent[d] <= AttemptBound(k)
        BY <3>1, <3>2, <3>6, <4>1, StageNames DEF SpentInv, HostFailed, Before, UpTo
      <4>. QED
        BY <3>1, <3>2, <3>6, <4>1, <4>2 DEF TimeInv, Types, SpentInv, Before, UpTo
    <3>7. CASE Running(d) /\ (\E how \in Results \ {"none"} : End(d, how)) /\ UNCHANGED byAddress
      <4>1. spent[d] <= Total(k)
        <5>1. pc[d] # "done" /\ pc[d] \in {"connect", "tls", "write", "read", "resolve"}
          BY <3>7, StageNames DEF Running
        <5>2. spent[d] + left[d] <= Before(d) + UpTo(k, pc[d])
          BY <3>1, <5>1 DEF SpentInv
        <5>3. CASE d \in byAddress
          <6>1. k = "cf" /\ pc[d] # "resolve" /\ Before(d) = AttemptBound("cf") + DohTimeout
            BY <3>1, <5>3 DEF SpentInv, Before
          <6>2. UpTo(k, pc[d]) \in Nat /\ UpTo(k, pc[d]) <= AttemptBound("cf")
            BY <3>2, <5>1, <6>1 DEF UpTo
          <6>. QED
            BY <3>1, <3>2, <5>2, <6>1, <6>2 DEF Total
        <5>4. CASE d \notin byAddress
          <6>1. Before(d) = 0
            BY <5>4 DEF Before
          <6>2. UpTo(k, pc[d]) \in Nat /\ UpTo(k, pc[d]) <= Total(k)
            BY <3>1, <3>2, <5>1 DEF SpentInv, UpTo, Total, Kinds
          <6>. QED
            BY <3>1, <3>2, <5>2, <6>1, <6>2
        <5>. QED  BY <5>3, <5>4
      <4>2. pc'[d] = "done" /\ byAddress' = byAddress
        BY <3>7 DEF End, TimeInv, Types
      <4>3. d \in byAddress => k = "cf"
        BY <3>1 DEF SpentInv
      <4>. QED
        BY <3>1, <4>1, <4>2, <4>3 DEF SpentInv, Total
    <3>. QED  BY <1>1, <3>3, <3>4, <3>5, <3>6, <3>7 DEF Moves
  <2>. QED  BY <2>1, <2>2, <2>3 DEF TimeInv
<1>2. CASE Tick
  <2>1. Types'
    BY <1>2 DEF TimeInv, Types, Tick, Less
  <2>2. ASSUME NEW d \in Dials
        PROVE  SpentInv(d)'
    <3>1. /\ kind'[d] = kind[d] /\ pc'[d] = pc[d] /\ byAddress' = byAddress
          /\ left[d] \in Nat /\ spent[d] \in Nat /\ kind[d] \in Kinds
          /\ left'[d] = Less(left[d])
          /\ spent'[d] = IF Running(d) THEN spent[d] + 1 ELSE spent[d]
          /\ Running(d) => left[d] > 0
      BY <1>2 DEF TimeInv, Types, Tick
    <3>2. CASE Running(d)
      <4>1. spent'[d] + left'[d] = spent[d] + left[d]
        BY <3>1, <3>2 DEF Less
      <4>2. pc[d] # "done"
        BY <3>2, StageNames DEF Running
      <4>. QED
        BY <3>1, <4>1, <4>2 DEF TimeInv, SpentInv, Before, UpTo
    <3>3. CASE ~Running(d)
      <4>1. spent'[d] = spent[d] /\ left'[d] <= left[d] /\ left'[d] \in Nat
        BY <3>1, <3>3 DEF Less
      <4>2. pc[d] \in {"idle", "done"}
        BY <3>3, StageNames DEF Running, TimeInv, Types
      <4>3. Before(d)' = Before(d) /\ UpTo(kind[d], pc[d])' = UpTo(kind[d], pc[d])
        BY <3>1 DEF Before, UpTo
      <4>4. CASE pc[d] = "done"
        BY <3>1, <4>1, <4>4 DEF TimeInv, SpentInv
      <4>5. CASE pc[d] = "idle"
        <5>1. d \notin byAddress /\ spent[d] + left[d] <= 0
          BY <4>5 DEF TimeInv, SpentInv, Before, UpTo
        <5>2. spent'[d] + left'[d] <= 0
          BY <5>1, <4>1, <3>1
        <5>. QED
          BY <3>1, <4>5, <5>1, <5>2 DEF SpentInv, Before, UpTo
      <4>. QED  BY <4>2, <4>4, <4>5
    <3>. QED  BY <3>2, <3>3
  <2>. QED  BY <2>1, <2>2 DEF TimeInv
<1>3. CASE UNCHANGED Position
  BY <1>3 DEF Position, TimeInv, Types, SpentInv, Before, UpTo
<1>. QED  BY <1>1, <1>2, <1>3, NextMoves DEF vars, Position

LEMMA TimeInit ==
    ASSUME Init
    PROVE  TimeInv
  BY StageNames DEF Init, TimeInv, Types, Kinds, Results, SpentInv, Before, UpTo

\* No dial takes longer than its two attempts and its lookup, at any moment and
\* for every choice of the limits.
THEOREM DialBoundedHolds == Spec => []DialBounded
<1>1. TimeInv => DialBounded
  <2> SUFFICES ASSUME TimeInv, NEW d \in Dials
               PROVE  spent[d] <= Total(kind[d])
    BY DEF DialBounded, Total
  <2> DEFINE k == kind[d]
  <2>1. k \in Kinds /\ spent[d] \in Nat /\ left[d] \in Nat /\ SpentInv(d)
    BY DEF TimeInv, Types
  <2>2. /\ AttemptBound(k) = 3 * T(k) + Tls(k)
        /\ T(k) \in Nat /\ Tls(k) \in Nat /\ DohTimeout \in Nat
        /\ AttemptBound(k) \in Nat /\ AttemptBound("cf") \in Nat
    BY <2>1, Sums DEF Kinds
  <2>. QED
    BY <2>1, <2>2, StageNames DEF TimeInv, Types, SpentInv, Before, UpTo, Total, Kinds
<1>. QED  BY <1>1, TimeInit, TimeStep, PTL DEF Spec

-----------------------------------------------------------------------------
(* The lookups and their tasks.                                              *)

TaskStates == {"none", "asking", "aborted", "empty", "found"}

\* What the tasks of a dial have to do with the dial.  A lookup hears of every
\* address that was found until it takes one: the second conjunct of "resolve"
\* is what NoEarlySurrender needs.
LookupInv(d) ==
    /\ result[d] = "dropped" => pc[d] = "done"
    /\ Asking(d) # {} => pc[d] = "resolve" \/ result[d] = "dropped"
    /\ pc[d] # "resolve" => mail[d] = <<>>
    /\ pc[d] = "resolve" =>
          /\ \A r \in Resolvers : task[d][r] \in {"asking", "empty", "found"}
          /\ (\E r \in Resolvers : task[d][r] = "found") =>
                \E i \in 1..Len(mail[d]) : mail[d][i]

LookupTypes ==
    /\ pc \in [Dials -> InAttempt \cup {"idle", "resolve", "done"}]
    /\ result \in [Dials -> Results]
    /\ task \in [Dials -> [Resolvers -> TaskStates]]
    /\ mail \in [Dials -> Seq(BOOLEAN)]

LookupsInv == LookupTypes /\ \A d \in Dials : LookupInv(d)

\* The other dials are left alone.
Others(d) ==
    \A e \in Dials \ {d} :
        /\ pc'[e] = pc[e] /\ result'[e] = result[e]
        /\ task'[e] = task[e] /\ mail'[e] = mail[e]

LEMMA OthersKeep ==
    ASSUME LookupsInv, NEW d \in Dials, LookupTypes', Others(d), LookupInv(d)'
    PROVE  LookupsInv'
  BY DEF LookupsInv, LookupInv, Others, Asking

\* A step in which no task moves and the dial neither enters nor leaves a lookup.
LEMMA OutsideLookup ==
    ASSUME LookupsInv, NEW d \in Dials,
           pc[d] \in InAttempt \cup {"idle"},
           \/ /\ \E p \in InAttempt : pc' = [pc EXCEPT ![d] = p]
              /\ result' = result
           \/ \E how \in Results : End(d, how),
           UNCHANGED <<task, mail>>
    PROVE  LookupsInv'
<1>1. pc[d] # "resolve" /\ pc[d] # "done" /\ result[d] # "dropped" /\ Asking(d) = {}
      /\ mail[d] = <<>>
  BY StageNames DEF LookupsInv, LookupInv
<1>2. LookupTypes' /\ Others(d)
  <2>1. PICK p \in InAttempt \cup {"done"}, r \in Results :
           /\ pc' = [pc EXCEPT ![d] = p]
           /\ result' = result \/ result' = [result EXCEPT ![d] = r]
    BY DEF End, Results
  <2>2. LookupTypes'
    BY <2>1 DEF LookupsInv, LookupTypes
  <2>. QED  BY <2>1, <2>2 DEF LookupsInv, LookupTypes, Others
<1>3. pc'[d] \in InAttempt \cup {"done"} /\ (result'[d] = "dropped" => pc'[d] = "done")
  BY <1>1 DEF LookupsInv, LookupTypes, End
<1>4. LookupInv(d)'
  BY <1>1, <1>3, StageNames DEF LookupInv, Asking
<1>. QED  BY <1>2, <1>4, OthersKeep

\* The end of a lookup.
LEMMA AbortEnds ==
    ASSUME LookupsInv, NEW d \in Dials, Abort(d),
           \/ /\ \E p \in InAttempt : pc' = [pc EXCEPT ![d] = p]
              /\ result' = result /\ pc[d] = "resolve"
           \/ End(d, "failed")
    PROVE  LookupsInv'
<1>1. /\ task \in [Dials -> [Resolvers -> TaskStates]] /\ mail \in [Dials -> Seq(BOOLEAN)]
      /\ task[d] \in [Resolvers -> TaskStates]
  BY DEF LookupsInv, LookupTypes
<1>2. /\ \A e \in Dials \ {d} : task'[e] = task[e] /\ mail'[e] = mail[e]
      /\ task' \in [Dials -> [Resolvers -> TaskStates]]
      /\ mail' \in [Dials -> Seq(BOOLEAN)]
  <2>1. [r \in Resolvers |-> IF task[d][r] = "asking" THEN "aborted" ELSE task[d][r]]
           \in [Resolvers -> TaskStates]
    BY <1>1 DEF TaskStates
  <2>2. <<>> \in Seq(BOOLEAN)
    OBVIOUS
  <2>. QED  BY <1>1, <2>1, <2>2 DEF Abort
<1>3. /\ pc' \in [Dials -> InAttempt \cup {"idle", "resolve", "done"}]
      /\ result' \in [Dials -> Results]
      /\ \A e \in Dials \ {d} : pc'[e] = pc[e] /\ result'[e] = result[e]
  BY DEF LookupsInv, LookupTypes, End, Results
<1>4. LookupTypes' /\ Others(d)
  BY <1>2, <1>3 DEF LookupTypes, Others
<1>5. pc'[d] # "resolve" /\ mail'[d] = <<>>
      /\ \A r \in Resolvers : task'[d][r] # "asking"
  BY StageNames DEF LookupsInv, LookupTypes, End, Abort
<1>6. result'[d] = "dropped" => pc'[d] = "done"
  BY DEF LookupsInv, LookupTypes, LookupInv, End
<1>7. LookupInv(d)'
  BY <1>5, <1>6 DEF LookupInv, Asking
<1>. QED  BY <1>4, <1>7, OthersKeep

LEMMA AnswersKeeps ==
    ASSUME LookupsInv, NEW d \in Dials, NEW r \in Resolvers, NEW found \in BOOLEAN,
           Answers(d, r, found)
    PROVE  LookupsInv'
<1>1. task[d][r] = "asking" /\ Asking(d) # {} /\ mail[d] \in Seq(BOOLEAN)
  BY DEF Answers, Asking, LookupsInv, LookupTypes
<1>2. /\ pc' = pc /\ result' = result
      /\ task'[d][r] = IF found THEN "found" ELSE "empty"
      /\ \A s \in Resolvers \ {r} : task'[d][s] = task[d][s]
      /\ mail'[d] = IF pc[d] = "resolve" THEN Append(mail[d], found) ELSE mail[d]
  BY DEF Answers, LookupsInv, LookupTypes
<1>3. LookupTypes' /\ Others(d)
  BY <1>1 DEF LookupsInv, LookupTypes, Others, Answers, TaskStates
<1>4. pc[d] = "resolve" \/ result[d] = "dropped"
  BY <1>1 DEF LookupsInv, LookupInv
<1>5. CASE pc[d] = "resolve"
  <2>1. /\ Len(mail'[d]) = Len(mail[d]) + 1 /\ Len(mail[d]) \in Nat
        /\ \A i \in 1..Len(mail[d]) : mail'[d][i] = mail[d][i]
        /\ mail'[d][Len(mail[d]) + 1] = found
    BY <1>1, <1>2, <1>5
  <2>2. (\E s \in Resolvers : task'[d][s] = "found") =>
           \E i \in 1..Len(mail'[d]) : mail'[d][i]
    <3>1. CASE found
      <4>1. Len(mail[d]) + 1 \in 1..Len(mail'[d])
        BY <2>1
      <4>2. mail'[d][Len(mail[d]) + 1]
        BY <2>1, <3>1, Zenon
      <4>. QED  BY <4>1, <4>2
    <3>2. CASE ~found
      <4>. SUFFICES ASSUME NEW s \in Resolvers, task'[d][s] = "found"
                    PROVE  \E i \in 1..Len(mail'[d]) : mail'[d][i]
        OBVIOUS
      <4>1. s # r /\ task[d][s] = "found"
        BY <1>2, <3>2
      <4>2. PICK i \in 1..Len(mail[d]) : mail[d][i]
        BY <4>1, <1>5 DEF LookupsInv, LookupInv
      <4>. QED  BY <4>2, <2>1
    <3>. QED  BY <3>1, <3>2
  <2>3. \A s \in Resolvers : task'[d][s] \in {"asking", "empty", "found"}
    BY <1>2, <1>5 DEF LookupsInv, LookupInv
  <2>4. LookupInv(d)'
    BY <2>2, <2>3, <1>2, <1>5 DEF LookupsInv, LookupInv
  <2>. QED  BY <2>4, <1>3, OthersKeep
<1>6. CASE pc[d] # "resolve"
  <2>1. LookupInv(d)'
    BY <1>2, <1>4, <1>6 DEF LookupsInv, LookupInv
  <2>. QED  BY <2>1, <1>3, OthersKeep
<1>. QED  BY <1>5, <1>6

\* What is left in the channel when an empty answer was taken from it.
LEMMA TailKeepsFound ==
    ASSUME NEW s \in Seq(BOOLEAN), s # <<>>
    PROVE  /\ Tail(s) \in Seq(BOOLEAN)
           /\ ~Head(s) => \A i \in 1..Len(s) :
                 s[i] => \E j \in 1..Len(Tail(s)) : Tail(s)[j]
<1>1. /\ Len(s) \in Nat /\ Len(Tail(s)) = Len(s) - 1
      /\ \A i \in 1..Len(Tail(s)) : Tail(s)[i] = s[i + 1]
      /\ Tail(s) \in Seq(BOOLEAN) /\ Head(s) = s[1]
  BY HeadTailProperties, LenProperties
<1>2. ASSUME ~Head(s), NEW i \in 1..Len(s), s[i]
      PROVE  \E j \in 1..Len(Tail(s)) : Tail(s)[j]
  <2>1. i # 1
    BY <1>1, <1>2, Zenon
  <2>2. i - 1 \in 1..Len(Tail(s)) /\ (i - 1) + 1 = i
    BY <1>1, <2>1
  <2>3. Tail(s)[i - 1] = s[(i - 1) + 1]
    BY <1>1, <2>2
  <2>4. Tail(s)[i - 1]
    BY <1>2, <2>2, <2>3
  <2>. QED  BY <2>2, <2>4
<1>. QED  BY <1>1, <1>2

LEMMA SkipKeeps ==
    ASSUME LookupsInv, NEW d \in Dials, SkipsEmpty(d)
    PROVE  LookupsInv'
<1>1. mail \in [Dials -> Seq(BOOLEAN)] /\ mail[d] \in Seq(BOOLEAN) /\ mail[d] # <<>>
      /\ Tail(mail[d]) \in Seq(BOOLEAN)
  BY TailKeepsFound DEF SkipsEmpty, LookupsInv, LookupTypes
<1>2. pc[d] = "resolve" /\ ~Head(mail[d]) /\ pc' = pc /\ result' = result /\ task' = task
      /\ mail' = [mail EXCEPT ![d] = Tail(mail[d])]
  BY DEF SkipsEmpty
<1>3. mail'[d] = Tail(mail[d]) /\ mail' \in [Dials -> Seq(BOOLEAN)]
      /\ \A e \in Dials \ {d} : mail'[e] = mail[e]
  BY <1>1, <1>2
<1>4. LookupTypes' /\ Others(d)
  BY <1>2, <1>3 DEF LookupsInv, LookupTypes, Others
<1>5. (\E s \in Resolvers : task'[d][s] = "found") =>
           \E i \in 1..Len(mail'[d]) : mail'[d][i]
  <2>. SUFFICES ASSUME NEW s \in Resolvers, task[d][s] = "found"
                PROVE  \E j \in 1..Len(Tail(mail[d])) : Tail(mail[d])[j]
    BY <1>2, <1>3
  <2>1. PICK i \in 1..Len(mail[d]) : mail[d][i]
    BY <1>2 DEF LookupsInv, LookupInv
  <2>. QED  BY <2>1, <1>1, <1>2, TailKeepsFound, Zenon
<1>6. LookupInv(d)'
  <2>1. /\ pc'[d] = "resolve" /\ result'[d] # "dropped"
        /\ \A r \in Resolvers : task'[d][r] \in {"asking", "empty", "found"}
    BY <1>2 DEF LookupsInv, LookupInv
  <2>. QED  BY <2>1, <1>5, Zenon DEF LookupInv
<1>. QED  BY <1>4, <1>6, OthersKeep

LEMMA LookupsStep ==
    ASSUME LookupsInv, [Next]_vars
    PROVE  LookupsInv'
<1>1. ASSUME NEW d \in Dials,
             Begin(d) \/ StageEnds(d) \/ Upgraded(d) \/ TooManyRequests(d) \/ Fails(d)
             \/ FindsCached(d) \/ CannotAsk(d)
      PROVE  LookupsInv'
  <2>1. pc[d] \in InAttempt \cup {"idle"} /\ UNCHANGED <<task, mail>>
    BY <1>1, StageNames
       DEF Begin, StageEnds, Upgraded, TooManyRequests, Fails, FindsCached, CannotAsk,
           HostFailed, lookup, Enter
  <2>2. \/ /\ \E p \in InAttempt : pc' = [pc EXCEPT ![d] = p]
           /\ result' = result
        \/ \E how \in Results : End(d, how)
    BY <1>1, StageNames
       DEF Begin, StageEnds, Upgraded, TooManyRequests, Fails, FindsCached, CannotAsk,
           SecondAttempt, Enter, Results
  <2>. QED  BY <2>1, <2>2, OutsideLookup
<1>2. ASSUME NEW d \in Dials, Asks(d)
      PROVE  LookupsInv'
  <2>1. /\ pc[d] \in InAttempt /\ pc' = [pc EXCEPT ![d] = "resolve"]
        /\ task' = [task EXCEPT ![d] = [r \in Resolvers |-> "asking"]]
        /\ UNCHANGED <<result, mail>>
    BY <1>2 DEF Asks, HostFailed
  <2>2. LookupTypes' /\ Others(d)
    BY <2>1 DEF LookupsInv, LookupTypes, Others, TaskStates
  <2>3. result[d] # "dropped"
    BY <2>1, StageNames DEF LookupsInv, LookupInv
  <2>4. pc'[d] = "resolve" /\ \A r \in Resolvers : task'[d][r] = "asking"
    BY <2>1 DEF LookupsInv, LookupTypes
  <2>5. LookupInv(d)'
    BY <2>1, <2>3, <2>4 DEF LookupInv
  <2>. QED  BY <2>2, <2>5, OthersKeep
<1>3. ASSUME NEW d \in Dials, TakesAddress(d) \/ FindsNone(d)
      PROVE  LookupsInv'
  BY <1>3, AbortEnds, StageNames DEF TakesAddress, FindsNone, SecondAttempt, Enter
<1>4. ASSUME NEW d \in Dials, Drop(d)
      PROVE  LookupsInv'
  <2>1. LookupTypes' /\ Others(d)
    BY <1>4 DEF LookupsInv, LookupTypes, Others, Drop, End, Results
  <2>2. pc'[d] = "done" /\ result'[d] = "dropped" /\ mail'[d] = <<>>
    BY <1>4 DEF LookupsInv, LookupTypes, Drop, End
  <2>3. LookupInv(d)'
    BY <2>2 DEF LookupInv
  <2>. QED  BY <2>1, <2>3, OthersKeep
<1>5. CASE UNCHANGED <<pc, result, task, mail>>
  BY <1>5 DEF LookupsInv, LookupTypes, LookupInv, Asking
<1>6. Tick \/ UNCHANGED vars => UNCHANGED <<pc, result, task, mail>>
  BY DEF Tick, vars
<1>. QED
  BY <1>1, <1>2, <1>3, <1>4, <1>5, <1>6, AnswersKeeps, SkipKeeps, Zenon DEF Next

LEMMA LookupsInit ==
    ASSUME Init
    PROVE  LookupsInv
  BY StageNames DEF Init, LookupsInv, LookupTypes, LookupInv, Asking, Results, TaskStates

\* No task of resolve_doh goes on asking when its dial has gone on, however many
\* dials and resolvers there are.
THEOREM NoOrphansHolds == Spec => []NoOrphans
<1>1. LookupsInv => NoOrphans
  BY DEF LookupsInv, LookupInv, NoOrphans
<1>. QED  BY <1>1, LookupsInit, LookupsStep, PTL DEF Spec

\* No address that came in time is lost, whatever the order of the answers.
THEOREM NoEarlySurrenderHolds == Spec => NoEarlySurrender
<1>1. ASSUME LookupsInv, [Next]_vars, NEW d \in Dials,
             pc[d] = "resolve", pc'[d] = "done", result'[d] # "dropped"
      PROVE  left[d] = 0 \/ \A r \in Resolvers : task[d][r] = "empty"
  <2>1. FindsNone(d)
    <3>1. pc' # pc
      BY <1>1
    <3>2. PICK e \in Dials :
             \/ Begin(e) \/ StageEnds(e) \/ Upgraded(e) \/ TooManyRequests(e) \/ Fails(e)
             \/ FindsCached(e) \/ CannotAsk(e) \/ Asks(e)
             \/ TakesAddress(e) \/ FindsNone(e) \/ Drop(e)
      BY <1>1, <3>1 DEF Next, Tick, vars, Answers, SkipsEmpty
    <3>3. pc \in [Dials -> InAttempt \cup {"idle", "resolve", "done"}]
          /\ result \in [Dials -> Results]
      BY <1>1 DEF LookupsInv, LookupTypes
    <3>4. \E p : pc' = [pc EXCEPT ![e] = p]
      BY <3>2 DEF Begin, StageEnds, Upgraded, TooManyRequests, Fails, FindsCached,
                  CannotAsk, Asks, TakesAddress, FindsNone, Drop, Enter, End, SecondAttempt
    <3>5. e = d
      BY <1>1, <3>3, <3>4
    <3>6. pc[e] = "resolve" /\ "resolve" \notin InAttempt /\ pc'[e] # "connect"
          /\ result'[e] # "dropped"
      BY <1>1, <3>5, StageNames
    <3>7. ~Begin(e) /\ ~StageEnds(e) /\ ~Upgraded(e) /\ ~TooManyRequests(e) /\ ~Fails(e)
          /\ ~FindsCached(e) /\ ~CannotAsk(e) /\ ~Asks(e)
      BY <3>6, StageNames DEF Begin, StageEnds, Upgraded, TooManyRequests, Fails,
                              FindsCached, CannotAsk, Asks, HostFailed
    <3>8. ~TakesAddress(e)
      BY <3>3, <3>6 DEF TakesAddress, SecondAttempt, Enter
    <3>9. ~Drop(e)
      BY <3>3, <3>6 DEF Drop, End
    <3>. QED  BY <3>2, <3>5, <3>7, <3>8, <3>9
  <2>2. CASE NoneLeft(d)
    <3>1. Asking(d) = {} /\ mail[d] = <<>> /\ LookupInv(d)
      BY <1>1, <2>2 DEF NoneLeft, LookupsInv
    <3>2. \A r \in Resolvers : task[d][r] # "found"
      BY <1>1, <3>1 DEF LookupInv
    <3>. QED
      BY <1>1, <3>1, <3>2 DEF LookupInv, Asking
  <2>. QED  BY <2>1, <2>2 DEF FindsNone
<1>2. LookupsInv /\ [Next]_vars
         => [\A d \in Dials :
                pc[d] = "resolve" /\ pc'[d] = "done" /\ result'[d] # "dropped"
                => left[d] = 0 \/ \A r \in Resolvers : task[d][r] = "empty"]_vars
  BY <1>1
<1>. QED  BY <1>2, LookupsInit, LookupsStep, PTL DEF Spec, NoEarlySurrender


\* The time left to the tasks and to the cache entry, which no stage sets.
LimitTypes == taskLeft \in [Dials -> 0..DohTimeout] /\ cache \in 0..CacheTime

LEMMA LimitStep ==
    ASSUME LimitTypes, [Next]_vars
    PROVE  LimitTypes'
<1>1. DohTimeout \in 0..DohTimeout /\ CacheTime \in 0..CacheTime
  BY TimesAssumption
<1>2. CASE Tick
  <2>1. ASSUME NEW limit \in Nat, NEW t \in 0..limit
        PROVE  Less(t) \in 0..limit
    BY DEF Less
  <2>2. DohTimeout \in Nat /\ CacheTime \in Nat
    BY TimesAssumption
  <2>. QED  BY <1>2, <2>1, <2>2 DEF LimitTypes, Tick
<1>3. ASSUME NEW d \in Dials, Asks(d) \/ TakesAddress(d)
      PROVE  LimitTypes'
  BY <1>1, <1>3 DEF LimitTypes, Asks, TakesAddress, Abort
<1>4. ASSUME NEW d \in Dials,
             \/ Begin(d) \/ StageEnds(d) \/ Upgraded(d) \/ TooManyRequests(d) \/ Fails(d)
             \/ FindsCached(d) \/ CannotAsk(d)
             \/ \E r \in Resolvers, found \in BOOLEAN : Answers(d, r, found)
             \/ SkipsEmpty(d) \/ FindsNone(d) \/ Drop(d)
      PROVE  UNCHANGED <<taskLeft, cache>>
  BY <1>4, Zenon DEF Begin, StageEnds, Upgraded, TooManyRequests, Fails, FindsCached, CannotAsk,
                     Answers, SkipsEmpty, FindsNone, Abort, Drop, lookup
<1>5. CASE UNCHANGED <<taskLeft, cache>>
  BY <1>5 DEF LimitTypes
<1>. QED  BY <1>2, <1>3, <1>4, <1>5, Zenon DEF Next, vars

\* No stage has less than no time left, and the tasks of a lookup and the entry
\* of DOH_CACHE have at most their limits; a dial, its tasks and its channel are
\* always in one of their states.
THEOREM DialTypeCorrect == Spec => []TypeOK
<1>1. Init => LimitTypes
  BY TimesAssumption DEF Init, LimitTypes
<1>2. LimitTypes /\ [Next]_vars => LimitTypes'
  BY LimitStep
<1>3. TimeInv /\ LookupsInv /\ LimitTypes => TypeOK
  BY DEF TimeInv, Types, Kinds, LookupsInv, LookupTypes, TaskStates, LimitTypes, TypeOK
<1>. QED  BY <1>1, <1>2, <1>3, TimeInit, TimeStep, LookupsInit, LookupsStep, PTL DEF Spec

-----------------------------------------------------------------------------
(* The splitter.  Every part and the buffer are runs of positions, each one  *)
(* beginning where the one before it ends.                                   *)

PartTypes ==
    /\ proto \in {"abridged", "intermediate"}
    /\ got \in Seq(Bytes) /\ cipher \in Seq(Nat) /\ plain \in Seq(Bytes)
    /\ sent \in Seq([bytes : Seq(Nat), why : Split!Why])

\* The position with which part i ends, and the one before it begins.
EndOf(i) == sent[i].bytes[Len(sent[i].bytes)]
Before1(i) == IF i = 1 THEN 0 ELSE EndOf(i - 1)
SentUpTo == IF sent = <<>> THEN 0 ELSE EndOf(Len(sent))

\* p holds the positions behind `from`, in order.
IsRun(p, from) == \A k \in 1..Len(p) : p[k] = from + k

PartsInv ==
    \A i \in 1..Len(sent) : sent[i].bytes # <<>> /\ IsRun(sent[i].bytes, Before1(i))

\* The buffer holds the rest of the stream, and nothing once cutting has ended.
BufferInv ==
    /\ SentUpTo \in Nat
    /\ SentUpTo + Len(cipher) = Len(got) /\ IsRun(cipher, SentUpTo)
    /\ Len(plain) = Len(cipher)
    /\ \A k \in 1..Len(plain) : plain[k] = got[SentUpTo + k]
    /\ disabled \/ cut = "closed" => cipher = <<>>

SplitInv == PartTypes /\ PartsInv /\ BufferInv

\* Where the elements of a concatenation are, and of the two halves of a cut.
LEMMA Joined ==
    ASSUME NEW S, NEW s \in Seq(S), NEW t \in Seq(S)
    PROVE  /\ s \o t \in Seq(S) /\ Len(s \o t) = Len(s) + Len(t)
           /\ Len(s) \in Nat /\ Len(t) \in Nat
           /\ \A i \in 1..Len(s) : (s \o t)[i] = s[i]
           /\ \A i \in 1..Len(t) : (s \o t)[Len(s) + i] = t[i]
<1>1. Len(s) \in Nat /\ Len(t) \in Nat
  BY LenProperties
<1>2. /\ s \o t \in Seq(S) /\ Len(s \o t) = Len(s) + Len(t)
      /\ \A i \in 1..(Len(s) + Len(t)) :
            (s \o t)[i] = IF i <= Len(s) THEN s[i] ELSE t[i - Len(s)]
  BY ConcatProperties
<1>3. \A i \in 1..Len(s) : (s \o t)[i] = s[i]
  BY <1>1, <1>2
<1>4. ASSUME NEW i \in 1..Len(t)
      PROVE  (s \o t)[Len(s) + i] = t[i]
  <2>1. Len(s) + i \in 1..(Len(s) + Len(t)) /\ ~(Len(s) + i <= Len(s))
        /\ (Len(s) + i) - Len(s) = i
    BY <1>1
  <2>. QED  BY <1>2, <2>1
<1>. QED  BY <1>1, <1>2, <1>3, <1>4

LEMMA Halved ==
    ASSUME NEW S, NEW s \in Seq(S), NEW n \in Nat, n > 0, n <= Len(s)
    PROVE  /\ SubSeq(s, 1, n) \in Seq(S) /\ Len(SubSeq(s, 1, n)) = n
           /\ \A i \in 1..n : SubSeq(s, 1, n)[i] = s[i]
           /\ SubSeq(s, n + 1, Len(s)) \in Seq(S)
           /\ Len(SubSeq(s, n + 1, Len(s))) = Len(s) - n
           /\ \A i \in 1..(Len(s) - n) : SubSeq(s, n + 1, Len(s))[i] = s[n + i]
<1>1. Len(s) \in Nat /\ \A i \in 1..Len(s) : s[i] \in S
  BY LenProperties, ElementOfSeq
<1>2. \A i \in 1..n : s[i] \in S
  BY <1>1
<1>3. /\ SubSeq(s, 1, n) \in Seq(S)
      /\ Len(SubSeq(s, 1, n)) = IF 1 <= n THEN n - 1 + 1 ELSE 0
      /\ \A i \in 1..(n - 1 + 1) : SubSeq(s, 1, n)[i] = s[1 + i - 1]
  BY <1>2, SubSeqProperties
<1>4. \A i \in (n + 1)..Len(s) : s[i] \in S
  BY <1>1
<1>5. n + 1 \in Int /\ Len(s) \in Int
  BY <1>1
<1>6. /\ SubSeq(s, n + 1, Len(s)) \in Seq(S)
      /\ Len(SubSeq(s, n + 1, Len(s))) = IF n + 1 <= Len(s) THEN Len(s) - (n + 1) + 1 ELSE 0
      /\ \A i \in 1..(Len(s) - (n + 1) + 1) :
            SubSeq(s, n + 1, Len(s))[i] = s[(n + 1) + i - 1]
  BY <1>4, <1>5, SubSeqProperties
<1>7. Len(SubSeq(s, 1, n)) = n /\ Len(SubSeq(s, n + 1, Len(s))) = Len(s) - n
  BY <1>1, <1>3, <1>6
<1>8. ASSUME NEW i \in 1..n
      PROVE  SubSeq(s, 1, n)[i] = s[i]
  <2>1. n - 1 + 1 = n /\ 1 + i - 1 = i
    OBVIOUS
  <2>. QED  BY <1>3, <2>1
<1>9. ASSUME NEW i \in 1..(Len(s) - n)
      PROVE  SubSeq(s, n + 1, Len(s))[i] = s[n + i]
  <2>1. Len(s) - (n + 1) + 1 = Len(s) - n /\ (n + 1) + i - 1 = n + i
    BY <1>1
  <2>. QED  BY <1>6, <2>1
<1>. QED  BY <1>3, <1>6, <1>7, <1>8, <1>9

\* A part that continues the ones before it.
LEMMA PartAppended ==
    ASSUME SplitInv, NEW p \in Seq(Nat), p # <<>>, IsRun(p, SentUpTo),
           NEW why \in Split!Why, sent' = Append(sent, Split!Part(p, why))
    PROVE  /\ sent' \in Seq([bytes : Seq(Nat), why : Split!Why])
           /\ PartsInv'
           /\ SentUpTo' = SentUpTo + Len(p) /\ SentUpTo' \in Nat
<1> DEFINE part == Split!Part(p, why)
<1>1. part \in [bytes : Seq(Nat), why : Split!Why] /\ part.bytes = p
  BY DEF Split!Part
<1>2. /\ sent' \in Seq([bytes : Seq(Nat), why : Split!Why])
      /\ Len(sent') = Len(sent) + 1 /\ Len(sent) \in Nat /\ sent' # <<>>
      /\ \A i \in 1..Len(sent) : sent'[i] = sent[i]
      /\ sent'[Len(sent) + 1] = part
  <2> DEFINE Parts == [bytes : Seq(Nat), why : Split!Why]
  <2>1. sent \in Seq(Parts) /\ part \in Parts /\ sent' = Append(sent, part)
    BY <1>1 DEF SplitInv, PartTypes
  <2> HIDE DEF Parts, part
  <2>2. /\ sent' \in Seq(Parts)
        /\ Len(sent') = Len(sent) + 1 /\ Len(sent) \in Nat /\ sent' # <<>>
        /\ \A i \in 1..Len(sent) : sent'[i] = sent[i]
        /\ sent'[Len(sent) + 1] = part
    BY <2>1, AppendProperties, LenProperties
  <2>. QED  BY <2>2 DEF Parts
<1>3. Len(p) \in Nat /\ Len(p) # 0 /\ p[Len(p)] = SentUpTo + Len(p)
  <2>1. Len(p) \in Nat /\ Len(p) # 0
    BY LenProperties, EmptySeq
  <2>. QED  BY <2>1 DEF IsRun
<1>n. PICK n \in Nat : n = Len(sent)
  BY <1>2
<1>4. \A i \in 1..n : EndOf(i)' = EndOf(i) /\ Before1(i)' = Before1(i)
  <2>1. \A i \in 1..n : EndOf(i)' = EndOf(i)
    BY <1>2, <1>n DEF EndOf
  <2>2. ASSUME NEW i \in 1..n
        PROVE  Before1(i)' = Before1(i)
    <3>1. CASE i = 1
      BY <3>1 DEF Before1
    <3>2. CASE i # 1
      <4>1. i - 1 \in 1..n
        BY <3>2
      <4>2. EndOf(i - 1)' = EndOf(i - 1)
        BY <2>1, <4>1
      <4>. QED  BY <3>2, <4>2 DEF Before1
    <3>. QED  BY <3>1, <3>2
  <2>. QED  BY <2>1, <2>2
<1>5. Before1(n + 1)' = SentUpTo
  <2>1. CASE sent = <<>>
    <3>1. n = 0
      BY <1>n, <2>1
    <3>. QED  BY <2>1, <3>1 DEF Before1, SentUpTo
  <2>2. CASE sent # <<>>
    <3>1. n # 0 /\ n \in 1..n
      BY <1>n, <2>2, EmptySeq DEF SplitInv, PartTypes
    <3>2. n + 1 # 1 /\ (n + 1) - 1 = n
      BY <3>1
    <3>3. Before1(n + 1)' = EndOf(n)'
      BY <3>2 DEF Before1
    <3>4. SentUpTo = EndOf(n)
      BY <1>n, <2>2 DEF SentUpTo
    <3>. QED  BY <1>4, <3>1, <3>3, <3>4
  <2>. QED  BY <2>1, <2>2
<1>6. PartsInv'
  <2>1. ASSUME NEW i \in 1..(n + 1)
        PROVE  (sent[i].bytes # <<>> /\ IsRun(sent[i].bytes, Before1(i)))'
    <3>1. CASE i \in 1..n
      BY <1>2, <1>4, <1>n, <3>1 DEF SplitInv, PartsInv, IsRun
    <3>2. CASE i = n + 1
      BY <1>1, <1>2, <1>5, <1>n, <3>2 DEF IsRun
    <3>. QED  BY <1>n, <2>1, <3>1, <3>2
  <2>2. Len(sent') = n + 1
    BY <1>2, <1>n
  <2>. QED  BY <2>1, <2>2 DEF PartsInv
<1>7. SentUpTo' = SentUpTo + Len(p)
  <2>1. sent' # <<>> /\ Len(sent') = n + 1
    BY <1>2, <1>n
  <2>2. EndOf(n + 1)' = p[Len(p)]
    BY <1>1, <1>2, <1>n DEF EndOf
  <2>3. SentUpTo' = EndOf(n + 1)'
    BY <2>1 DEF SentUpTo, EndOf
  <2>. QED  BY <1>3, <2>2, <2>3
<1>. QED  BY <1>2, <1>3, <1>6, <1>7 DEF SplitInv, BufferInv

\* The parts and the stream stay.
LEMMA PartsStay ==
    ASSUME SplitInv, UNCHANGED <<proto, got, cipher, plain, sent>>,
           disabled' \/ cut' = "closed" => cipher = <<>>
    PROVE  SplitInv'
  BY DEF SplitInv, PartTypes, PartsInv, BufferInv, SentUpTo, EndOf, Before1, IsRun

LEMMA SplitKeeps ==
    ASSUME SplitInv, NEW chunk \in Seq(Bytes), Split!Split(chunk)
    PROVE  SplitInv'
<1> DEFINE new == Split!Arrived(chunk)
<1>1. /\ Len(chunk) \in Nat /\ Len(chunk) # 0 /\ Len(got) \in Nat
      /\ got' \in Seq(Bytes) /\ Len(got') = Len(got) + Len(chunk)
      /\ \A k \in 1..Len(got) : got'[k] = got[k]
      /\ \A k \in 1..Len(chunk) : got'[Len(got) + k] = chunk[k]
  <2>1. got' = got \o chunk /\ chunk # <<>> /\ got \in Seq(Bytes)
    BY DEF Split!Split, SplitInv, PartTypes
  <2>. QED  BY <2>1, Joined, EmptySeq
<1>2. /\ new \in Seq(Nat) /\ Len(new) = Len(chunk) /\ new # <<>>
      /\ \A k \in 1..Len(new) : new[k] = Len(got) + k
  <2>1. new = [i \in 1..Len(chunk) |-> Len(got) + i]
    BY DEF Split!Arrived
  <2>2. \A i \in 1..Len(chunk) : Len(got) + i \in Nat
    BY <1>1
  <2>. QED  BY <1>1, <2>1, <2>2, IsASeq
<1> HIDE DEF new
<1>3. CASE disabled /\ sent' = Append(sent, Split!Part(new, "rest"))
           /\ UNCHANGED <<cipher, plain, cut>>
  <2>1. cipher = <<>> /\ SentUpTo = Len(got)
    BY <1>1, <1>3 DEF SplitInv, BufferInv
  <2>2. "rest" \in Split!Why /\ IsRun(new, SentUpTo)
    BY <1>2, <2>1 DEF IsRun, Split!Why
  <2>3. /\ sent' \in Seq([bytes : Seq(Nat), why : Split!Why]) /\ PartsInv'
        /\ SentUpTo' = SentUpTo + Len(new) /\ SentUpTo' \in Nat
    BY <1>2, <1>3, <2>2, PartAppended
  <2>4. Len(cipher) = 0 /\ Len(plain) = 0
    BY <2>1 DEF SplitInv, BufferInv
  <2>. QED
    BY <1>1, <1>2, <1>3, <2>1, <2>3, <2>4
       DEF SplitInv, PartTypes, BufferInv, IsRun, Split!Split
<1>4. CASE ~disabled /\ cipher' = cipher \o new /\ plain' = plain \o chunk
           /\ cut' = "cutting" /\ UNCHANGED sent
  <2>1. cipher \in Seq(Nat) /\ plain \in Seq(Bytes)
    BY DEF SplitInv, PartTypes
  <2>2. /\ cipher' \in Seq(Nat) /\ Len(cipher') = Len(cipher) + Len(new)
        /\ \A k \in 1..Len(cipher) : cipher'[k] = cipher[k]
        /\ \A k \in 1..Len(new) : cipher'[Len(cipher) + k] = new[k]
        /\ Len(cipher) \in Nat
    <3> DEFINE Positions == Nat
    <3>1. cipher \in Seq(Positions) /\ new \in Seq(Positions)
      BY <1>2, <2>1
    <3> HIDE DEF Positions
    <3>2. /\ cipher \o new \in Seq(Positions) /\ Len(cipher \o new) = Len(cipher) + Len(new)
          /\ Len(cipher) \in Nat
          /\ \A k \in 1..Len(cipher) : (cipher \o new)[k] = cipher[k]
          /\ \A k \in 1..Len(new) : (cipher \o new)[Len(cipher) + k] = new[k]
      BY <3>1, Joined
    <3>. QED  BY <1>4, <3>2 DEF Positions
  <2>3. /\ plain' \in Seq(Bytes) /\ Len(plain') = Len(plain) + Len(chunk)
        /\ \A k \in 1..Len(plain) : plain'[k] = plain[k]
        /\ \A k \in 1..Len(chunk) : plain'[Len(plain) + k] = chunk[k]
        /\ Len(plain) \in Nat
    BY <1>2, <1>4, <2>1, Joined
  <2>4. SentUpTo' = SentUpTo /\ PartsInv'
    BY <1>4 DEF SentUpTo, EndOf, Before1, PartsInv, IsRun, SplitInv
  <2>5. /\ SentUpTo \in Nat /\ SentUpTo + Len(cipher) = Len(got)
        /\ Len(plain) = Len(cipher)
    BY DEF SplitInv, BufferInv
  <2>6. IsRun(cipher', SentUpTo)
    <3>1. ASSUME NEW k \in 1..Len(cipher')
          PROVE  cipher'[k] = SentUpTo + k
      <4>1. CASE k \in 1..Len(cipher)
        BY <2>2, <4>1 DEF SplitInv, BufferInv, IsRun
      <4>2. CASE k \notin 1..Len(cipher)
        <5>1. k - Len(cipher) \in 1..Len(new) /\ Len(cipher) + (k - Len(cipher)) = k
          BY <1>1, <1>2, <2>2, <4>2
        <5>2. cipher'[Len(cipher) + (k - Len(cipher))] = new[k - Len(cipher)]
          BY <2>2, <5>1
        <5>3. new[k - Len(cipher)] = Len(got) + (k - Len(cipher))
          BY <1>2, <5>1
        <5>4. Len(got) + (k - Len(cipher)) = SentUpTo + k
          <6>1. k \in Nat /\ Len(cipher) \in Nat
            BY <1>1, <1>2, <2>2, <3>1
          <6>. QED  BY <2>5, <6>1
        <5>. QED  BY <5>1, <5>2, <5>3, <5>4
      <4>. QED  BY <4>1, <4>2
    <3>. QED  BY <3>1 DEF IsRun
  <2>7. ASSUME NEW k \in 1..Len(plain')
        PROVE  plain'[k] = got'[SentUpTo + k]
    <3>1. CASE k \in 1..Len(plain)
      <4>1. SentUpTo + k \in 1..Len(got)
        BY <2>3, <2>5, <3>1
      <4>. QED  BY <1>1, <2>3, <3>1, <4>1 DEF SplitInv, BufferInv
    <3>2. CASE k \notin 1..Len(plain)
      <4>1. k - Len(plain) \in 1..Len(chunk) /\ Len(plain) + (k - Len(plain)) = k
        BY <1>1, <2>3, <3>2
      <4>2. Len(got) + (k - Len(plain)) = SentUpTo + k
        <5>1. k \in Nat /\ Len(plain) \in Nat
          BY <1>1, <2>3, <2>7
        <5>. QED  BY <2>5, <5>1
      <4>3. plain'[Len(plain) + (k - Len(plain))] = chunk[k - Len(plain)]
            /\ got'[Len(got) + (k - Len(plain))] = chunk[k - Len(plain)]
        BY <1>1, <2>3, <4>1
      <4>. QED  BY <4>1, <4>2, <4>3
    <3>. QED  BY <3>1, <3>2
  <2>8. proto' = proto /\ disabled' = FALSE
    BY <1>4 DEF Split!Split
  <2>9. PartTypes'
    BY <1>1, <1>4, <2>2, <2>3, <2>8 DEF SplitInv, PartTypes
  <2>10. SentUpTo' \in Nat /\ SentUpTo' + Len(cipher') = Len(got')
         /\ Len(plain') = Len(cipher')
    <3>1. Len(got') = Len(got) + Len(chunk) /\ Len(new) = Len(chunk)
          /\ Len(chunk) \in Nat
      BY <1>1, <1>2
    <3>2. Len(cipher') = Len(cipher) + Len(new) /\ Len(plain') = Len(plain) + Len(chunk)
          /\ Len(cipher) \in Nat
      BY <2>2, <2>3
    <3>. QED  BY <2>4, <2>5, <3>1, <3>2
  <2>11. cut' # "closed"
    BY <1>4
  <2>12. IsRun(cipher, SentUpTo)'
    BY <2>4, <2>6 DEF IsRun
  <2>13. \A k \in 1..Len(plain') : plain'[k] = got'[SentUpTo' + k]
    BY <2>4, <2>7
  <2>14. BufferInv'
    BY <2>8, <2>10, <2>11, <2>12, <2>13 DEF BufferInv
  <2>. QED  BY <2>4, <2>9, <2>14 DEF SplitInv
<1>. QED  BY <1>3, <1>4 DEF Split!Split, new

\* The whole buffer is handed over.
LEMMA RestKeeps ==
    ASSUME SplitInv, cipher # <<>>, sent' = Append(sent, Split!Part(cipher, "rest")),
           cipher' = <<>>, plain' = <<>>, UNCHANGED <<proto, got>>
    PROVE  SplitInv'
<1>1. "rest" \in Split!Why /\ cipher \in Seq(Nat) /\ IsRun(cipher, SentUpTo)
  BY DEF Split!Why, SplitInv, PartTypes, BufferInv
<1>2. /\ sent' \in Seq([bytes : Seq(Nat), why : Split!Why]) /\ PartsInv'
      /\ SentUpTo' = SentUpTo + Len(cipher) /\ SentUpTo' \in Nat
  BY <1>1, PartAppended
<1>3. /\ <<>> \in Seq(Nat) /\ <<>> \in Seq(Bytes) /\ Len(<<>>) = 0
  OBVIOUS
<1>. QED  BY <1>2, <1>3 DEF SplitInv, PartTypes, BufferInv, IsRun

\* A value of three digits is a number.
LEMMA ThreeDigits ==
    ASSUME NEW x \in Nat, NEW y \in Nat, NEW z \in Nat
    PROVE  x + Base * y + Base * Base * z \in Nat
<1>1. Base \in Nat
  BY SplitAssumption DEF Split!ByteAssumption
<1> DEFINE v2 == Base * y
<1> DEFINE v3 == Base * Base * z
<1>2. v2 \in Nat /\ v3 \in Nat
  <2>1. Base * Base \in Nat
    BY <1>1
  <2>. QED  BY <1>1, <2>1
<1> HIDE DEF v2, v3
<1>3. x + v2 + v3 \in Nat
  BY <1>2
<1>. QED  BY <1>3 DEF v2, v3

\* The bytes of a stream, the mask, and the lengths in a header that is there.
LEMMA StreamBytes ==
    ASSUME NEW b \in Seq(Bytes)
    PROVE  /\ Len(b) \in Nat
           /\ \A i \in 1..Len(b) : b[i] \in Nat /\ b[i] \in 0..(2 * (Long + 1) - 1)
<1>1. Long \in Nat /\ Base = 2 * (Long + 1) /\ Bytes \subseteq 0..(Base - 1)
  BY SplitAssumption DEF Split!ByteAssumption
<1>2. \A i \in 1..Len(b) : b[i] \in Bytes
  BY ElementOfSeq
<1>3. \A byte \in Bytes : byte \in Nat /\ byte \in 0..(2 * (Long + 1) - 1)
  BY <1>1
<1>. QED  BY <1>2, <1>3, LenProperties

LEMMA Masked ==
    ASSUME NEW byte \in 0..(2 * (Long + 1) - 1)
    PROVE  /\ byte % (Long + 1) \in 0..Long
           /\ \A v \in 0..Long :
                 Split!IsFlagged(byte, v) <=> byte % (Long + 1) = v
<1>1. Long \in Nat
  BY SplitAssumption DEF Split!ByteAssumption
<1>2. CASE byte < Long + 1
  <2>1. byte % (Long + 1) = byte
    BY <1>1, <1>2
  <2>. QED  BY <1>1, <1>2, <2>1 DEF Split!IsFlagged
<1>3. CASE byte >= Long + 1
  <2>1. byte % (Long + 1) = byte - (Long + 1)
    BY <1>1, <1>3
  <2>. QED  BY <1>1, <1>3, <2>1 DEF Split!IsFlagged
<1>. QED  BY <1>1, <1>2, <1>3

\* The three digits of a length, and the part of it above them.
Low(b) == b[1] + Base * b[2] + Base * Base * b[3]
Above(b) == Base * Base * Base * (b[4] % (Long + 1))

LEMMA HeaderFacts ==
    ASSUME proto \in {"abridged", "intermediate"}, NEW b \in Seq(Bytes), b # <<>>,
           Split!HeaderLen(b) <= Len(b)
    PROVE  /\ Split!First(b) \in 0..Long
           /\ \/ /\ proto = "intermediate" /\ Split!HeaderLen(b) = 4
                 /\ Split!PayloadLen(b) = Low(b) + Above(b)
                 /\ Low(b) \in Nat /\ Above(b) \in Nat
              \/ /\ proto = "abridged" /\ Split!First(b) = Long
                 /\ Split!HeaderLen(b) = 4
                 /\ Split!PayloadLen(b) = Word * Low(Tail(b))
                 /\ Low(Tail(b)) \in Nat
              \/ /\ proto = "abridged" /\ Split!First(b) # Long
                 /\ Split!HeaderLen(b) = 1
                 /\ Split!PayloadLen(b) = Word * Split!First(b)
<1>1. Base \in Nat /\ Long \in Nat /\ Word \in Nat
  BY SplitAssumption DEF Split!ByteAssumption
<1>2. /\ Len(b) \in Nat /\ Len(b) # 0
      /\ \A i \in 1..Len(b) : b[i] \in Nat /\ b[i] \in 0..(2 * (Long + 1) - 1)
  BY StreamBytes, EmptySeq
<1>3. Split!First(b) \in 0..Long
  <2>1. 1 \in 1..Len(b)
    BY <1>2
  <2>. QED  BY <1>2, <2>1, Masked DEF Split!First
<1>4. ASSUME Split!HeaderLen(b) = 4
      PROVE  /\ Low(b) \in Nat /\ Above(b) \in Nat /\ Low(Tail(b)) \in Nat
             /\ Low(Tail(b)) = b[2] + Base * b[3] + Base * Base * b[4]
  <2>1. 1 \in 1..Len(b) /\ 2 \in 1..Len(b) /\ 3 \in 1..Len(b) /\ 4 \in 1..Len(b)
    BY <1>2, <1>4
  <2>2. b[1] \in Nat /\ b[2] \in Nat /\ b[3] \in Nat /\ b[4] \in Nat
    BY <1>2, <2>1
  <2>3. Tail(b)[1] = b[2] /\ Tail(b)[2] = b[3] /\ Tail(b)[3] = b[4]
    <3>1. /\ Len(Tail(b)) = Len(b) - 1
          /\ \A i \in 1..Len(Tail(b)) : Tail(b)[i] = b[i + 1]
      BY HeadTailProperties
    <3>2. 1 \in 1..Len(Tail(b)) /\ 2 \in 1..Len(Tail(b)) /\ 3 \in 1..Len(Tail(b))
      BY <1>2, <2>1, <3>1
    <3>3. Tail(b)[1] = b[1 + 1] /\ Tail(b)[2] = b[2 + 1] /\ Tail(b)[3] = b[3 + 1]
      BY <3>1, <3>2
    <3>4. 1 + 1 = 2 /\ 2 + 1 = 3 /\ 3 + 1 = 4
      OBVIOUS
    <3>. QED  BY <3>3, <3>4, Zenon
  <2>4. b[4] % (Long + 1) \in 0..Long
    BY <1>2, <2>1, Masked
  <2>5. Base * Base * Base \in Nat /\ b[4] % (Long + 1) \in Nat
    <3>1. Base * Base \in Nat
      BY <1>1
    <3>. QED  BY <1>1, <2>4, <3>1
  <2>6. Above(b) \in Nat
    BY <2>5 DEF Above
  <2>7. Low(b) \in Nat /\ b[2] + Base * b[3] + Base * Base * b[4] \in Nat
    BY <2>2, ThreeDigits DEF Low
  <2>. QED  BY <2>3, <2>6, <2>7 DEF Low
<1>5. CASE proto = "intermediate"
  <2>1. Split!HeaderLen(b) = 4
    BY <1>5 DEF Split!HeaderLen
  <2>2. Split!PayloadLen(b) = Low(b) + Above(b)
    BY <1>5 DEF Split!PayloadLen, Low, Above
  <2>. QED  BY <1>3, <1>4, <1>5, <2>1, <2>2
<1>6. CASE proto = "abridged" /\ Split!First(b) = Long
  <2>1. Split!HeaderLen(b) = 4
    BY <1>6 DEF Split!HeaderLen
  <2>2. Split!PayloadLen(b) = Word * Low(Tail(b))
    BY <1>4, <1>6, <2>1 DEF Split!PayloadLen
  <2>. QED  BY <1>3, <1>4, <1>6, <2>1, <2>2
<1>7. CASE proto = "abridged" /\ Split!First(b) # Long
  <2>1. Split!HeaderLen(b) = 1 /\ Split!PayloadLen(b) = Word * Split!First(b)
    BY <1>7 DEF Split!HeaderLen, Split!PayloadLen
  <2>. QED  BY <1>3, <1>7, <2>1
<1>. QED  BY <1>5, <1>6, <1>7

LEMMA PayloadIsNumber ==
    ASSUME proto \in {"abridged", "intermediate"}, NEW b \in Seq(Bytes), b # <<>>,
           Split!HeaderLen(b) <= Len(b)
    PROVE  Split!HeaderLen(b) \in {1, 4} /\ Split!PayloadLen(b) \in Nat
<1>1. Word \in Nat /\ Long \in Nat
  BY SplitAssumption DEF Split!ByteAssumption
<1>2. \A x \in Nat : Word * x \in Nat
  BY <1>1
<1>3. Split!First(b) \in Nat
  BY <1>1, HeaderFacts
<1>4. \/ Split!HeaderLen(b) = 4 /\ Split!PayloadLen(b) = Low(b) + Above(b)
         /\ Low(b) \in Nat /\ Above(b) \in Nat
      \/ Split!HeaderLen(b) = 4 /\ Split!PayloadLen(b) = Word * Low(Tail(b))
         /\ Low(Tail(b)) \in Nat
      \/ Split!HeaderLen(b) = 1 /\ Split!PayloadLen(b) = Word * Split!First(b)
  BY HeaderFacts, Zenon
<1>5. Low(b) \in Nat /\ Above(b) \in Nat => Low(b) + Above(b) \in Nat
  OBVIOUS
<1>. QED  BY <1>2, <1>3, <1>4, <1>5

\* The length of the first packet is a number.
LEMMA LengthIsNumber ==
    ASSUME PartTypes
    PROVE  Split!NextPacketLen(plain) \in Int
<1>1. plain \in Seq(Bytes) /\ Len(plain) \in Nat
      /\ proto \in {"abridged", "intermediate"}
  BY LenProperties DEF PartTypes
<1>2. Split!HeaderLen(plain) \in {1, 4}
  BY DEF Split!HeaderLen
<1>3. CASE plain = <<>> \/ Len(plain) < Split!HeaderLen(plain)
  BY <1>3 DEF Split!NextPacketLen
<1>4. CASE plain # <<>> /\ ~(Len(plain) < Split!HeaderLen(plain))
  <2>1. Split!HeaderLen(plain) <= Len(plain)
    BY <1>1, <1>2, <1>4
  <2>2. Split!PayloadLen(plain) \in Nat
    BY <1>1, <1>4, <2>1, PayloadIsNumber
  <2>. QED  BY <1>2, <2>2 DEF Split!NextPacketLen
<1>. QED  BY <1>3, <1>4

\* A packet leaves the front of both buffers.
LEMMA PacketKeeps ==
    ASSUME SplitInv, Split!CutPacket
    PROVE  SplitInv'
<1> DEFINE n == Split!NextPacketLen(plain)
<1> DEFINE p == SubSeq(cipher, 1, n)
<1>1. /\ cut = "cutting" /\ n > 0 /\ Len(cipher) >= n
      /\ sent' = Append(sent, Split!Part(p, "packet"))
      /\ cipher' = SubSeq(cipher, n + 1, Len(cipher))
      /\ plain' = SubSeq(plain, n + 1, Len(plain))
      /\ UNCHANGED <<proto, got, disabled, cut>>
  BY DEF Split!CutPacket, Split!Drained
<1>2. /\ n \in Int /\ cipher \in Seq(Nat) /\ plain \in Seq(Bytes)
      /\ Len(cipher) \in Nat /\ Len(plain) = Len(cipher)
      /\ SentUpTo \in Nat /\ SentUpTo + Len(cipher) = Len(got)
      /\ IsRun(cipher, SentUpTo)
      /\ \A k \in 1..Len(plain) : plain[k] = got[SentUpTo + k]
  BY LengthIsNumber, LenProperties DEF SplitInv, PartTypes, BufferInv
<1> HIDE DEF n
<1>m. n \in Nat /\ n <= Len(plain)
  BY <1>1, <1>2
<1>h. /\ SubSeq(cipher, 1, n) \in Seq(Nat) /\ Len(SubSeq(cipher, 1, n)) = n
      /\ \A k \in 1..n : SubSeq(cipher, 1, n)[k] = cipher[k]
      /\ SubSeq(cipher, n + 1, Len(cipher)) \in Seq(Nat)
      /\ Len(SubSeq(cipher, n + 1, Len(cipher))) = Len(cipher) - n
      /\ \A k \in 1..(Len(cipher) - n) :
            SubSeq(cipher, n + 1, Len(cipher))[k] = cipher[n + k]
  <2> DEFINE Positions == Nat
  <2>1. cipher \in Seq(Positions) /\ n \in Nat /\ n > 0 /\ n <= Len(cipher)
    BY <1>1, <1>2, <1>m
  <2> HIDE DEF Positions
  <2>2. /\ SubSeq(cipher, 1, n) \in Seq(Positions) /\ Len(SubSeq(cipher, 1, n)) = n
        /\ \A k \in 1..n : SubSeq(cipher, 1, n)[k] = cipher[k]
        /\ SubSeq(cipher, n + 1, Len(cipher)) \in Seq(Positions)
        /\ Len(SubSeq(cipher, n + 1, Len(cipher))) = Len(cipher) - n
        /\ \A k \in 1..(Len(cipher) - n) :
              SubSeq(cipher, n + 1, Len(cipher))[k] = cipher[n + k]
    BY <2>1, Halved
  <2>. QED  BY <2>2 DEF Positions
<1>3. /\ p \in Seq(Nat) /\ Len(p) = n /\ \A k \in 1..n : p[k] = cipher[k]
  BY <1>h
<1>4. /\ cipher' \in Seq(Nat) /\ Len(cipher') = Len(cipher) - n
      /\ \A k \in 1..(Len(cipher) - n) : cipher'[k] = cipher[n + k]
  BY <1>1, <1>h
<1>5. /\ plain' \in Seq(Bytes) /\ Len(plain') = Len(plain) - n
      /\ \A k \in 1..(Len(plain) - n) : plain'[k] = plain[n + k]
  BY <1>1, <1>2, <1>m, Halved
<1>6. p # <<>> /\ IsRun(p, SentUpTo) /\ "packet" \in Split!Why
  <2>1. Len(p) # 0
    BY <1>1, <1>3
  <2>2. ASSUME NEW k \in 1..n
        PROVE  p[k] = SentUpTo + k
    <3>1. k \in 1..Len(cipher)
      BY <1>1, <1>2, <1>m
    <3>. QED  BY <1>2, <1>3, <3>1 DEF IsRun
  <2> HIDE DEF p
  <2>3. p # <<>>
    BY <2>1, EmptySeq
  <2>. QED  BY <1>3, <2>2, <2>3 DEF IsRun, Split!Why
<1>7. /\ sent' \in Seq([bytes : Seq(Nat), why : Split!Why]) /\ PartsInv'
      /\ SentUpTo' = SentUpTo + n /\ SentUpTo' \in Nat
  BY <1>1, <1>3, <1>6, PartAppended
<1>s. SentUpTo' + Len(cipher') = Len(got)
  <2>1. SentUpTo \in Nat /\ n \in Nat /\ Len(cipher) \in Nat
        /\ SentUpTo + Len(cipher) = Len(got)
    BY <1>2, <1>m
  <2>2. Len(cipher') = Len(cipher) - n /\ SentUpTo' = SentUpTo + n
    BY <1>4, <1>7
  <2>. QED  BY <2>1, <2>2
<1>8. IsRun(cipher, SentUpTo)'
  <2>1. ASSUME NEW k \in 1..Len(cipher')
        PROVE  cipher'[k] = SentUpTo' + k
    <3>1. k \in 1..(Len(cipher) - n) /\ n + k \in 1..Len(cipher)
      BY <1>2, <1>m, <1>4
    <3>2. cipher'[k] = cipher[n + k] /\ cipher[n + k] = SentUpTo + (n + k)
      BY <1>2, <1>4, <3>1 DEF IsRun
    <3>3. SentUpTo + (n + k) = SentUpTo' + k
      BY <1>2, <1>m, <1>7
    <3>. QED  BY <3>2, <3>3
  <2>. QED  BY <2>1 DEF IsRun
<1>9. \A k \in 1..Len(plain') : plain'[k] = got[SentUpTo' + k]
  <2>1. ASSUME NEW k \in 1..Len(plain')
        PROVE  plain'[k] = got[SentUpTo' + k]
    <3>1. k \in 1..(Len(plain) - n) /\ n + k \in 1..Len(plain)
      BY <1>2, <1>m, <1>5
    <3>2. plain'[k] = plain[n + k] /\ plain[n + k] = got[SentUpTo + (n + k)]
      BY <1>2, <1>5, <3>1
    <3>3. SentUpTo + (n + k) = SentUpTo' + k
      BY <1>2, <1>m, <1>7
    <3>. QED  BY <3>2, <3>3
  <2>. QED  BY <2>1
<1>10. disabled = FALSE \/ cipher = <<>>
  BY DEF SplitInv, BufferInv
<1>11. disabled' \/ cut' = "closed" => cipher' = <<>>
  <2>1. cipher # <<>>
    BY <1>1, <1>2
  <2>. QED  BY <1>1, <2>1 DEF SplitInv, BufferInv
<1>. QED
  BY <1>1, <1>2, <1>4, <1>5, <1>7, <1>s, <1>8, <1>9, <1>11 DEF SplitInv, PartTypes, BufferInv

LEMMA SplitInit ==
    ASSUME Split!Init
    PROVE  SplitInv
<1>1. /\ got = <<>> /\ cipher = <<>> /\ plain = <<>> /\ sent = <<>>
      /\ proto \in {"abridged", "intermediate"}
  BY DEF Split!Init
<1>2. PartTypes
  BY <1>1 DEF PartTypes
<1>3. SentUpTo = 0 /\ Len(sent) = 0 /\ Len(got) = 0 /\ Len(cipher) = 0 /\ Len(plain) = 0
  BY <1>1 DEF SentUpTo
<1>. QED  BY <1>1, <1>2, <1>3 DEF SplitInv, PartsInv, BufferInv, IsRun

LEMMA SplitStep ==
    ASSUME SplitInv, [Split!Next]_(Split!vars)
    PROVE  SplitInv'
<1>1. CASE UNCHANGED Split!vars
  BY <1>1, PartsStay DEF Split!vars, SplitInv, BufferInv
<1>2. ASSUME NEW chunk \in Split!Chunks, Split!Split(chunk)
      PROVE  SplitInv'
  <2>1. PICK k \in Sizes : chunk \in [1..k -> Bytes]
    BY DEF Split!Chunks
  <2>2. k \in Nat
    BY SplitAssumption DEF Split!ByteAssumption
  <2>3. chunk \in Seq(Bytes)
    BY <2>1, <2>2
  <2>. QED  BY <1>2, <2>3, SplitKeeps
<1>3. CASE Split!CutWaits
  BY <1>3, PartsStay DEF Split!CutWaits, SplitInv, BufferInv
<1>4. CASE Split!CutRest
  BY <1>4, RestKeeps DEF Split!CutRest
<1>5. CASE Split!CutPacket
  BY <1>5, PacketKeeps
<1>6. CASE Split!Flush
  <2>1. CASE cipher # <<>>
    BY <1>6, <2>1, RestKeeps DEF Split!Flush
  <2>2. CASE cipher = <<>>
    <3>1. plain = <<>>
      BY <2>2, EmptySeq, LenProperties DEF SplitInv, PartTypes, BufferInv
    <3>. QED  BY <1>6, <2>2, <3>1, PartsStay DEF Split!Flush
  <2>. QED  BY <2>1, <2>2
<1>. QED  BY <1>1, <1>2, <1>3, <1>4, <1>5, <1>6 DEF Split!Next

\* What the invariant says of the parts and the buffer, put end to end.
LEMMA NothingIsLost ==
    ASSUME SplitInv
    PROVE  NothingLost
<1> DEFINE parts == [i \in 1..Len(sent) |-> sent[i].bytes]
<1> DEFINE rest == IF cipher = <<>> THEN <<>> ELSE <<cipher>>
<1> DEFINE all == parts \o rest
<1> DEFINE m == Len(sent)
<1>1. /\ m \in Nat /\ \A i \in 1..m : sent[i].bytes \in Seq(Nat)
      /\ cipher \in Seq(Nat) /\ got \in Seq(Bytes) /\ plain \in Seq(Bytes)
      /\ Len(cipher) \in Nat /\ Len(got) \in Nat
  <2> DEFINE Parts == [bytes : Seq(Nat), why : Split!Why]
  <2>1. /\ cipher \in Seq(Nat) /\ got \in Seq(Bytes) /\ plain \in Seq(Bytes)
        /\ sent \in Seq(Parts)
    BY DEF SplitInv, PartTypes
  <2>2. \A r \in Parts : r.bytes \in Seq(Nat)
    OBVIOUS
  <2> HIDE DEF Parts
  <2>3. \A i \in 1..Len(sent) : sent[i] \in Parts
    BY <2>1, ElementOfSeq
  <2>4. Len(sent) \in Nat /\ Len(cipher) \in Nat /\ Len(got) \in Nat
    BY <2>1, LenProperties
  <2>. QED  BY <2>1, <2>2, <2>3, <2>4
<1>2. parts \in Seq(Seq(Nat)) /\ Len(parts) = m /\ \A i \in 1..m : parts[i] = sent[i].bytes
  BY <1>1, IsASeq
<1>3. rest \in Seq(Seq(Nat)) /\ Len(rest) = IF cipher = <<>> THEN 0 ELSE 1
  BY <1>1
<1>4. /\ Len(all) = IF cipher = <<>> THEN m ELSE m + 1
      /\ \A i \in 1..m : all[i] = sent[i].bytes
      /\ cipher # <<>> => all[m + 1] = cipher
      /\ all \in Seq(Seq(Nat))
  <2>1. /\ all \in Seq(Seq(Nat)) /\ Len(all) = Len(parts) + Len(rest)
        /\ \A i \in 1..Len(parts) : all[i] = parts[i]
        /\ \A i \in 1..Len(rest) : all[Len(parts) + i] = rest[i]
    BY <1>2, <1>3, ConcatProperties
  <2>2. cipher # <<>> => rest[1] = cipher /\ 1 \in 1..Len(rest)
    BY <1>3
  <2>. QED  BY <1>1, <1>2, <1>3, <2>1, <2>2
<1> HIDE DEF parts, rest, all
<1>5. plain = Split!Plain(cipher)
  <2>1. Split!Plain(cipher) = [k \in 1..Len(cipher) |-> got[cipher[k]]]
    BY DEF Split!Plain
  <2>2. \A k \in 1..Len(cipher) : plain[k] = got[cipher[k]]
    BY DEF SplitInv, BufferInv, IsRun
  <2>3. plain = [k \in 1..Len(cipher) |-> plain[k]]
    BY <1>1 DEF SplitInv, BufferInv
  <2>. QED  BY <2>1, <2>2, <2>3
\* The start of each part of `all`.
<1> DEFINE from(i) == IF i = m + 1 THEN SentUpTo ELSE Before1(i)
<1>6. \A i \in 1..Len(all) : all[i] # <<>> /\ all[i] \in Seq(Nat) /\ IsRun(all[i], from(i))
  <2>1. ASSUME NEW i \in 1..m
        PROVE  all[i] # <<>> /\ all[i] \in Seq(Nat) /\ IsRun(all[i], from(i))
    <3>1. i # m + 1 /\ from(i) = Before1(i)
      BY <1>1
    <3>2. sent[i].bytes # <<>> /\ IsRun(sent[i].bytes, Before1(i))
      BY DEF SplitInv, PartsInv
    <3>. QED  BY <1>1, <1>4, <3>1, <3>2
  <2>2. ASSUME cipher # <<>>
        PROVE  all[m + 1] # <<>> /\ all[m + 1] \in Seq(Nat)
               /\ IsRun(all[m + 1], from(m + 1))
    BY <1>1, <1>4, <2>2 DEF SplitInv, BufferInv
  <2>3. \A i \in 1..Len(all) : i \in 1..m \/ (cipher # <<>> /\ i = m + 1)
    BY <1>1, <1>4
  <2>. QED  BY <2>1, <2>2, <2>3
<1>7. \A i \in 1..m : EndOf(i) \in Nat
  <2>1. ASSUME NEW i \in 1..m
        PROVE  EndOf(i) \in Nat
    <3>1. sent[i].bytes \in Seq(Nat) /\ sent[i].bytes # <<>>
      BY <1>1 DEF SplitInv, PartsInv
    <3>2. Len(sent[i].bytes) \in 1..Len(sent[i].bytes)
      BY <3>1, LenProperties, EmptySeq
    <3>. QED  BY <3>1, <3>2, ElementOfSeq DEF EndOf
  <2>. QED  BY <2>1
<1>8. \A i \in 1..Len(all) : from(i) \in Nat
  <2>1. \A i \in 1..m : Before1(i) \in Nat
    BY <1>1, <1>7 DEF Before1
  <2>2. SentUpTo \in Nat
    BY DEF SplitInv, BufferInv
  <2>3. \A i \in 1..Len(all) : i \in 1..m \/ i = m + 1
    BY <1>1, <1>4
  <2>. QED  BY <2>1, <2>2, <2>3
<1>9. \A i \in 1..Len(all) : Split!Consecutive(all[i])
  <2>1. ASSUME NEW i \in 1..Len(all)
        PROVE  Split!Consecutive(all[i])
    <3>1. Len(all[i]) \in Nat /\ from(i) \in Nat
      BY <1>6, <1>8, LenProperties
    <3>2. \A k \in 1..Len(all[i]) : all[i][k] = from(i) + k
      BY <1>6 DEF IsRun
    <3> HIDE DEF from
    <3>. QED  BY <3>1, <3>2 DEF Split!Consecutive
  <2>. QED  BY <2>1
<1>10. \A i \in 1..m : Len(sent[i].bytes) \in Nat /\ 1 <= Len(sent[i].bytes)
       /\ all[i][Len(all[i])] = EndOf(i)
  <2>1. ASSUME NEW i \in 1..m
        PROVE  Len(sent[i].bytes) \in Nat /\ 1 <= Len(sent[i].bytes)
    <3>1. sent[i].bytes \in Seq(Nat) /\ sent[i].bytes # <<>>
      BY <1>1 DEF SplitInv, PartsInv
    <3>. QED  BY <3>1, LenProperties, EmptySeq
  <2>. QED  BY <1>4, <2>1 DEF EndOf
<1>11. \A i \in 1..Len(all) : all[i][1] = from(i) + 1
  <2>1. \A i \in 1..Len(all) : 1 \in 1..Len(all[i])
    BY <1>6, LenProperties, EmptySeq
  <2>. QED  BY <1>6, <2>1 DEF IsRun
<1>12. \A i \in 1..(Len(all) - 1) : Split!Follows(all[i], all[i + 1])
  <2>1. ASSUME NEW i \in 1..(Len(all) - 1)
        PROVE  Split!Follows(all[i], all[i + 1])
    <3>1. i \in 1..m /\ i + 1 \in 1..Len(all)
      BY <1>1, <1>4, <2>1
    <3>2. from(i + 1) = EndOf(i)
      <4>1. CASE i = m
        <5>1. sent # <<>>
          BY <1>1, <3>1, <4>1
        <5>. QED  BY <1>1, <4>1, <5>1 DEF SentUpTo
      <4>2. CASE i # m
        BY <1>1, <3>1, <4>2 DEF Before1
      <4>. QED  BY <4>1, <4>2
    <3>3. all[i + 1][1] = EndOf(i) + 1
      BY <1>11, <3>1, <3>2
    <3>. QED  BY <1>10, <3>1, <3>3 DEF Split!Follows
  <2>. QED  BY <2>1
<1>13. \A q \in {all[i] : i \in 1..Len(all)} : q # <<>> /\ Split!Consecutive(q)
  BY <1>6, <1>9
<1>14. CASE all = <<>>
  <2>1. m = 0 /\ cipher = <<>>
    BY <1>1, <1>4, <1>14
  <2>2. sent = <<>> /\ Len(cipher) = 0
    BY <2>1, EmptySeq DEF SplitInv, PartTypes
  <2>3. Len(got) = 0
    BY <2>2 DEF SplitInv, BufferInv, SentUpTo
  <2>4. got = <<>>
    BY <1>1, <2>3, EmptySeq
  <2>. QED  BY <1>5, <1>12, <1>13, <1>14, <2>4 DEF NothingLost, Split!NothingLost, all, parts, rest
<1>15. CASE all # <<>>
  <2>1. Len(all) \in Nat /\ Len(all) # 0
    BY <1>4, <1>15, LenProperties, EmptySeq
  <2>2. all[1][1] = 1
    <3>1. from(1) = 0
      <4>1. CASE m = 0
        <5>1. sent = <<>>
          BY <4>1, EmptySeq DEF SplitInv, PartTypes
        <5>. QED  BY <4>1, <5>1 DEF SentUpTo
      <4>2. CASE m # 0
        BY <1>1, <4>2 DEF Before1
      <4>. QED  BY <4>1, <4>2
    <3>. QED  BY <1>11, <2>1, <3>1
  <2>3. all[Len(all)][Len(all[Len(all)])] = Len(got)
    <3>1. CASE cipher = <<>>
      <4>1. Len(all) = m /\ m \in 1..m /\ sent # <<>> /\ Len(cipher) = 0
        BY <1>1, <1>4, <2>1, <3>1
      <4>2. EndOf(m) = Len(got)
        BY <1>1, <1>7, <4>1 DEF SplitInv, BufferInv, SentUpTo
      <4>. QED  BY <1>10, <4>1, <4>2
    <3>2. CASE cipher # <<>>
      <4>1. Len(all) = m + 1 /\ all[m + 1] = cipher /\ Len(cipher) \in 1..Len(cipher)
        BY <1>1, <1>4, <3>2, EmptySeq
      <4>. QED  BY <4>1 DEF SplitInv, BufferInv, IsRun
    <3>. QED  BY <3>1, <3>2
  <2>. QED
    BY <1>5, <1>12, <1>13, <1>15, <2>2, <2>3
       DEF NothingLost, Split!NothingLost, all, parts, rest
<1>. QED  BY <1>14, <1>15

\* Every byte of the client is handed over once and in order or is still in the
\* buffer, whatever the bytes, the literals of the headers and the chunks.
THEOREM NothingLostHolds == Split!Spec => []NothingLost
<1>1. Split!Init => SplitInv
  BY SplitInit
<1>2. SplitInv /\ [Split!Next]_(Split!vars) => SplitInv'
  BY SplitStep
<1>3. SplitInv => NothingLost
  BY NothingIsLost
<1>. QED  BY <1>1, <1>2, <1>3, PTL DEF Split!Spec

-----------------------------------------------------------------------------
(* The cuts.  What the splitter decodes from the front of its buffer is a    *)
(* packet as the sender writes it, and nothing else is.                      *)

LEMMA NextIs ==
    ASSUME proto \in {"abridged", "intermediate"}, NEW b \in Seq(Bytes),
           NEW n \in 1..Len(b)
    PROVE  /\ b # <<>> /\ Len(b) \in Nat
           /\ Split!NextPacketLen(b) = n <=>
                 /\ Split!HeaderLen(b) <= Len(b)
                 /\ Split!PayloadLen(b) # 0
                 /\ n = Split!HeaderLen(b) + Split!PayloadLen(b)
<1>1. b # <<>> /\ Len(b) \in Nat /\ n \in Nat /\ n # 0 /\ n # -1
  BY LenProperties, EmptySeq
<1>2. Split!HeaderLen(b) \in {1, 4}
  BY DEF Split!HeaderLen
<1>3. CASE Split!HeaderLen(b) <= Len(b)
  <2>1. Split!PayloadLen(b) \in Nat
    BY <1>1, <1>3, PayloadIsNumber
  <2>. QED  BY <1>1, <1>2, <1>3, <2>1 DEF Split!NextPacketLen
<1>4. CASE ~(Split!HeaderLen(b) <= Len(b))
  <2>1. Len(b) < Split!HeaderLen(b)
    BY <1>1, <1>2, <1>4
  <2>. QED  BY <1>1, <1>4, <2>1 DEF Split!NextPacketLen
<1>. QED  BY <1>1, <1>3, <1>4

\* The front of a stream begins with the same header.
LEMMA FrontFacts ==
    ASSUME NEW b \in Seq(Bytes), NEW n \in 1..Len(b)
    PROVE  /\ Len(SubSeq(b, 1, n)) = n
           /\ SubSeq(b, 1, n)[1] = b[1]
           /\ n >= 4 => /\ Low(SubSeq(b, 1, n)) = Low(b)
                        /\ SubSeq(b, 1, n)[4] = b[4]
                        /\ Low(Tail(SubSeq(b, 1, n))) = Low(Tail(b))
<1> DEFINE p == SubSeq(b, 1, n)
<1>1. n \in Nat /\ n > 0 /\ n <= Len(b) /\ Len(b) \in Nat
  BY LenProperties
<1>2. p \in Seq(Bytes) /\ Len(p) = n /\ \A i \in 1..n : p[i] = b[i]
  BY <1>1, Halved
<1> HIDE DEF p
<1>3. p[1] = b[1]
  BY <1>1, <1>2
<1>4. ASSUME n >= 4
      PROVE  Low(p) = Low(b) /\ p[4] = b[4] /\ Low(Tail(p)) = Low(Tail(b))
  <2>1. p[2] = b[2] /\ p[3] = b[3] /\ p[4] = b[4]
    <3>1. 2 \in 1..n /\ 3 \in 1..n /\ 4 \in 1..n
      BY <1>1, <1>4
    <3>. QED  BY <1>2, <3>1
  <2>2. Low(p) = Low(b)
    BY <1>3, <2>1, Zenon DEF Low
  <2>3. \A s \in Seq(Bytes) : Len(s) >= 4 =>
           Tail(s)[1] = s[2] /\ Tail(s)[2] = s[3] /\ Tail(s)[3] = s[4]
    <3>1. ASSUME NEW s \in Seq(Bytes), Len(s) >= 4
          PROVE  Tail(s)[1] = s[2] /\ Tail(s)[2] = s[3] /\ Tail(s)[3] = s[4]
      <4>1. Len(s) \in Nat /\ s # <<>>
        BY <3>1, LenProperties, EmptySeq
      <4>2. /\ Len(Tail(s)) = Len(s) - 1
            /\ \A i \in 1..Len(Tail(s)) : Tail(s)[i] = s[i + 1]
        BY <4>1, HeadTailProperties
      <4>3. 1 \in 1..Len(Tail(s)) /\ 2 \in 1..Len(Tail(s)) /\ 3 \in 1..Len(Tail(s))
        BY <3>1, <4>1, <4>2
      <4>4. Tail(s)[1] = s[1 + 1] /\ Tail(s)[2] = s[2 + 1] /\ Tail(s)[3] = s[3 + 1]
        BY <4>2, <4>3
      <4>5. 1 + 1 = 2 /\ 2 + 1 = 3 /\ 3 + 1 = 4
        OBVIOUS
      <4>. QED  BY <4>4, <4>5, Zenon
    <3>. QED  BY <3>1
  <2>4. Len(p) >= 4 /\ Len(b) >= 4
    BY <1>1, <1>2, <1>4
  <2>5. /\ Tail(p)[1] = b[2] /\ Tail(p)[2] = b[3] /\ Tail(p)[3] = b[4]
        /\ Tail(b)[1] = b[2] /\ Tail(b)[2] = b[3] /\ Tail(b)[3] = b[4]
    BY <1>2, <2>1, <2>3, <2>4, Zenon
  <2>6. Low(Tail(p)) = Low(Tail(b))
    BY <2>5, Zenon DEF Low
  <2>. QED  BY <2>1, <2>2, <2>6
<1>. QED  BY <1>2, <1>3, <1>4 DEF p

\* IsPacket, one transport and one header at a time.
Short(b) == \E m \in 1..Len(b) :
    m < Long /\ Len(b) = 1 + Word * m /\ Split!IsFlagged(b[1], m)
Marked(b) == \E m \in 1..Len(b) :
    Len(b) = 4 + Word * m /\ Split!IsFlagged(b[1], Long) /\ Low(Tail(b)) = m
Counted(b) == \E m \in 1..Len(b) :
    /\ Len(b) = 4 + m
    /\ \E high \in 0..Long :
          Split!IsFlagged(b[4], high) /\ Low(b) = m - Base * Base * Base * high

LEMMA PacketForms ==
    ASSUME NEW b, proto \in {"abridged", "intermediate"}
    PROVE  Split!IsPacket(b) <=> IF proto = "abridged" THEN Short(b) \/ Marked(b)
                                                       ELSE Counted(b)
<1>1. CASE proto = "abridged"
  BY <1>1 DEF Split!IsPacket, Split!Digits, Low, Short, Marked
<1>2. CASE proto = "intermediate"
  BY <1>2 DEF Split!IsPacket, Split!Digits, Low, Counted
<1>. QED  BY <1>1, <1>2

\* The first n bytes are a packet exactly if the splitter would cut there.
LEMMA PacketIsNext ==
    ASSUME proto \in {"abridged", "intermediate"}, NEW b \in Seq(Bytes),
           NEW n \in 1..Len(b)
    PROVE  Split!IsPacket(SubSeq(b, 1, n)) <=> Split!NextPacketLen(b) = n
<1> DEFINE p == SubSeq(b, 1, n)
<1>1. Base \in Nat /\ Long \in Nat /\ Long # 0 /\ Word \in Nat /\ Word # 0
  BY SplitAssumption DEF Split!ByteAssumption
<1>2. n \in Nat /\ n > 0 /\ n <= Len(b) /\ Len(b) \in Nat /\ b # <<>>
  BY NextIs
<1>3. /\ Len(p) = n /\ p[1] = b[1]
      /\ n >= 4 => p[4] = b[4] /\ Low(p) = Low(b) /\ Low(Tail(p)) = Low(Tail(b))
  BY FrontFacts
<1>4. \A i \in 1..Len(b) : b[i] \in 0..(2 * (Long + 1) - 1)
  BY StreamBytes
<1>5. Split!First(b) \in 0..Long
      /\ \A v \in 0..Long : Split!IsFlagged(b[1], v) <=> Split!First(b) = v
  <2>1. 1 \in 1..Len(b)
    BY <1>2
  <2>. QED  BY <1>4, <2>1, Masked DEF Split!First
<1> DEFINE isNext == /\ Split!HeaderLen(b) <= Len(b)
                     /\ Split!PayloadLen(b) # 0
                     /\ n = Split!HeaderLen(b) + Split!PayloadLen(b)
<1>6. Split!NextPacketLen(b) = n <=> isNext
  BY NextIs
\* A length in words says at least as much as the bytes it stands for.
<1>7. \A m \in Nat : Word * m \in Nat /\ m <= Word * m /\ (Word * m = 0 <=> m = 0)
  <2>1. \A m, w \in Nat : m <= m + w * m
    <3>1. \A m, w \in Nat : w * m \in Nat
      OBVIOUS
    <3>. QED  BY <3>1
  <2>2. PICK w \in Nat : Word = 1 + w
    BY <1>1
  <2>3. \A m \in Nat : Word * m = m + w * m
    BY <2>2
  <2>4. \A m \in Nat : Word * m \in Nat /\ m <= Word * m
    BY <1>1, <2>1, <2>3
  <2>5. \A m \in Nat : m = 0 => Word * m = 0
    <3>1. Word * 0 = 0
      BY <1>1
    <3>. QED  BY <3>1
  <2>6. ASSUME NEW m \in Nat
        PROVE  Word * m \in Nat /\ m <= Word * m /\ (Word * m = 0 <=> m = 0)
    <3>1. PICK x \in Nat : x = Word * m
      BY <2>4, Zenon
    <3>2. m <= x
      BY <2>4, <3>1, Zenon
    <3>3. m = 0 => x = 0
      BY <2>5, <3>1, Zenon
    <3>4. x = 0 <=> m = 0
      BY <3>2, <3>3
    <3>. QED  BY <3>1, <3>2, <3>4, Zenon
  <2>. QED  BY <2>6
<1> HIDE DEF p
<1>8. CASE proto = "abridged" /\ Split!First(b) # Long
  <2>1. Split!HeaderLen(b) = 1 /\ Split!PayloadLen(b) = Word * Split!First(b)
    BY <1>8 DEF Split!HeaderLen, Split!PayloadLen
  <2>2. ~Marked(p)
    <3>1. Long \in 0..Long
      BY <1>1
    <3>2. ~Split!IsFlagged(b[1], Long)
      BY <1>5, <1>8, <3>1
    <3>. QED  BY <1>3, <3>2 DEF Marked
  <2>3. ASSUME Short(p)
        PROVE  isNext
    <3>1. PICK m \in 1..n : m < Long /\ n = 1 + Word * m /\ Split!IsFlagged(b[1], m)
      BY <1>3, <2>3 DEF Short
    <3>2. m \in Nat /\ m # 0 /\ m \in 0..Long
      BY <1>1, <1>2, <3>1
    <3>3. Split!First(b) = m
      BY <1>5, <3>1, <3>2
    <3>4. Split!PayloadLen(b) = Word * m /\ Word * m # 0
      BY <1>7, <2>1, <3>2, <3>3
    <3>5. 1 <= Len(b)
      BY <1>2
    <3>. QED  BY <2>1, <3>1, <3>4, <3>5
  <2>4. ASSUME isNext
        PROVE  Short(p)
    <3> DEFINE m == Split!First(b)
    <3>1. n = 1 + Word * m /\ Word * m # 0
      BY <2>1, <2>4
    <3>2. m \in Nat /\ m \in 0..Long /\ m < Long /\ Split!IsFlagged(b[1], m)
      BY <1>1, <1>5, <1>8
    <3> HIDE DEF m
    <3>3. m # 0 /\ m <= Word * m /\ Word * m \in Nat
      BY <1>7, <3>1, <3>2
    <3>4. m \in 1..n
      BY <1>2, <3>1, <3>2, <3>3
    <3>. QED  BY <1>3, <3>1, <3>2, <3>4 DEF Short
  <2>. QED  BY <1>6, <1>8, <2>2, <2>3, <2>4, PacketForms DEF p
<1>9. CASE proto = "abridged" /\ Split!First(b) = Long
  <2>1. Split!HeaderLen(b) = 4
    BY <1>9 DEF Split!HeaderLen
  <2>2. ~Short(p)
    <3>1. SUFFICES ASSUME NEW m \in 1..n, m < Long, Split!IsFlagged(b[1], m)
                   PROVE  FALSE
      BY <1>3 DEF Short
    <3>2. m \in 0..Long /\ m # Long
      BY <1>1, <1>2, <3>1
    <3>. QED  BY <1>5, <1>9, <3>1, <3>2
  <2>3. Long \in 0..Long /\ Split!IsFlagged(b[1], Long)
    BY <1>1, <1>5, <1>9
  <2>4. ASSUME Marked(p)
        PROVE  isNext
    <3>1. PICK m \in 1..n : n = 4 + Word * m /\ Low(Tail(p)) = m
      BY <1>3, <2>4 DEF Marked
    <3>2. m \in Nat /\ m # 0 /\ Word * m \in Nat /\ Word * m # 0
      BY <1>2, <1>7, <3>1
    <3>3. n >= 4 /\ 4 <= Len(b)
      BY <1>2, <3>1, <3>2
    <3>4. Split!PayloadLen(b) = Word * Low(Tail(b))
      BY <1>2, <1>1, <1>9, <2>1, <3>3, HeaderFacts
    <3>5. Low(Tail(b)) = m
      BY <1>3, <3>1, <3>3
    <3>. QED  BY <2>1, <3>1, <3>2, <3>3, <3>4, <3>5
  <2>5. ASSUME isNext
        PROVE  Marked(p)
    <3> DEFINE m == Low(Tail(b))
    <3>1. Split!PayloadLen(b) = Word * m /\ m \in Nat
      BY <1>2, <1>9, <2>1, <2>5, HeaderFacts
    <3>2. n = 4 + Word * m /\ Word * m # 0
      BY <2>1, <2>5, <3>1
    <3>3. m # 0 /\ m <= Word * m /\ Word * m \in Nat
      BY <1>7, <3>1, <3>2
    <3> HIDE DEF m
    <3>4. n >= 4 /\ m \in 1..n
      BY <1>2, <3>1, <3>2, <3>3
    <3>5. Low(Tail(p)) = m
      BY <1>3, <3>4 DEF m
    <3>. QED  BY <1>3, <2>3, <3>2, <3>4, <3>5 DEF Marked
  <2>. QED  BY <1>6, <1>9, <2>2, <2>4, <2>5, PacketForms DEF p
<1>10. CASE proto = "intermediate"
  <2>1. Split!HeaderLen(b) = 4
    BY <1>10 DEF Split!HeaderLen
  <2> DEFINE high == b[4] % (Long + 1)
  <2>2. ASSUME n >= 4
        PROVE  /\ high \in 0..Long
               /\ \A v \in 0..Long : Split!IsFlagged(b[4], v) <=> high = v
               /\ Split!PayloadLen(b) = Low(b) + Above(b)
               /\ Low(b) \in Nat /\ Above(b) \in Nat
               /\ Above(b) = Base * Base * Base * high
    <3>1. 4 \in 1..Len(b) /\ 4 <= Len(b)
      BY <1>2, <2>2
    <3>2. high \in 0..Long
          /\ \A v \in 0..Long : Split!IsFlagged(b[4], v) <=> high = v
      BY <1>4, <3>1, Masked
    <3>3. /\ Split!PayloadLen(b) = Low(b) + Above(b)
          /\ Low(b) \in Nat /\ Above(b) \in Nat
      BY <1>2, <1>10, <2>1, <3>1, HeaderFacts
    <3>. QED  BY <3>2, <3>3 DEF Above
  <2> HIDE DEF high
  <2>3. ASSUME Counted(p)
        PROVE  isNext
    <3>1. PICK m \in 1..n : n = 4 + m /\ \E v \in 0..Long :
             Split!IsFlagged(p[4], v) /\ Low(p) = m - Base * Base * Base * v
      BY <1>3, <2>3 DEF Counted
    <3>2. PICK v \in 0..Long :
             Split!IsFlagged(p[4], v) /\ Low(p) = m - Base * Base * Base * v
      BY <3>1
    <3>3. n >= 4 /\ 4 <= Len(b) /\ m \in Nat /\ m # 0
      BY <1>2, <3>1
    <3>4. p[4] = b[4] /\ Low(p) = Low(b)
      BY <1>3, <3>3
    <3>5. high = v
      BY <2>2, <3>2, <3>3, <3>4
    <3>6. Above(b) = Base * Base * Base * v
      BY <2>2, <3>3, <3>5
    <3>7. Low(b) = m - Above(b) /\ Low(b) \in Nat /\ Above(b) \in Nat
      BY <2>2, <3>2, <3>3, <3>4, <3>6
    <3>8. Split!PayloadLen(b) = m
      BY <2>2, <3>3, <3>7
    <3>. QED  BY <2>1, <3>1, <3>3, <3>8
  <2>4. ASSUME isNext
        PROVE  Counted(p)
    <3> DEFINE m == Split!PayloadLen(b)
    <3>1. n = 4 + m /\ m # 0 /\ 4 <= Len(b)
      BY <2>1, <2>4
    <3>2. m \in Nat
      BY <1>2, <2>1, <2>4, PayloadIsNumber
    <3> HIDE DEF m
    <3>3. n >= 4 /\ m \in 1..n
      BY <1>2, <3>1, <3>2
    <3>4. p[4] = b[4] /\ Low(p) = Low(b)
      BY <1>3, <3>3
    <3>5. high \in 0..Long /\ Split!IsFlagged(p[4], high)
      BY <2>2, <3>3, <3>4
    <3>6. Low(p) = m - Above(b)
      <4>1. m = Low(b) + Above(b) /\ Low(b) \in Nat /\ Above(b) \in Nat
        BY <2>2, <3>3 DEF m
      <4>. QED  BY <3>2, <3>4, <4>1
    <3>7. Low(p) = m - Base * Base * Base * high
      BY <2>2, <3>3, <3>6, Zenon
    <3>. QED  BY <1>3, <3>1, <3>3, <3>5, <3>7 DEF Counted
  <2>. QED  BY <1>6, <1>10, <2>3, <2>4, PacketForms DEF p
<1>. QED  BY <1>8, <1>9, <1>10

\* A part lies within the stream, and if it was cut off as a packet it is one.
IsPacketOf(transport, b) ==
    IF transport = "abridged" THEN Short(b) \/ Marked(b) ELSE Counted(b)
At(p, stream) == [k \in 1..Len(p) |-> stream[p[k]]]
PartOk(part, stream, transport) ==
    /\ \A k \in 1..Len(part.bytes) : part.bytes[k] \in 1..Len(stream)
    /\ part.why = "packet" => IsPacketOf(transport, At(part.bytes, stream))

\* While the splitter reads, its buffer holds no whole packet.
CutInv ==
    /\ \A i \in 1..Len(sent) : PartOk(sent[i], got, proto)
    /\ cut = "reading" => Split!NextPacketLen(plain) = -1

LEMMA PartStaysOk ==
    ASSUME NEW g \in Seq(Bytes), NEW h \in Seq(Bytes), Len(g) <= Len(h),
           \A k \in 1..Len(g) : h[k] = g[k],
           NEW r, NEW t, PartOk(r, g, t)
    PROVE  PartOk(r, h, t)
<1>1. Len(g) \in Nat /\ Len(h) \in Nat
  BY LenProperties
<1>2. \A k \in 1..Len(r.bytes) : r.bytes[k] \in 1..Len(g)
  BY DEF PartOk
<1>3. \A k \in 1..Len(r.bytes) : r.bytes[k] \in 1..Len(h)
  BY <1>1, <1>2
<1>4. \A k \in 1..Len(r.bytes) : h[r.bytes[k]] = g[r.bytes[k]]
  BY <1>2
<1>5. At(r.bytes, h) = At(r.bytes, g)
  BY <1>4 DEF At
<1>. QED  BY <1>3, <1>5 DEF PartOk

\* The stream has grown and the parts are the same ones, or one more.
LEMMA PartsStayOk ==
    ASSUME SplitInv, CutInv, got' \in Seq(Bytes), Len(got) <= Len(got'),
           \A k \in 1..Len(got) : got'[k] = got[k], UNCHANGED proto,
           \/ UNCHANGED sent
           \/ \E p \in Seq(Nat), why \in Split!Why :
                 /\ PartOk(Split!Part(p, why), got', proto)
                 /\ sent' = Append(sent, Split!Part(p, why))
    PROVE  \A i \in 1..Len(sent') : PartOk(sent'[i], got', proto')
<1>1. \A i \in 1..Len(sent) : PartOk(sent[i], got', proto)
  <2>1. got \in Seq(Bytes) /\ \A i \in 1..Len(sent) : PartOk(sent[i], got, proto)
    BY DEF SplitInv, PartTypes, CutInv
  <2>. QED  BY <2>1, PartStaysOk
<1>2. CASE UNCHANGED sent
  BY <1>1, <1>2
<1>3. CASE \E p \in Seq(Nat), why \in Split!Why :
              /\ PartOk(Split!Part(p, why), got', proto)
              /\ sent' = Append(sent, Split!Part(p, why))
  <2>1. PICK p \in Seq(Nat), why \in Split!Why :
              /\ PartOk(Split!Part(p, why), got', proto)
              /\ sent' = Append(sent, Split!Part(p, why))
    BY <1>3
  <2> DEFINE part == Split!Part(p, why)
  <2> DEFINE Parts == [bytes : Seq(Nat), why : Split!Why]
  <2>2. sent \in Seq(Parts) /\ part \in Parts
    BY DEF SplitInv, PartTypes, Split!Part
  <2>3. sent' = Append(sent, part) /\ PartOk(part, got', proto)
    BY <2>1
  <2> HIDE DEF part, Parts
  <2>4. /\ Len(sent') = Len(sent) + 1 /\ Len(sent) \in Nat
        /\ \A i \in 1..Len(sent) : sent'[i] = sent[i]
        /\ sent'[Len(sent) + 1] = part
    BY <2>2, <2>3, AppendProperties, LenProperties
  <2>5. ASSUME NEW i \in 1..Len(sent')
        PROVE  PartOk(sent'[i], got', proto)
    <3>1. i \in 1..Len(sent) \/ i = Len(sent) + 1
      BY <2>4
    <3>. QED  BY <1>1, <2>3, <2>4, <3>1
  <2>. QED  BY <2>5
<1>. QED  BY <1>2, <1>3

\* The length that is decoded lies within the buffer.
LEMMA NextIsBounded ==
    ASSUME PartTypes
    PROVE  Split!NextPacketLen(plain) = -1 \/ Split!NextPacketLen(plain) \in 0..Len(plain)
<1>1. plain \in Seq(Bytes) /\ Len(plain) \in Nat
      /\ proto \in {"abridged", "intermediate"}
  BY LenProperties DEF PartTypes
<1>2. Split!HeaderLen(plain) \in {1, 4}
  BY DEF Split!HeaderLen
<1>3. CASE plain = <<>> \/ Len(plain) < Split!HeaderLen(plain)
  BY <1>3 DEF Split!NextPacketLen
<1>4. CASE plain # <<>> /\ ~(Len(plain) < Split!HeaderLen(plain))
  <2>1. Split!HeaderLen(plain) <= Len(plain)
    BY <1>1, <1>2, <1>4
  <2>2. Split!PayloadLen(plain) \in Nat
    BY <1>1, <1>4, <2>1, PayloadIsNumber
  <2>. QED  BY <1>1, <1>2, <1>4, <2>2 DEF Split!NextPacketLen
<1>. QED  BY <1>3, <1>4

\* The positions in the buffer, and the bytes of the stream there.
LEMMA BufferPlaces ==
    ASSUME SplitInv
    PROVE  /\ Len(got) \in Nat /\ Len(cipher) \in Nat /\ Len(plain) = Len(cipher)
           /\ \A k \in 1..Len(cipher) :
                 cipher[k] \in 1..Len(got) /\ got[cipher[k]] = plain[k]
<1>1. /\ cipher \in Seq(Nat) /\ got \in Seq(Bytes) /\ SentUpTo \in Nat
      /\ SentUpTo + Len(cipher) = Len(got) /\ Len(plain) = Len(cipher)
      /\ \A k \in 1..Len(cipher) : cipher[k] = SentUpTo + k
      /\ \A k \in 1..Len(plain) : plain[k] = got[SentUpTo + k]
  BY DEF SplitInv, PartTypes, BufferInv, IsRun
<1>2. Len(got) \in Nat /\ Len(cipher) \in Nat
  BY <1>1, LenProperties
<1>3. \A k \in 1..Len(cipher) : SentUpTo + k \in 1..Len(got)
  BY <1>1, <1>2
<1>. QED  BY <1>1, <1>2, <1>3

LEMMA RestIsOk ==
    ASSUME SplitInv, CutInv, UNCHANGED <<proto, got>>,
           sent' = Append(sent, Split!Part(cipher, "rest"))
    PROVE  \A i \in 1..Len(sent') : PartOk(sent'[i], got', proto')
<1>1. cipher \in Seq(Nat) /\ "rest" \in Split!Why /\ got \in Seq(Bytes)
  BY DEF SplitInv, PartTypes, Split!Why
<1>2. PartOk(Split!Part(cipher, "rest"), got, proto)
  <2>1. \A k \in 1..Len(cipher) : cipher[k] \in 1..Len(got)
    BY BufferPlaces
  <2>. QED  BY <2>1 DEF PartOk, Split!Part
<1>3. got' = got /\ proto' = proto /\ Len(got) <= Len(got)
  BY BufferPlaces
<1>. QED  BY <1>1, <1>2, <1>3, PartsStayOk

LEMMA SplitIsOk ==
    ASSUME SplitInv, CutInv, NEW chunk \in Seq(Bytes), Split!Split(chunk)
    PROVE  CutInv'
<1> DEFINE new == Split!Arrived(chunk)
<1>1. /\ Len(chunk) \in Nat /\ Len(got) \in Nat
      /\ got' \in Seq(Bytes) /\ Len(got') = Len(got) + Len(chunk)
      /\ \A k \in 1..Len(got) : got'[k] = got[k]
  <2>1. got' = got \o chunk /\ got \in Seq(Bytes)
    BY DEF Split!Split, SplitInv, PartTypes
  <2>. QED  BY <2>1, Joined
<1>2. /\ new \in Seq(Nat) /\ Len(new) = Len(chunk)
      /\ \A k \in 1..Len(new) : new[k] = Len(got) + k
  <2>1. new = [i \in 1..Len(chunk) |-> Len(got) + i]
    BY DEF Split!Arrived
  <2>2. \A i \in 1..Len(chunk) : Len(got) + i \in Nat
    BY <1>1
  <2>. QED  BY <1>1, <2>1, <2>2, IsASeq
<1> HIDE DEF new
<1>3. PartOk(Split!Part(new, "rest"), got', proto) /\ "rest" \in Split!Why
  <2>1. \A k \in 1..Len(new) : Len(got) + k \in 1..Len(got')
    BY <1>1, <1>2
  <2>2. \A k \in 1..Len(new) : new[k] \in 1..Len(got')
    BY <1>2, <2>1
  <2>. QED  BY <2>2 DEF PartOk, Split!Part, Split!Why
<1>4. UNCHANGED proto /\ Len(got) <= Len(got')
  BY <1>1 DEF Split!Split
<1>5. CASE disabled /\ sent' = Append(sent, Split!Part(new, "rest"))
           /\ UNCHANGED <<cipher, plain, cut>>
  <2>1. \A i \in 1..Len(sent') : PartOk(sent'[i], got', proto')
    BY <1>1, <1>2, <1>3, <1>4, <1>5, PartsStayOk
  <2>2. cut' = "reading" => Split!NextPacketLen(plain)' = -1
    <3>1. UNCHANGED <<cut, plain, proto>>
      BY <1>4, <1>5
    <3>2. Split!NextPacketLen(plain)' = Split!NextPacketLen(plain)
      BY <3>1 DEF Split!NextPacketLen, Split!HeaderLen, Split!PayloadLen
    <3>. QED  BY <3>1, <3>2 DEF CutInv
  <2>. QED  BY <2>1, <2>2 DEF CutInv
<1>6. CASE cut' = "cutting" /\ UNCHANGED sent
  <2>1. \A i \in 1..Len(sent') : PartOk(sent'[i], got', proto')
    BY <1>1, <1>4, <1>6, PartsStayOk
  <2>. QED  BY <1>6, <2>1 DEF CutInv
<1>. QED  BY <1>5, <1>6 DEF Split!Split, new

\* A packet that is cut off is one, by what the splitter has decoded.
LEMMA CutIsOk ==
    ASSUME SplitInv, CutInv, Split!CutPacket
    PROVE  CutInv'
<1> DEFINE n == Split!NextPacketLen(plain)
<1> DEFINE p == SubSeq(cipher, 1, n)
<1>1. /\ cut = "cutting" /\ n > 0 /\ Len(cipher) >= n
      /\ sent' = Append(sent, Split!Part(p, "packet"))
      /\ UNCHANGED <<proto, got, cut>>
  BY DEF Split!CutPacket
<1>2. /\ cipher \in Seq(Nat) /\ plain \in Seq(Bytes) /\ got \in Seq(Bytes)
      /\ proto \in {"abridged", "intermediate"} /\ n \in Int
  BY LengthIsNumber DEF SplitInv, PartTypes
<1>3. /\ Len(got) \in Nat /\ Len(cipher) \in Nat /\ Len(plain) = Len(cipher)
      /\ \A k \in 1..Len(cipher) : cipher[k] \in 1..Len(got) /\ got[cipher[k]] = plain[k]
  BY BufferPlaces
<1>4. n \in 1..Len(plain) /\ n \in Nat
  BY <1>1, <1>2, <1>3
<1>5. Split!IsPacket(SubSeq(plain, 1, n))
  <2>1. \A j \in 1..Len(plain) :
           Split!IsPacket(SubSeq(plain, 1, j)) <=> Split!NextPacketLen(plain) = j
    BY <1>2, PacketIsNext
  <2>. QED  BY <1>4, <2>1
<1> HIDE DEF n
<1>6. p \in Seq(Nat) /\ Len(p) = n /\ \A k \in 1..n : p[k] = cipher[k]
  <2> DEFINE Positions == Nat
  <2>1. cipher \in Seq(Positions) /\ n \in Nat /\ n > 0 /\ n <= Len(cipher)
    BY <1>1, <1>2, <1>3, <1>4
  <2> HIDE DEF Positions
  <2>2. /\ p \in Seq(Positions) /\ Len(p) = n /\ \A k \in 1..n : p[k] = cipher[k]
    BY <2>1, Halved
  <2>. QED  BY <2>2 DEF Positions
<1>7. /\ SubSeq(plain, 1, n) \in Seq(Bytes) /\ Len(SubSeq(plain, 1, n)) = n
      /\ \A k \in 1..n : SubSeq(plain, 1, n)[k] = plain[k]
  <2>1. n > 0 /\ n <= Len(plain)
    BY <1>4
  <2>. QED  BY <1>2, <1>4, <2>1, Halved
<1> HIDE DEF p
<1>8. \A k \in 1..n : k \in 1..Len(cipher)
  BY <1>3, <1>4
<1>9. At(p, got) = SubSeq(plain, 1, n)
  <2>1. \A k \in 1..n : got[p[k]] = SubSeq(plain, 1, n)[k]
    BY <1>3, <1>6, <1>7, <1>8
  <2>2. At(p, got) = [k \in 1..n |-> SubSeq(plain, 1, n)[k]]
    BY <1>6, <2>1 DEF At
  <2> DEFINE q == SubSeq(plain, 1, n)
  <2>3. q \in Seq(Bytes) /\ Len(q) = n
    BY <1>7
  <2> HIDE DEF q
  <2>4. q = [k \in 1..n |-> q[k]]
    BY <2>3
  <2>. QED  BY <2>2, <2>4 DEF q
<1>10. PartOk(Split!Part(p, "packet"), got, proto) /\ "packet" \in Split!Why
  <2>1. IsPacketOf(proto, At(p, got))
    BY <1>2, <1>5, <1>9, PacketForms DEF IsPacketOf
  <2>2. \A k \in 1..Len(p) : p[k] \in 1..Len(got)
    BY <1>3, <1>6, <1>8
  <2>. QED  BY <2>1, <2>2 DEF PartOk, Split!Part, Split!Why
<1>11. \A i \in 1..Len(sent') : PartOk(sent'[i], got', proto')
  <2>1. got' = got /\ proto' = proto /\ Len(got) <= Len(got)
    BY <1>1, <1>3
  <2>. QED  BY <1>1, <1>2, <1>6, <1>10, <2>1, PartsStayOk
<1>12. cut' # "reading"
  BY <1>1
<1>. QED  BY <1>11, <1>12 DEF CutInv

LEMMA CutStep ==
    ASSUME SplitInv, CutInv, [Split!Next]_(Split!vars)
    PROVE  CutInv'
<1>1. /\ got \in Seq(Bytes) /\ cipher \in Seq(Nat) /\ plain \in Seq(Bytes)
      /\ Len(plain) = Len(cipher) /\ Len(cipher) \in Nat
  BY BufferPlaces DEF SplitInv, PartTypes
<1>2. CASE UNCHANGED Split!vars
  BY <1>2 DEF Split!vars, CutInv, Split!NextPacketLen, Split!HeaderLen, Split!PayloadLen
<1>3. ASSUME NEW chunk \in Split!Chunks, Split!Split(chunk)
      PROVE  CutInv'
  <2>1. PICK k \in Sizes : chunk \in [1..k -> Bytes]
    BY DEF Split!Chunks
  <2>2. k \in Nat
    BY SplitAssumption DEF Split!ByteAssumption
  <2>3. chunk \in Seq(Bytes)
    BY <2>1, <2>2
  <2>. QED  BY <1>3, <2>3, SplitIsOk
<1>4. CASE Split!CutWaits
  <2>1. UNCHANGED <<proto, got, plain, sent>>
    BY <1>4 DEF Split!CutWaits
  <2>2. Split!NextPacketLen(plain) = -1
    <3>1. CASE cipher = <<>>
      <4>1. plain = <<>>
        BY <1>1, <3>1, EmptySeq
      <4>. QED  BY <4>1 DEF Split!NextPacketLen
    <3>2. CASE Split!NextPacketLen(plain) < 0 \/ Len(cipher) < Split!NextPacketLen(plain)
      BY <1>1, <3>2, NextIsBounded DEF SplitInv
    <3>. QED  BY <1>4, <3>1, <3>2 DEF Split!CutWaits
  <2>3. Split!NextPacketLen(plain)' = Split!NextPacketLen(plain)
    BY <2>1 DEF Split!NextPacketLen, Split!HeaderLen, Split!PayloadLen
  <2>. QED  BY <2>1, <2>2, <2>3 DEF CutInv
<1>5. ASSUME plain' = <<>>
      PROVE  Split!NextPacketLen(plain)' = -1
  BY <1>5 DEF Split!NextPacketLen
<1>6. CASE Split!CutRest
  <2>1. \A i \in 1..Len(sent') : PartOk(sent'[i], got', proto')
    BY <1>6, RestIsOk DEF Split!CutRest
  <2>. QED  BY <1>5, <1>6, <2>1 DEF CutInv, Split!CutRest
<1>7. CASE Split!CutPacket
  BY <1>7, CutIsOk
<1>8. CASE Split!Flush
  <2>1. \A i \in 1..Len(sent') : PartOk(sent'[i], got', proto')
    <3>1. CASE cipher = <<>>
      <4>1. UNCHANGED <<proto, got, sent>>
        BY <1>8, <3>1 DEF Split!Flush
      <4>. QED  BY <4>1 DEF CutInv
    <3>2. CASE cipher # <<>>
      BY <1>8, <3>2, RestIsOk DEF Split!Flush
    <3>. QED  BY <3>1, <3>2
  <2>2. cut' = "closed"
    BY <1>8 DEF Split!Flush
  <2>. QED  BY <2>1, <2>2 DEF CutInv
<1>. QED  BY <1>2, <1>3, <1>4, <1>6, <1>7, <1>8 DEF Split!Next

LEMMA OnePacketIsEach ==
    ASSUME SplitInv, CutInv
    PROVE  OnePacketEach
<1>1. proto \in {"abridged", "intermediate"} /\ plain \in Seq(Bytes)
  BY DEF SplitInv, PartTypes
<1>2. ASSUME NEW i \in 1..Len(sent), sent[i].why = "packet"
      PROVE  Split!IsPacket(Split!Plain(sent[i].bytes))
  <2>1. Split!Plain(sent[i].bytes) = At(sent[i].bytes, got)
    BY DEF Split!Plain, At
  <2>2. IsPacketOf(proto, At(sent[i].bytes, got))
    BY <1>2 DEF CutInv, PartOk
  <2>. QED  BY <1>1, <2>1, <2>2, PacketForms DEF IsPacketOf
<1>3. ASSUME cut = "reading", NEW n \in 1..Len(plain)
      PROVE  ~Split!IsPacket(SubSeq(plain, 1, n))
  <2>1. Split!NextPacketLen(plain) # n
    BY <1>1, <1>3, LenProperties DEF CutInv
  <2>. QED  BY <1>1, <2>1, PacketIsNext
<1>. QED  BY <1>2, <1>3 DEF OnePacketEach, Split!OnePacketEach

\* Every frame cut off as a packet holds exactly one packet of the client's
\* transport, and no whole packet waits in the buffer for the next chunk: for
\* every stream, every way TCP cuts it and every choice of the literals.
THEOREM OnePacketEachHolds == Split!Spec => []OnePacketEach
<1>1. Split!Init => SplitInv /\ CutInv
  <2>1. ASSUME Split!Init
        PROVE  CutInv
    <3>1. sent = <<>> /\ plain = <<>>
      BY <2>1 DEF Split!Init
    <3>2. Len(sent) = 0
      BY <3>1
    <3>. QED  BY <3>1, <3>2 DEF CutInv, Split!NextPacketLen
  <2>. QED  BY <2>1, SplitInit
<1>2. SplitInv /\ CutInv /\ [Split!Next]_(Split!vars) => (SplitInv /\ CutInv)'
  BY SplitStep, CutStep
<1>3. SplitInv /\ CutInv => OnePacketEach
  BY OnePacketIsEach
<1>. QED  BY <1>1, <1>2, <1>3, PTL DEF Split!Spec

\* The buffers and the parts hold bytes and positions, and the splitter is
\* always in one of its three states.
THEOREM SplitTypeCorrect == Split!Spec => []Split!TypeOK
<1> DEFINE Control == disabled \in BOOLEAN /\ cut \in {"reading", "cutting", "closed"}
<1>1. Split!Init => Control
  BY DEF Split!Init
<1>2. Control /\ [Split!Next]_(Split!vars) => Control'
  <2> SUFFICES ASSUME Control, [Split!Next]_(Split!vars)
               PROVE  Control'
    OBVIOUS
  <2>1. cut' \in {"reading", "cutting", "closed"}
    BY DEF Split!Next, Split!vars, Split!Split, Split!CutWaits, Split!CutRest,
           Split!CutPacket, Split!Flush
  <2>2. disabled' \in BOOLEAN
    BY Zenon DEF Split!Next, Split!vars, Split!Split, Split!CutWaits, Split!CutRest,
                 Split!CutPacket, Split!Flush
  <2>. QED  BY <2>1, <2>2
<1>3. SplitInv /\ Control => Split!TypeOK
  BY Zenon DEF SplitInv, PartTypes, Split!TypeOK
<1> HIDE DEF Control
<1>. QED  BY <1>1, <1>2, <1>3, SplitInit, SplitStep, PTL DEF Split!Spec
=============================================================================
