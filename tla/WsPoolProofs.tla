---------------------------- MODULE WsPoolProofs ----------------------------
(***************************************************************************)
(* Theorems about WsPool, for every number of slots and handlers, every    *)
(* set of pool sizes up to the cap and an unbounded clock.                 *)
(***************************************************************************)
EXTENDS WsPool, FiniteSetTheorems, FunctionTheorems, SequenceTheorems, TLAPS

LEMMA TaskSlotType ==
    ASSUME TypeOK, NEW t \in Tasks
    PROVE  TaskSlot(t) \in Slots
  BY SlotAssumption DEF TypeOK, TaskSlot, Tasks

\* The disjunction Next is made of, one quantified action per name.
LEMMA NextCases ==
    ASSUME Next
    PROVE  \/ \E h \in Handlers : GetBegin(h)
           \/ \E h \in Handlers : GetPop(h)
           \/ \E h \in Handlers : GetRefill(h)
           \/ \E s \in WarmSlots : Warmup(s)
           \/ \E t \in Tasks : RefillLen(t)
           \/ \E t \in Tasks : RefillSpawn(t)
           \/ \E t \in Tasks : RefillCollect(t)
           \/ \E t \in Tasks : RefillDone(t)
           \/ \E t \in Tasks : \E i \in DOMAIN handles[t] : DialOpen(t, i)
           \/ \E t \in Tasks : \E i \in DOMAIN handles[t] : DialFail(t, i)
           \/ \E c \in Closers : CloseAll(c)
           \/ \E c \in Closers, s \in Slots : CloseSlot(c, s)
           \/ \E n \in Sizes : SetPoolSize(n)
           \/ Cancel
           \/ Tick
  BY Zenon DEF Next, HandlerStep, RefillStep, DialStep, CloserStep

DialStates == {"dialing", "open", "failed"}

LEMMA GetPopType ==
    ASSUME TypeOK, NEW h \in Handlers, GetPop(h)
    PROVE  TypeOK'
<1> DEFINE q == queue[hslot[h]]
           usable == {i \in DOMAIN q : Usable(q[i], hnow[h])}
<1>1. hslot[h] \in Slots /\ q \in Seq(Nat)
  BY DEF TypeOK
<1>2. queue' \in [Slots -> Seq(Nat)] /\ closed' \in Nat
  <2>1. CASE \E i \in usable : /\ queue' = [queue EXCEPT ![hslot[h]] = SubSeq(q, i + 1, Len(q))]
                               /\ closed' = closed + (i - 1)
    <3>1. PICK i \in usable : /\ queue' = [queue EXCEPT ![hslot[h]] = SubSeq(q, i + 1, Len(q))]
                              /\ closed' = closed + (i - 1)
      BY <2>1
    <3>2. i \in 1..Len(q) /\ Len(q) \in Nat
      BY <1>1, LenProperties DEF usable
    <3>3. \A j \in (i + 1)..Len(q) : q[j] \in Nat
      <4>1. \A j \in 1..Len(q) : q[j] \in Nat
        BY <1>1, ElementOfSeq
      <4>. QED  BY <3>2, <4>1
    <3>4. SubSeq(q, i + 1, Len(q)) \in Seq(Nat)
      BY <3>2, <3>3, SubSeqProperties
    <3>5. queue' \in [Slots -> Seq(Nat)]
      BY <1>1, <3>1, <3>4, Zenon DEF TypeOK
    <3>6. closed' \in Nat
      <4>1. closed \in Nat /\ closed' = closed + (i - 1)
        BY <3>1 DEF TypeOK
      <4>2. i - 1 \in Nat
        BY <3>2
      <4>. QED  BY <4>1, <4>2
    <3>. QED  BY <3>5, <3>6
  <2>2. CASE /\ queue' = [queue EXCEPT ![hslot[h]] = <<>>]
             /\ closed' = closed + Len(q)
    BY <1>1, <2>2, LenProperties, EmptySeq DEF TypeOK
  <2>. QED  BY <2>1, <2>2 DEF GetPop
<1>3. hpc' \in [Handlers -> {"start", "slot", "popped", "done"}]
      /\ result' \in [Handlers -> {"none", "hit", "miss"}]
  BY DEF TypeOK, GetPop
<1>. QED  BY <1>2, <1>3 DEF TypeOK, GetPop, hvars, rvars, cvars

LEMMA RefillSpawnType ==
    ASSUME TypeOK, NEW t \in Tasks, RefillSpawn(t)
    PROVE  TypeOK'
<1>1. TaskSlot(t) \in Slots
  BY TaskSlotType
<1>2. handles' \in [Tasks -> Seq(DialStates)]
  <2>1. CASE handles' = handles
    BY <2>1 DEF TypeOK, DialStates
  <2>2. CASE /\ Needed(t) > 0
             /\ handles' = [handles EXCEPT ![t] =
                  [i \in 1..Needed(t) |-> IF canceled THEN "failed" ELSE "dialing"]]
    <3>1. Needed(t) \in Nat
      BY SizeAssumption DEF Needed, TypeOK
    <3>2. \A i \in 1..Needed(t) : (IF canceled THEN "failed" ELSE "dialing") \in DialStates
      BY DEF DialStates
    <3>3. [i \in 1..Needed(t) |-> IF canceled THEN "failed" ELSE "dialing"] \in Seq(DialStates)
      BY <3>1, <3>2, IsASeq
    <3>. QED  BY <2>2, <3>3 DEF TypeOK, DialStates
  <2>. QED  BY <2>1, <2>2 DEF RefillSpawn, FirstPoll
<1>3. refilling' \in [Slots -> {0, 1}]
  BY <1>1 DEF TypeOK, RefillSpawn, FirstPoll
<1>4. rpc' \in [Tasks -> {"none", "spawned", "sized", "dialing", "done"}]
  BY DEF TypeOK, RefillSpawn, FirstPoll
<1>. QED  BY <1>2, <1>3, <1>4 DEF TypeOK, RefillSpawn, FirstPoll, hvars, cvars, DialStates

LEMMA RefillCollectType ==
    ASSUME TypeOK, NEW t \in Tasks, RefillCollect(t)
    PROVE  TypeOK'
<1>1. TaskSlot(t) \in Slots
  BY TaskSlotType
<1>2. handles' \in [Tasks -> Seq(DialStates)]
  <2>1. handles[t] \in Seq(DialStates) /\ handles[t] # <<>>
    BY DEF TypeOK, RefillCollect, Pushed, DialStates
  <2>2. Tail(handles[t]) \in Seq(DialStates)
    BY <2>1, HeadTailProperties
  <2>. QED  BY <2>2 DEF TypeOK, RefillCollect, Pushed, DialStates
<1>3. queue' \in [Slots -> Seq(Nat)]
  <2>1. queue[TaskSlot(t)] \in Seq(Nat) /\ clock \in Nat
    BY <1>1 DEF TypeOK
  <2>2. Append(queue[TaskSlot(t)], clock) \in Seq(Nat)
    BY <2>1, AppendProperties
  <2>. QED  BY <1>1, <2>2 DEF TypeOK, RefillCollect, Pushed
<1>4. closed' \in Nat
  BY DEF TypeOK, RefillCollect, Pushed
<1>. QED  BY <1>2, <1>3, <1>4 DEF TypeOK, RefillCollect, Pushed, hvars, cvars, DialStates

LEMMA DialType ==
    ASSUME TypeOK, NEW t \in Tasks, NEW i \in DOMAIN handles[t],
           DialOpen(t, i) \/ DialFail(t, i)
    PROVE  TypeOK'
<1>1. handles[t] \in Seq(DialStates)
  BY DEF TypeOK, DialStates
<1>2. i \in 1..Len(handles[t])
  BY <1>1, LenProperties
<1>3. \A d \in DialStates : [handles[t] EXCEPT ![i] = d] \in Seq(DialStates)
  BY <1>1, <1>2, ExceptSeq
<1>4. handles' \in [Tasks -> Seq(DialStates)]
  BY <1>3 DEF TypeOK, DialOpen, DialFail, DialStates
<1>5. opened' \in Nat
  BY DEF TypeOK, DialOpen, DialFail
<1>. QED  BY <1>4, <1>5 DEF TypeOK, DialOpen, DialFail, hvars, cvars, DialStates

\* Every step keeps the types.
LEMMA TypeStep ==
    ASSUME TypeOK, [Next]_vars
    PROVE  TypeOK'
<1>1. CASE \E h \in Handlers : GetBegin(h)
  BY <1>1 DEF TypeOK, GetBegin, rvars, cvars
<1>2. CASE \E h \in Handlers : GetPop(h)
  BY <1>2, GetPopType
<1>3. CASE \E h \in Handlers : GetRefill(h)
  <2>1. PICK h \in Handlers : GetRefill(h)
    BY <1>3
  <2>2. /\ h \in Tasks
        /\ hslot[h] \in Slots
        /\ StartRefill(h, hslot[h])
    BY <2>1 DEF TypeOK, GetRefill, Tasks
  <2>3. /\ refilling' \in [Slots -> {0, 1}]
        /\ rpc' \in [Tasks -> {"none", "spawned", "sized", "dialing", "done"}]
    BY <2>2 DEF TypeOK, StartRefill
  <2>4. hpc' \in [Handlers -> {"start", "slot", "popped", "done"}]
    BY <2>1 DEF TypeOK, GetRefill
  <2>. QED  BY <2>1, <2>3, <2>4 DEF TypeOK, GetRefill, cvars
<1>4. CASE \E s \in WarmSlots : Warmup(s)
  <2>1. PICK s \in WarmSlots : Warmup(s)
    BY <1>4
  <2>2. s \in Slots /\ s \in Tasks
    BY SlotAssumption DEF Tasks
  <2>3. refilling' = refilling \/ refilling' = [refilling EXCEPT ![s] = 1]
    BY <2>1 DEF Warmup, StartRefill
  <2>4. rpc' = [rpc EXCEPT ![s] = "spawned"] \/ rpc' = [rpc EXCEPT ![s] = "done"]
    BY <2>1 DEF Warmup, StartRefill
  <2>5. /\ refilling' \in [Slots -> {0, 1}]
        /\ rpc' \in [Tasks -> {"none", "spawned", "sized", "dialing", "done"}]
    BY <2>2, <2>3, <2>4 DEF TypeOK
  <2>6. UNCHANGED <<clock, canceled, poolSize, queue, hvars, rlen, handles, cvars, opened, closed>>
    BY <2>1 DEF Warmup
  <2>. QED  BY <2>5, <2>6 DEF TypeOK, hvars, cvars
<1>5. CASE \E t \in Tasks : RefillLen(t)
  <2>1. PICK t \in Tasks : RefillLen(t)
    BY <1>5
  <2>2. Len(queue[TaskSlot(t)]) \in Nat
    BY TaskSlotType, LenProperties DEF TypeOK
  <2>. QED  BY <2>1, <2>2 DEF TypeOK, RefillLen, hvars, cvars
<1>6. CASE \E t \in Tasks : RefillSpawn(t)
  BY <1>6, RefillSpawnType
<1>7. CASE \E t \in Tasks : RefillCollect(t)
  BY <1>7, RefillCollectType
<1>8. CASE \E t \in Tasks : RefillDone(t)
  BY <1>8, TaskSlotType DEF TypeOK, RefillDone, hvars, cvars
<1>9. CASE \E t \in Tasks : \E i \in DOMAIN handles[t] : DialOpen(t, i) \/ DialFail(t, i)
  BY <1>9, DialType
<1>10. CASE \E c \in Closers : CloseAll(c)
  BY <1>10 DEF TypeOK, CloseAll, hvars, rvars
<1>11. CASE \E c \in Closers, s \in Slots : CloseSlot(c, s)
  <2>1. PICK c \in Closers, s \in Slots : CloseSlot(c, s)
    BY <1>11
  <2>2. Len(queue[s]) \in Nat /\ <<>> \in Seq(Nat)
    BY LenProperties, EmptySeq DEF TypeOK
  <2>. QED  BY <2>1, <2>2 DEF TypeOK, CloseSlot, hvars, rvars
<1>12. CASE \E n \in Sizes : SetPoolSize(n)
  BY <1>12 DEF TypeOK, SetPoolSize, hvars, rvars, cvars
<1>13. CASE Cancel
  BY <1>13 DEF TypeOK, Cancel, hvars, rvars, cvars
<1>14. CASE Tick
  BY <1>14 DEF TypeOK, Tick, hvars, rvars, cvars
<1>15. CASE UNCHANGED vars
  BY <1>15 DEF TypeOK, vars, hvars, rvars, cvars
<1>. QED
  BY <1>1, <1>2, <1>3, <1>4, <1>5, <1>6, <1>7, <1>8, <1>9, <1>10, <1>11,
     <1>12, <1>13, <1>14, <1>15, NextCases

LEMMA TypeInit ==
    ASSUME Init
    PROVE  TypeOK
<1>1. <<>> \in Seq(Nat) /\ <<>> \in Seq({"dialing", "open", "failed"})
  OBVIOUS
<1>2. /\ queue \in [Slots -> Seq(Nat)]
      /\ handles \in [Tasks -> Seq({"dialing", "open", "failed"})]
  BY <1>1, Zenon DEF Init
<1>3. cpc \in [Closers -> {"before", "draining", "done"}]
  BY DEF Init
<1>4. /\ refilling \in [Slots -> {0, 1}]
      /\ hpc \in [Handlers -> {"start", "slot", "popped", "done"}]
      /\ hslot \in [Handlers -> Slots]
      /\ hnow \in [Handlers -> Nat]
      /\ result \in [Handlers -> {"none", "hit", "miss"}]
      /\ rpc \in [Tasks -> {"none", "spawned", "sized", "dialing", "done"}]
      /\ rlen \in [Tasks -> Nat]
  BY DEF Init
<1>. QED  BY <1>2, <1>3, <1>4 DEF Init, TypeOK

\* The variables of the pool always have their types.
THEOREM TypeCorrect == Spec => []TypeOK
  BY TypeInit, TypeStep, PTL DEF Spec

-----------------------------------------------------------------------------
(* The refill protocol.  OneRefiller and BoundedIdle are not inductive: the  *)
(* flag only excludes a second refill task if no handler that has not yet    *)
(* done its CAS already owns one, and the bound on the pushes of a task goes *)
(* back to the length it read, which only stays an upper bound of the queue  *)
(* because nobody else pushes.                                               *)

Works(t, s) == rpc[t] \in {"spawned", "sized", "dialing"} /\ TaskSlot(t) = s

FlagInv ==
    /\ \A s \in Slots : refilling[s] = 0 => \A t \in Tasks : ~Works(t, s)
    /\ \A s \in Slots : refilling[s] = 1 => \E t \in Tasks : Works(t, s)
    /\ \A s \in Slots, t \in Tasks, u \in Tasks :
          Works(t, s) /\ Works(u, s) => t = u
    /\ \A h \in Handlers : hpc[h] # "done" => rpc[h] = "none"

LengthInv ==
    /\ \A s \in Slots : Len(queue[s]) <= MaxIdle
    /\ \A t \in Tasks : rpc[t] = "sized" => Len(queue[TaskSlot(t)]) <= rlen[t]
    /\ \A t \in Tasks : rpc[t] = "dialing" =>
                            Len(queue[TaskSlot(t)]) + Len(handles[t]) <= MaxIdle
    /\ \A t \in Tasks : rpc[t] # "dialing" => handles[t] = <<>>

AgeInv ==
    /\ OrderedByAge
    /\ \A s \in Slots : \A i \in DOMAIN queue[s] : queue[s][i] <= clock

\* A handler has no answer before it has popped.
AnswerInv ==
    \A h \in Handlers : hpc[h] \in {"start", "slot"} => result[h] = "none"

IInv == TypeOK /\ FlagInv /\ LengthInv /\ AgeInv /\ AnswerInv

\* q is what is left of p after some entries were taken from its front.
IsSuffixOf(q, p) ==
    \E k \in 0..Len(p) :
        /\ Len(q) = Len(p) - k
        /\ \A i \in 1..Len(q) : q[i] = p[i + k]

\* What is left behind place i.
LEMMA RestFacts ==
    ASSUME NEW q \in Seq(Nat), NEW i \in 1..Len(q)
    PROVE  /\ SubSeq(q, i + 1, Len(q)) \in Seq(Nat)
           /\ Len(SubSeq(q, i + 1, Len(q))) = Len(q) - i
           /\ \A j \in 1..(Len(q) - i) : SubSeq(q, i + 1, Len(q))[j] = q[j + i]
<1>1. Len(q) \in Nat /\ i \in Int /\ i + 1 \in Int /\ Len(q) \in Int
  BY LenProperties
<1> DEFINE m == i + 1
           n == Len(q)
<1>2. \A j \in m..n : q[j] \in Nat
  BY <1>1, ElementOfSeq
<1>3. m \in Int /\ n \in Int
  BY <1>1
<1> HIDE DEF m, n
<1>4. /\ SubSeq(q, m, n) \in Seq(Nat)
      /\ Len(SubSeq(q, m, n)) = IF m <= n THEN n - m + 1 ELSE 0
      /\ \A j \in 1..(n - m + 1) : SubSeq(q, m, n)[j] = q[m + j - 1]
  BY <1>2, <1>3, SubSeqProperties
<1>5. Len(SubSeq(q, m, n)) = n - i
  BY <1>1, <1>4 DEF m, n
<1>6. ASSUME NEW j \in 1..(n - i)
      PROVE  SubSeq(q, m, n)[j] = q[j + i]
  <2>1. j \in 1..(n - m + 1) /\ m + j - 1 = j + i
    BY <1>1, <1>5 DEF m, n
  <2>. QED  BY <1>4, <2>1
<1>. QED  BY <1>1, <1>4, <1>5, <1>6 DEF m, n

LEMMA SubSeqIsSuffix ==
    ASSUME NEW q \in Seq(Nat), NEW i \in 1..Len(q)
    PROVE  IsSuffixOf(SubSeq(q, i + 1, Len(q)), q)
<1>1. Len(q) \in Nat /\ i \in 0..Len(q)
  BY LenProperties
<1>. QED  BY <1>1, RestFacts DEF IsSuffixOf

\* get and close_all only take entries from the front of a queue.
LEMMA TakenFromFront ==
    ASSUME TypeOK,
           \/ \E h \in Handlers : GetPop(h)
           \/ \E c \in Closers, s \in Slots : CloseSlot(c, s),
           NEW x \in Slots
    PROVE  IsSuffixOf(queue'[x], queue[x])
<1>1. \A q \in Seq(Nat) : Len(q) \in Nat /\ IsSuffixOf(q, q) /\ IsSuffixOf(<<>>, q)
  BY LenProperties DEF IsSuffixOf
<1>2. queue[x] \in Seq(Nat)
  BY DEF TypeOK
<1>3. ASSUME NEW h \in Handlers, GetPop(h)
      PROVE  IsSuffixOf(queue'[x], queue[x])
  <2> DEFINE q == queue[hslot[h]]
             usable == {i \in DOMAIN q : Usable(q[i], hnow[h])}
  <2>1. hslot[h] \in Slots /\ q \in Seq(Nat)
    BY DEF TypeOK
  <2>2. CASE queue' = [queue EXCEPT ![hslot[h]] = <<>>]
    BY <2>2, <1>1, <1>2, <2>1 DEF TypeOK
  <2>3. CASE \E i \in usable : queue' = [queue EXCEPT ![hslot[h]] = SubSeq(q, i + 1, Len(q))]
    <3>1. PICK i \in usable : queue' = [queue EXCEPT ![hslot[h]] = SubSeq(q, i + 1, Len(q))]
      BY <2>3
    <3>2. i \in 1..Len(q) /\ Len(q) \in Nat
      BY <2>1, LenProperties
    <3>7. IsSuffixOf(SubSeq(q, i + 1, Len(q)), q)
      BY <2>1, <3>2, SubSeqIsSuffix
    <3>8. CASE x = hslot[h]
      <4>1. queue'[x] = SubSeq(q, i + 1, Len(q))
        BY <3>1, <3>8, <2>1 DEF TypeOK
      <4>. QED  BY <4>1, <3>7, <3>8
    <3>9. CASE x # hslot[h]
      <4>1. queue'[x] = queue[x]
        BY <3>1, <3>9, <2>1 DEF TypeOK
      <4>. QED  BY <4>1, <1>1, <1>2
    <3>. QED  BY <3>8, <3>9
  <2>. QED  BY <1>3, <2>2, <2>3 DEF GetPop
<1>4. ASSUME NEW c \in Closers, NEW s \in Slots, CloseSlot(c, s)
      PROVE  IsSuffixOf(queue'[x], queue[x])
  BY <1>4, <1>1, <1>2 DEF CloseSlot, TypeOK
<1>. QED  BY <1>3, <1>4

LEMMA FlagStep ==
    ASSUME TypeOK, FlagInv, [Next]_vars
    PROVE  FlagInv'
<1>0. \A t \in Tasks : TaskSlot(t) \in Slots
  BY TaskSlotType
<1>1. ASSUME UNCHANGED <<refilling, rpc, hslot>>, 
             \A h \in Handlers : hpc'[h] # "done" => hpc[h] # "done"
      PROVE  FlagInv'
  BY <1>1 DEF FlagInv, Works, TaskSlot
<1>2. CASE \E h \in Handlers : GetBegin(h) \/ GetPop(h)
  BY <1>1, <1>2 DEF TypeOK, GetBegin, GetPop, rvars, cvars
<1>3. CASE \E h \in Handlers : GetRefill(h)
  <2>1. PICK h \in Handlers : GetRefill(h)
    BY <1>3
  <2>2. h \in Tasks /\ TaskSlot(h) = hslot[h] /\ rpc[h] = "none" /\ hslot' = hslot
    BY <2>1 DEF Tasks, TaskSlot, GetRefill, FlagInv
  <2>3. \A s : \A t \in Tasks : t # h => (Works(t, s)' <=> Works(t, s))
    BY <2>1, <2>2 DEF GetRefill, StartRefill, Works, TaskSlot, TypeOK
  <2>4. \A g \in Handlers : hpc'[g] # "done" => hpc[g] # "done" /\ g # h
    BY <2>1 DEF GetRefill, TypeOK
  <2>5. CASE refilling[hslot[h]] = 1
    <3>1. UNCHANGED <<refilling, rpc, hslot>>
      BY <2>1, <2>2, <2>5 DEF GetRefill, StartRefill
    <3>. QED  BY <3>1, <2>4, <1>1
  <2>6. CASE refilling[hslot[h]] = 0
    <3>1. /\ refilling' = [refilling EXCEPT ![hslot[h]] = 1]
          /\ rpc' = [rpc EXCEPT ![h] = "spawned"]
      BY <2>1, <2>6 DEF GetRefill, StartRefill
    <3>2. \A s : Works(h, s)' <=> s = hslot[h]
      BY <3>1, <2>2 DEF Works, TaskSlot, TypeOK
    <3>3. \A t \in Tasks : ~Works(t, hslot[h])
      BY <2>6 DEF FlagInv, TypeOK
    <3>4. \A s \in Slots : refilling'[s] = IF s = hslot[h] THEN 1 ELSE refilling[s]
      BY <3>1 DEF TypeOK
    <3>5. \A g \in Handlers : hpc'[g] # "done" => rpc'[g] = "none"
      BY <2>4, <3>1 DEF FlagInv, TypeOK, Tasks
    <3>6. \A x \in Slots : refilling'[x] = 0 => \A t \in Tasks : ~Works(t, x)'
      BY <2>2, <2>3, <3>2, <3>4 DEF FlagInv
    <3>7. ASSUME NEW x \in Slots, refilling'[x] = 1
         PROVE  \E t \in Tasks : Works(t, x)'
      <4>1. CASE x = hslot[h]
        BY <4>1, <2>2, <3>2
      <4>2. CASE x # hslot[h]
        <5>1. PICK t \in Tasks : Works(t, x)
          BY <3>7, <3>4, <4>2 DEF FlagInv
        <5>2. t # h
          BY <5>1, <2>2 DEF Works
        <5>. QED  BY <5>1, <5>2, <2>3
      <4>. QED  BY <4>1, <4>2
    <3>8. \A x \in Slots, t \in Tasks, u \in Tasks :
            Works(t, x)' /\ Works(u, x)' => t = u
      BY <2>2, <2>3, <3>2, <3>3 DEF FlagInv
    <3>. QED  BY <3>5, <3>6, <3>7, <3>8 DEF FlagInv
  <2>. QED  BY <2>5, <2>6 DEF TypeOK
<1>4. CASE \E s \in WarmSlots : Warmup(s)
  <2>1. PICK s \in WarmSlots : Warmup(s)
    BY <1>4
  <2>2. /\ s \in Tasks /\ s \in Slots /\ TaskSlot(s) = s /\ s \notin Handlers
        /\ rpc[s] = "none" /\ UNCHANGED <<hslot, hpc>>
    BY <2>1, SlotAssumption DEF Tasks, TaskSlot, Warmup, hvars
  <2>3. \A x : \A t \in Tasks : t # s => (Works(t, x)' <=> Works(t, x))
    BY <2>1, <2>2 DEF Warmup, StartRefill, Works, TaskSlot, TypeOK
  <2>4. \A g \in Handlers : rpc'[g] = rpc[g]
    BY <2>1, <2>2 DEF Warmup, StartRefill, TypeOK, Tasks
  <2>5. CASE refilling[s] = 1
    <3>1. refilling' = refilling /\ rpc' = [rpc EXCEPT ![s] = "done"]
      BY <2>1, <2>5 DEF Warmup
    <3>2. \A x : ~Works(s, x)' /\ ~Works(s, x)
      BY <3>1, <2>2 DEF Works, TypeOK
    <3>. QED  BY <2>2, <2>3, <2>4, <3>1, <3>2 DEF FlagInv
  <2>6. CASE refilling[s] = 0
    <3>1. /\ refilling' = [refilling EXCEPT ![s] = 1]
          /\ rpc' = [rpc EXCEPT ![s] = "spawned"]
      BY <2>1, <2>6 DEF Warmup, StartRefill
    <3>2. \A x : Works(s, x)' <=> x = s
      BY <3>1, <2>2 DEF Works, TaskSlot, TypeOK
    <3>3. \A t \in Tasks : ~Works(t, s)
      BY <2>2, <2>6 DEF FlagInv
    <3>4. \A x \in Slots : refilling'[x] = IF x = s THEN 1 ELSE refilling[x]
      BY <3>1 DEF TypeOK
    <3>5. \A x \in Slots : refilling'[x] = 0 => \A t \in Tasks : ~Works(t, x)'
      BY <2>2, <2>3, <3>2, <3>4 DEF FlagInv
    <3>6. ASSUME NEW x \in Slots, refilling'[x] = 1
         PROVE  \E t \in Tasks : Works(t, x)'
      <4>1. CASE x = s
        BY <4>1, <2>2, <3>2
      <4>2. CASE x # s
        <5>1. PICK t \in Tasks : Works(t, x)
          BY <3>6, <3>4, <4>2 DEF FlagInv
        <5>2. t # s
          BY <5>1, <2>2 DEF Works
        <5>. QED  BY <5>1, <5>2, <2>3
      <4>. QED  BY <4>1, <4>2
    <3>7. \A x \in Slots, t \in Tasks, u \in Tasks :
            Works(t, x)' /\ Works(u, x)' => t = u
      BY <2>2, <2>3, <3>2, <3>3 DEF FlagInv
    <3>. QED  BY <2>2, <2>4, <3>5, <3>6, <3>7 DEF FlagInv
  <2>. QED  BY <2>2, <2>5, <2>6 DEF TypeOK
<1>5. ASSUME NEW t \in Tasks, Works(t, TaskSlot(t)), hslot' = hslot, hpc' = hpc,
             \/ /\ refilling' = [refilling EXCEPT ![TaskSlot(t)] = 0]
                /\ rpc' = [rpc EXCEPT ![t] = "done"]
             \/ /\ refilling' = refilling
                /\ \E p \in {"sized", "dialing"} : rpc' = [rpc EXCEPT ![t] = p]
      PROVE  FlagInv'
  <2>1. \A x : \A u \in Tasks : u # t => (Works(u, x)' <=> Works(u, x))
    BY <1>5 DEF Works, TaskSlot, TypeOK
  <2>2. \A h \in Handlers : hpc[h] # "done" => h # t
    BY <1>5 DEF FlagInv, Works
  <2>3. \A h \in Handlers : hpc'[h] # "done" => rpc'[h] = "none"
    BY <1>5, <2>2 DEF FlagInv, TypeOK, Tasks
  <2>4. CASE /\ refilling' = [refilling EXCEPT ![TaskSlot(t)] = 0]
             /\ rpc' = [rpc EXCEPT ![t] = "done"]
    <3>1. \A x : ~Works(t, x)'
      BY <2>4 DEF Works, TypeOK
    <3>2. \A x \in Slots : refilling'[x] = IF x = TaskSlot(t) THEN 0 ELSE refilling[x]
      BY <2>4 DEF TypeOK
    <3>3. \A u \in Tasks : Works(u, TaskSlot(t)) => u = t
      BY <1>0, <1>5 DEF FlagInv
    <3>4. \A x \in Slots : x # TaskSlot(t) => ~Works(t, x)
      BY DEF Works
    <3>. QED  BY <1>0, <2>1, <2>3, <3>1, <3>2, <3>3, <3>4 DEF FlagInv
  <2>5. CASE /\ refilling' = refilling
             /\ \E p \in {"sized", "dialing"} : rpc' = [rpc EXCEPT ![t] = p]
    <3>1. \A x : Works(t, x)' <=> Works(t, x)
      BY <1>5, <2>5 DEF Works, TaskSlot, TypeOK
    <3>. QED  BY <2>1, <2>3, <2>5, <3>1 DEF FlagInv
  <2>. QED  BY <1>5, <2>4, <2>5
<1>6. CASE \E t \in Tasks : RefillLen(t) \/ RefillSpawn(t) \/ RefillDone(t)
  BY <1>5, <1>6 DEF RefillLen, RefillSpawn, FirstPoll, RefillDone, Works, hvars
<1>7. CASE \E t \in Tasks : RefillCollect(t)
  BY <1>1, <1>7 DEF RefillCollect, Pushed, hvars
<1>8. CASE \E t \in Tasks : \E i \in DOMAIN handles[t] : DialOpen(t, i) \/ DialFail(t, i)
  BY <1>1, <1>8 DEF DialOpen, DialFail, hvars
<1>9. CASE \E c \in Closers : CloseAll(c) \/ \E s \in Slots : CloseSlot(c, s)
  BY <1>1, <1>9 DEF CloseAll, CloseSlot, hvars, rvars
<1>10. CASE (\E n \in Sizes : SetPoolSize(n)) \/ Cancel \/ Tick
  BY <1>1, <1>10 DEF SetPoolSize, Cancel, Tick, hvars, rvars
<1>11. CASE UNCHANGED vars
  BY <1>1, <1>11 DEF vars, hvars, rvars
<1>. QED
  BY <1>2, <1>3, <1>4, <1>6, <1>7, <1>8, <1>9, <1>10, <1>11, NextCases

LEMMA SuffixIsShorter ==
    ASSUME NEW p \in Seq(Nat), NEW q \in Seq(Nat), IsSuffixOf(q, p)
    PROVE  Len(q) <= Len(p)
  BY LenProperties DEF IsSuffixOf

LEMMA SumMonotone ==
    ASSUME NEW a \in Nat, NEW b \in Nat, NEW c \in Nat, NEW m \in Nat,
           a <= b, b + c <= m
    PROVE  a + c <= m /\ a <= m
  OBVIOUS

\* Steps that leave the tasks alone and push nothing keep the length bounds.
LEMMA LengthShrinks ==
    ASSUME TypeOK, TypeOK', LengthInv, UNCHANGED <<hslot, rpc, rlen>>,
           \A x \in Slots : Len(queue'[x]) <= Len(queue[x]),
           \A t \in Tasks :
              \/ handles'[t] = handles[t]
              \/ rpc[t] = "dialing" /\ Len(handles'[t]) = Len(handles[t])
    PROVE  LengthInv'
<1>1. \A x \in Slots : Len(queue[x]) \in Nat /\ Len(queue'[x]) \in Nat
  BY LenProperties DEF TypeOK
<1>2. \A t \in Tasks : /\ Len(handles[t]) \in Nat /\ Len(handles'[t]) \in Nat
                       /\ rlen[t] \in Nat
  BY LenProperties DEF TypeOK
<1>3. \A t \in Tasks : TaskSlot(t) \in Slots /\ TaskSlot(t)' = TaskSlot(t)
  BY TaskSlotType DEF TaskSlot
<1>4. MaxIdle \in Nat
  BY SizeAssumption
<1>5. \A x \in Slots : Len(queue'[x]) <= MaxIdle
  BY <1>1, <1>4 DEF LengthInv
<1>6. ASSUME NEW t \in Tasks, rpc'[t] = "sized"
      PROVE  Len(queue'[TaskSlot(t)]) <= rlen'[t]
  BY <1>1, <1>2, <1>3, <1>6 DEF LengthInv
<1>7. ASSUME NEW t \in Tasks, rpc'[t] = "dialing"
      PROVE  Len(queue'[TaskSlot(t)]) + Len(handles'[t]) <= MaxIdle
  <2>1. Len(handles'[t]) = Len(handles[t])
    OBVIOUS
  <2>2. Len(queue[TaskSlot(t)]) + Len(handles[t]) <= MaxIdle
    BY <1>7 DEF LengthInv
  <2>3. /\ Len(queue'[TaskSlot(t)]) <= Len(queue[TaskSlot(t)])
        /\ Len(queue[TaskSlot(t)]) \in Nat /\ Len(queue'[TaskSlot(t)]) \in Nat
        /\ Len(handles[t]) \in Nat
    BY <1>1, <1>2, <1>3
  <2>. QED  BY <1>4, <2>1, <2>2, <2>3, SumMonotone
<1>8. ASSUME NEW t \in Tasks, rpc'[t] # "dialing"
      PROVE  handles'[t] = <<>>
  BY <1>8 DEF LengthInv
<1>. QED  BY <1>3, <1>5, <1>6, <1>7, <1>8 DEF LengthInv

\* Steps of one task, on its own length bookkeeping or on the push.
LEMMA LengthRefill ==
    ASSUME TypeOK, TypeOK', FlagInv, LengthInv, NEW t \in Tasks, RefillStep(t)
    PROVE  LengthInv'
<1>1. \A x \in Slots : Len(queue[x]) \in Nat /\ Len(queue'[x]) \in Nat
  BY LenProperties DEF TypeOK
<1>2. \A u \in Tasks : /\ Len(handles[u]) \in Nat /\ Len(handles'[u]) \in Nat
                       /\ rlen[u] \in Nat
  BY LenProperties DEF TypeOK
<1>3. \A u \in Tasks : TaskSlot(u) \in Slots /\ TaskSlot(u)' = TaskSlot(u)
  BY TaskSlotType DEF TaskSlot, RefillStep, RefillLen, RefillSpawn, FirstPoll, RefillCollect, Pushed,
                      RefillDone, hvars
<1>4. MaxIdle \in Nat /\ poolSize \in Nat /\ poolSize <= MaxIdle
  BY SizeAssumption DEF TypeOK
<1> DEFINE s == TaskSlot(t)
<1>5. CASE RefillLen(t)
  <2>1. \A u \in Tasks : u # t => rpc'[u] = rpc[u] /\ rlen'[u] = rlen[u]
    BY <1>5 DEF RefillLen, TypeOK
  <2>2. rpc'[t] = "sized" /\ rlen'[t] = Len(queue[s]) /\ queue' = queue /\ handles' = handles
    BY <1>5 DEF RefillLen, TypeOK
  <2>3. rpc[t] = "spawned" /\ handles[t] = <<>>
    BY <1>5 DEF RefillLen, LengthInv
  <2>4. Len(queue[s]) <= Len(queue[s])
    BY <1>1, <1>3
  <2>5. \A u \in Tasks : rpc'[u] = "sized" => Len(queue'[TaskSlot(u)]) <= rlen'[u]
    BY <2>1, <2>2, <2>4 DEF LengthInv
  <2>6. \A u \in Tasks : rpc'[u] = "dialing" => u # t
    BY <2>2
  <2>7. \A u \in Tasks : rpc'[u] = "dialing" =>
            Len(queue'[TaskSlot(u)]) + Len(handles'[u]) <= MaxIdle
    BY <2>1, <2>2, <2>6 DEF LengthInv
  <2>8. \A u \in Tasks : rpc'[u] # "dialing" => handles'[u] = <<>>
    BY <2>1, <2>2, <2>3 DEF LengthInv
  <2>9. \A x \in Slots : Len(queue'[x]) <= MaxIdle
    BY <2>2 DEF LengthInv
  <2>. QED  BY <1>3, <2>5, <2>7, <2>8, <2>9 DEF LengthInv
<1>6. CASE RefillSpawn(t)
  <2>1. \A u \in Tasks : u # t => rpc'[u] = rpc[u] /\ handles'[u] = handles[u]
    BY <1>6 DEF RefillSpawn, FirstPoll, TypeOK
  <2>2. rpc[t] = "sized" /\ queue' = queue /\ rlen' = rlen
    BY <1>6 DEF RefillSpawn, FirstPoll
  <2>3. CASE rpc' = [rpc EXCEPT ![t] = "done"] /\ handles' = handles
    <3>1. rpc'[t] = "done" /\ handles'[t] = <<>>
      BY <2>2, <2>3 DEF LengthInv, TypeOK
    <3>. QED  BY <1>3, <2>1, <2>2, <3>1 DEF LengthInv
  <2>4. CASE /\ Needed(t) > 0
             /\ rpc' = [rpc EXCEPT ![t] = "dialing"]
             /\ handles' = [handles EXCEPT ![t] =
                  [i \in 1..Needed(t) |-> IF canceled THEN "failed" ELSE "dialing"]]
    <3>1. rpc'[t] = "dialing"
          /\ handles'[t] = [i \in 1..Needed(t) |-> IF canceled THEN "failed" ELSE "dialing"]
      BY <2>4 DEF TypeOK
    <3>2. Needed(t) = poolSize - rlen[t] /\ Needed(t) \in Nat
      BY <1>2, <1>4, <2>4 DEF Needed
    <3>3. Len(handles'[t]) = Needed(t)
      <4> DEFINE d == [i \in 1..Needed(t) |-> IF canceled THEN "failed" ELSE "dialing"]
      <4>1. d \in Seq(DialStates)
        BY <3>2, IsASeq DEF DialStates
      <4>2. DOMAIN d = 1..Needed(t)
        OBVIOUS
      <4>3. Len(d) = Needed(t)
        BY <4>1, <4>2, <3>2, LenProperties
      <4>. QED  BY <3>1, <4>3
    <3>4. Len(queue[s]) <= rlen[t]
      BY <2>2 DEF LengthInv
    <3>5. Len(queue[s]) + Len(handles'[t]) <= MaxIdle
      BY <1>1, <1>2, <1>3, <1>4, <3>2, <3>3, <3>4
    <3>. QED  BY <1>3, <2>1, <2>2, <3>1, <3>5 DEF LengthInv
  <2>. QED  BY <1>6, <2>3, <2>4 DEF RefillSpawn, FirstPoll
<1>7. CASE RefillCollect(t)
  <2>1. /\ rpc[t] = "dialing" /\ rpc' = rpc /\ rlen' = rlen
        /\ handles[t] # <<>> /\ handles' = [handles EXCEPT ![t] = Tail(@)]
    BY <1>7 DEF RefillCollect, Pushed
  <2>2. Len(handles'[t]) = Len(handles[t]) - 1
    BY <2>1, HeadTailProperties DEF TypeOK
  <2>3. /\ \A x \in Slots : x # s => queue'[x] = queue[x]
        /\ Len(queue'[s]) <= Len(queue[s]) + 1
    <3>1. CASE queue' = queue
      <4>1. Len(queue[s]) <= Len(queue[s]) + 1
        BY <1>1, <1>3
      <4>. QED  BY <3>1, <4>1
    <3>2. CASE queue' = [queue EXCEPT ![s] = Append(@, clock)]
      <4>1. queue[s] \in Seq(Nat) /\ clock \in Nat
        BY <1>3 DEF TypeOK
      <4>2. Len(Append(queue[s], clock)) = Len(queue[s]) + 1
        BY <4>1, AppendProperties
      <4>3. \A x \in Slots : queue'[x] = IF x = s THEN Append(queue[s], clock) ELSE queue[x]
        BY <3>2 DEF TypeOK
      <4>4. Len(queue'[s]) = Len(queue[s]) + 1
        BY <1>3, <4>2, <4>3
      <4>5. Len(queue'[s]) <= Len(queue[s]) + 1
        BY <4>4, <1>1, <1>3
      <4>. QED  BY <4>3, <4>5
    <3>. QED  BY <1>7, <3>1, <3>2 DEF RefillCollect, Pushed
  <2>4. \A u \in Tasks : u # t => handles'[u] = handles[u]
    BY <2>1 DEF TypeOK
  <2>5. Len(queue[s]) + Len(handles[t]) <= MaxIdle
    BY <2>1 DEF LengthInv
  <2>6. Len(queue'[s]) + Len(handles'[t]) <= MaxIdle
    <3>1. /\ Len(queue[s]) \in Nat /\ Len(queue'[s]) \in Nat
          /\ Len(handles[t]) \in Nat /\ Len(handles'[t]) \in Nat
      BY <1>1, <1>2, <1>3
    <3>2. \A a, b, c, d \in Nat :
            a <= b + 1 /\ c = d - 1 /\ b + d <= MaxIdle => a + c <= MaxIdle
      BY <1>4
    <3>. QED  BY <2>2, <2>3, <2>5, <3>1, <3>2
  <2>7. \A u \in Tasks : rpc[u] \in {"sized", "dialing"} /\ u # t => TaskSlot(u) # s
    BY <1>3, <2>1 DEF FlagInv, Works
  <2>8. \A x \in Slots : Len(queue'[x]) <= MaxIdle
    <3>1. /\ Len(queue'[s]) \in Nat /\ Len(handles'[t]) \in Nat
      BY <1>1, <1>2, <1>3
    <3>2. \A a, c \in Nat : a + c <= MaxIdle => a <= MaxIdle
      BY <1>4
    <3>3. Len(queue'[s]) <= MaxIdle
      BY <2>6, <3>1, <3>2
    <3>4. \A x \in Slots : x # s => Len(queue'[x]) <= MaxIdle
      BY <2>3 DEF LengthInv
    <3>. QED  BY <3>3, <3>4
  <2>9. \A u \in Tasks : rpc'[u] = "sized" => Len(queue'[TaskSlot(u)]) <= rlen'[u]
    BY <1>3, <2>1, <2>3, <2>7 DEF LengthInv
  <2>10. \A u \in Tasks : rpc'[u] = "dialing" =>
                            Len(queue'[TaskSlot(u)]) + Len(handles'[u]) <= MaxIdle
    BY <1>3, <2>1, <2>3, <2>4, <2>6, <2>7 DEF LengthInv
  <2>11. \A u \in Tasks : rpc'[u] # "dialing" => handles'[u] = <<>>
    BY <2>1, <2>4 DEF LengthInv
  <2>. QED  BY <1>3, <2>8, <2>9, <2>10, <2>11 DEF LengthInv
<1>8. CASE RefillDone(t)
  <2>1. \A u \in Tasks : u # t => rpc'[u] = rpc[u]
    BY <1>8 DEF RefillDone, TypeOK
  <2>2. rpc'[t] = "done" /\ handles[t] = <<>> /\ UNCHANGED <<queue, handles, rlen>>
    BY <1>8 DEF RefillDone, TypeOK
  <2>. QED  BY <1>3, <2>1, <2>2 DEF LengthInv
<1>. QED  BY <1>5, <1>6, <1>7, <1>8 DEF RefillStep

LEMMA LengthStep ==
    ASSUME TypeOK, TypeOK', FlagInv, LengthInv, [Next]_vars
    PROVE  LengthInv'
<1>1. \A x \in Slots : Len(queue[x]) \in Nat /\ Len(queue'[x]) \in Nat
  BY LenProperties DEF TypeOK
<1>2. ASSUME UNCHANGED <<hslot, queue, rpc, rlen, handles>>
      PROVE  LengthInv'
  BY <1>1, <1>2, LengthShrinks
<1>3. CASE \/ \E h \in Handlers : GetPop(h)
           \/ \E c \in Closers, s \in Slots : CloseSlot(c, s)
  <2>1. \A x \in Slots : IsSuffixOf(queue'[x], queue[x])
    BY <1>3, TakenFromFront
  <2>2. \A x \in Slots : Len(queue'[x]) <= Len(queue[x])
    BY <2>1, SuffixIsShorter DEF TypeOK
  <2>3. UNCHANGED <<hslot, rpc, rlen, handles>>
    BY <1>3 DEF GetPop, CloseSlot, hvars, rvars
  <2>. QED  BY <2>2, <2>3, LengthShrinks
<1>4. CASE (\E h \in Handlers : GetRefill(h)) \/ (\E s \in WarmSlots : Warmup(s))
  <2>1. UNCHANGED <<hslot, queue, rlen, handles>>
    BY <1>4 DEF GetRefill, Warmup, hvars
  <2>2. \A t \in Tasks : rpc'[t] # rpc[t] => rpc[t] = "none" /\ rpc'[t] \in {"spawned", "done"}
    <3>1. ASSUME NEW h \in Handlers, GetRefill(h), NEW t \in Tasks, rpc'[t] # rpc[t]
          PROVE  rpc[t] = "none" /\ rpc'[t] \in {"spawned", "done"}
      <4>1. rpc[h] = "none"
        BY <3>1 DEF FlagInv, GetRefill
      <4>2. rpc' = [rpc EXCEPT ![h] = "spawned"]
        BY <3>1 DEF GetRefill, StartRefill
      <4>. QED  BY <3>1, <4>1, <4>2 DEF TypeOK
    <3>2. ASSUME NEW s \in WarmSlots, Warmup(s), NEW t \in Tasks, rpc'[t] # rpc[t]
          PROVE  rpc[t] = "none" /\ rpc'[t] \in {"spawned", "done"}
      BY <3>2 DEF Warmup, StartRefill, TypeOK, Tasks
    <3>. QED  BY <1>4, <3>1, <3>2
  <2>3. \A t \in Tasks : TaskSlot(t)' = TaskSlot(t)
    BY <2>1 DEF TaskSlot
  <2>. QED  BY <2>1, <2>2, <2>3 DEF LengthInv
<1>5. CASE \E t \in Tasks : RefillStep(t)
  BY <1>5, LengthRefill
<1>6. CASE \E t \in Tasks : \E i \in DOMAIN handles[t] : DialOpen(t, i) \/ DialFail(t, i)
  <2>0. PICK t \in Tasks : \E i \in DOMAIN handles[t] : DialOpen(t, i) \/ DialFail(t, i)
    BY <1>6
  <2>1. PICK i \in DOMAIN handles[t] : DialOpen(t, i) \/ DialFail(t, i)
    BY <2>0
  <2>2. /\ UNCHANGED <<hslot, queue, rpc, rlen>>
        /\ \E d \in DialStates : handles' = [handles EXCEPT ![t] = [handles[t] EXCEPT ![i] = d]]
    BY <2>1 DEF DialOpen, DialFail, hvars, DialStates
  <2>3. handles[t] \in Seq(DialStates) /\ i \in 1..Len(handles[t])
    BY LenProperties DEF TypeOK, DialStates
  <2>4. \A d \in DialStates : Len([handles[t] EXCEPT ![i] = d]) = Len(handles[t])
    BY <2>3, ExceptSeq
  <2>5. Len(handles'[t]) = Len(handles[t])
    BY <2>2, <2>4 DEF TypeOK
  <2>6. handles[t] # <<>>
    BY <2>3
  <2>7. rpc[t] = "dialing"
    BY <2>6 DEF LengthInv
  <2>8. \A u \in Tasks : u # t => handles'[u] = handles[u]
    BY <2>2 DEF TypeOK
  <2>. QED  BY <1>1, <2>2, <2>5, <2>7, <2>8, LengthShrinks
<1>7. CASE \/ \E h \in Handlers : GetBegin(h)
           \/ \E c \in Closers : CloseAll(c)
           \/ \E n \in Sizes : SetPoolSize(n)
           \/ Cancel
           \/ Tick
           \/ UNCHANGED vars
  <2>1. UNCHANGED <<hslot, queue, rpc, rlen, handles>>
    BY <1>7 DEF GetBegin, CloseAll, SetPoolSize, Cancel, Tick, vars, hvars, rvars
  <2>. QED  BY <1>2, <2>1
<1>. QED
  BY <1>3, <1>4, <1>5, <1>6, <1>7, NextCases DEF RefillStep

-----------------------------------------------------------------------------
(* The ages. *)

Aged(q, now) ==
    /\ \A i, j \in 1..Len(q) : i <= j => q[i] <= q[j]
    /\ \A i \in 1..Len(q) : q[i] <= now

LEMMA AgeInvIsAged ==
    ASSUME TypeOK
    PROVE  AgeInv <=> \A s \in Slots : Aged(queue[s], clock)
<1>1. \A s \in Slots : DOMAIN queue[s] = 1..Len(queue[s])
  BY LenProperties DEF TypeOK
<1>. QED  BY <1>1 DEF AgeInv, OrderedByAge, Aged

LEMMA AgedSuffix ==
    ASSUME NEW p \in Seq(Nat), NEW q \in Seq(Nat), NEW now \in Nat,
           Aged(p, now), IsSuffixOf(q, p)
    PROVE  Aged(q, now)
<1>1. PICK k \in 0..Len(p) : /\ Len(q) = Len(p) - k
                             /\ \A i \in 1..Len(q) : q[i] = p[i + k]
  BY DEF IsSuffixOf
<1>2. Len(p) \in Nat /\ Len(q) \in Nat
  BY LenProperties
<1>3. \A i \in 1..Len(q) : i + k \in 1..Len(p)
  BY <1>1, <1>2
<1>4. ASSUME NEW i \in 1..Len(q), NEW j \in 1..Len(q), i <= j
      PROVE  q[i] <= q[j]
  <2>1. i + k <= j + k
    BY <1>2, <1>4
  <2>2. p[i + k] <= p[j + k]
    BY <1>3, <2>1 DEF Aged
  <2>. QED  BY <1>1, <2>2
<1>5. \A i \in 1..Len(q) : q[i] <= now
  BY <1>1, <1>3 DEF Aged
<1>. QED  BY <1>4, <1>5 DEF Aged

LEMMA AgedAppend ==
    ASSUME NEW q \in Seq(Nat), NEW now \in Nat, Aged(q, now)
    PROVE  Aged(Append(q, now), now)
<1> DEFINE r == Append(q, now)
<1>1. /\ Len(q) \in Nat /\ Len(r) = Len(q) + 1
      /\ \A i \in 1..Len(q) : r[i] = q[i]
      /\ r[Len(q) + 1] = now
  BY AppendProperties, LenProperties
<1> HIDE DEF r
<1>2. \A i \in 1..Len(r) : r[i] <= now
  <2>1. ASSUME NEW i \in 1..Len(r)
        PROVE  r[i] <= now
    <3>1. CASE i \in 1..Len(q)
      BY <1>1, <3>1 DEF Aged
    <3>2. CASE i = Len(q) + 1
      BY <1>1, <3>2
    <3>. QED  BY <1>1, <3>1, <3>2
  <2>. QED  BY <2>1
<1>3. ASSUME NEW i \in 1..Len(r), NEW j \in 1..Len(r), i <= j
      PROVE  r[i] <= r[j]
  <2>1. CASE j \in 1..Len(q)
    <3>1. i \in 1..Len(q)
      BY <1>1, <1>3, <2>1
    <3>. QED  BY <1>1, <1>3, <2>1, <3>1 DEF Aged
  <2>2. CASE j = Len(q) + 1
    BY <1>1, <1>2, <2>2
  <2>. QED  BY <1>1, <2>1, <2>2
<1>4. Aged(r, now)
  BY <1>2, <1>3 DEF Aged
<1>. QED  BY <1>4 DEF r

LEMMA AgeStep ==
    ASSUME TypeOK, TypeOK', AgeInv, [Next]_vars
    PROVE  AgeInv'
<1>1. \A s \in Slots : queue[s] \in Seq(Nat) /\ queue'[s] \in Seq(Nat) /\ Aged(queue[s], clock)
  BY AgeInvIsAged DEF TypeOK
<1>2. clock \in Nat /\ clock' \in Nat
  BY DEF TypeOK
<1>3. AgeInv' <=> \A s \in Slots : Aged(queue'[s], clock')
  <2>1. \A s \in Slots : DOMAIN queue'[s] = 1..Len(queue'[s])
    BY <1>1, LenProperties
  <2>. QED  BY <2>1 DEF AgeInv, OrderedByAge, Aged
<1>4. CASE \/ \E h \in Handlers : GetPop(h)
           \/ \E c \in Closers, s \in Slots : CloseSlot(c, s)
  <2>1. \A s \in Slots : IsSuffixOf(queue'[s], queue[s])
    BY <1>4, TakenFromFront
  <2>2. clock' = clock
    BY <1>4 DEF GetPop, CloseSlot
  <2>. QED  BY <1>1, <1>2, <1>3, <2>1, <2>2, AgedSuffix
<1>5. CASE \E t \in Tasks : RefillCollect(t)
  <2>1. PICK t \in Tasks : RefillCollect(t)
    BY <1>5
  <2>2. clock' = clock
    BY <2>1 DEF RefillCollect, Pushed
  <2>3. \A s \in Slots : queue'[s] = queue[s] \/ queue'[s] = Append(queue[s], clock)
    BY <2>1, TaskSlotType DEF RefillCollect, Pushed, TypeOK
  <2>. QED  BY <1>1, <1>2, <1>3, <2>2, <2>3, AgedAppend
<1>6. CASE Tick
  <2>1. queue' = queue /\ clock <= clock'
    BY <1>2, <1>6 DEF Tick
  <2>2. ASSUME NEW s \in Slots
        PROVE  Aged(queue'[s], clock')
    <3>1. \A i \in 1..Len(queue[s]) : queue[s][i] \in Nat
      BY <1>1, ElementOfSeq
    <3>2. \A i \in 1..Len(queue[s]) : queue[s][i] <= clock
      BY <1>1 DEF Aged
    <3>3. \A i \in 1..Len(queue[s]) : queue[s][i] <= clock'
      BY <1>2, <2>1, <3>1, <3>2
    <3>. QED  BY <1>1, <2>1, <3>3 DEF Aged
  <2>. QED  BY <1>3, <2>2
<1>7. ASSUME UNCHANGED <<queue, clock>>
      PROVE  AgeInv'
  BY <1>1, <1>3, <1>7
<1>. QED
  BY <1>4, <1>5, <1>6, <1>7, NextCases, Zenon
     DEF GetBegin, GetRefill, Warmup, RefillLen, RefillSpawn, FirstPoll, RefillDone,
         DialOpen, DialFail, CloseAll, SetPoolSize, Cancel, vars

LEMMA AnswerStep ==
    ASSUME TypeOK, AnswerInv, [Next]_vars
    PROVE  AnswerInv'
<1>1. ASSUME NEW h \in Handlers, GetBegin(h) \/ GetPop(h) \/ GetRefill(h)
      PROVE  AnswerInv'
  <2> DEFINE waiting == {"start", "slot"}
  <2>1. \A g \in Handlers \ {h} : hpc'[g] = hpc[g] /\ result'[g] = result[g]
    <3>1. CASE GetBegin(h)
      BY <3>1 DEF GetBegin, TypeOK
    <3>2. CASE GetPop(h)
      BY <3>2 DEF GetPop, TypeOK
    <3>3. CASE GetRefill(h)
      BY <3>3 DEF GetRefill, TypeOK
    <3>. QED  BY <1>1, <3>1, <3>2, <3>3
  <2>2. hpc'[h] \in waiting => hpc[h] \in waiting /\ result'[h] = result[h]
    <3>1. CASE GetBegin(h)
      BY <3>1 DEF GetBegin, TypeOK
    <3>2. CASE GetPop(h)
      BY <3>2 DEF GetPop, TypeOK
    <3>3. CASE GetRefill(h)
      BY <3>3 DEF GetRefill, TypeOK
    <3>. QED  BY <1>1, <3>1, <3>2, <3>3
  <2>. QED  BY <2>1, <2>2 DEF AnswerInv
<1>2. CASE UNCHANGED <<hpc, result>>
  BY <1>2 DEF AnswerInv
<1>. QED
  BY <1>1, <1>2, NextCases, Zenon
     DEF Warmup, RefillLen, RefillSpawn, FirstPoll, RefillCollect, Pushed, RefillDone, DialOpen,
         DialFail, CloseAll, CloseSlot, SetPoolSize, Cancel, Tick, vars, hvars

-----------------------------------------------------------------------------
(* The theorems. *)

LEMMA IInvInit ==
    ASSUME Init
    PROVE  IInv
<1>1. TypeOK
  BY TypeInit
<1>2. \A s \in Slots : queue[s] = <<>>
  BY DEF Init
<1>3. \A t \in Tasks : rpc[t] = "none" /\ handles[t] = <<>>
  BY DEF Init
<1>4. \A s \in Slots : refilling[s] = 0
  BY DEF Init
<1>5. FlagInv
  BY <1>3, <1>4 DEF FlagInv, Works, Tasks
<1>6. LengthInv
  <2>1. Len(<<>>) = 0 /\ 0 <= MaxIdle
    BY SizeAssumption
  <2>. QED  BY <1>2, <1>3, <2>1 DEF LengthInv
<1>7. AgeInv
  BY <1>2 DEF AgeInv, OrderedByAge
<1>8. AnswerInv
  BY DEF Init, AnswerInv
<1>. QED  BY <1>1, <1>5, <1>6, <1>7, <1>8 DEF IInv

\* The strengthened invariant of the refill protocol is inductive.
LEMMA IInvStep ==
    ASSUME IInv, [Next]_vars
    PROVE  IInv'
<1>1. TypeOK'
  BY TypeStep DEF IInv
<1>2. FlagInv' /\ LengthInv' /\ AgeInv' /\ AnswerInv'
  BY <1>1, FlagStep, LengthStep, AgeStep, AnswerStep DEF IInv
<1>. QED  BY <1>1, <1>2 DEF IInv

THEOREM Inductive == Spec => []IInv
<1>1. Init => IInv
  BY IInvInit
<1>2. IInv /\ [Next]_vars => IInv'
  BY IInvStep
<1>. QED  BY <1>1, <1>2, PTL DEF Spec

\* At most one refill task works for a slot at a time, exactly while the flag
\* `refilling` is 1.
THEOREM OneRefillerHolds == Spec => []OneRefiller
<1>1. IInv => OneRefiller
  <2> SUFFICES ASSUME IInv, NEW s \in Slots
               PROVE  Cardinality(Refillers(s)) = refilling[s]
    BY DEF OneRefiller
  <2>1. \A t : t \in Refillers(s) <=> t \in Tasks /\ Works(t, s)
    BY DEF Refillers, Works
  <2>2. CASE refilling[s] = 0
    <3>1. Refillers(s) = {}
      BY <2>1, <2>2 DEF IInv, FlagInv
    <3>. QED  BY <2>2, <3>1, FS_EmptySet
  <2>3. CASE refilling[s] = 1
    <3>1. PICK t \in Tasks : Works(t, s)
      BY <2>3 DEF IInv, FlagInv
    <3>2. \A u \in Tasks : Works(u, s) => u = t
      BY <3>1 DEF IInv, FlagInv
    <3>3. Refillers(s) = {t}
      BY <2>1, <3>1, <3>2
    <3>. QED  BY <2>3, <3>3, FS_Singleton
  <2>. QED  BY <2>2, <2>3 DEF IInv, TypeOK
<1>. QED  BY <1>1, Inductive, PTL

\* A slot never holds, together with what its refill task has on order, more
\* connections than the largest pool size.
THEOREM BoundedIdleHolds == Spec => []BoundedIdle
<1>1. IInv => BoundedIdle
  <2> SUFFICES ASSUME IInv, NEW s \in Slots
               PROVE  /\ Len(queue[s]) <= MaxIdle
                      /\ \A t \in Refillers(s) : Len(queue[s]) + Len(handles[t]) <= MaxIdle
    BY DEF BoundedIdle
  <2>1. Len(queue[s]) <= MaxIdle /\ Len(queue[s]) \in Nat
    BY LenProperties DEF IInv, LengthInv, TypeOK
  <2>2. ASSUME NEW t \in Refillers(s)
        PROVE  Len(queue[s]) + Len(handles[t]) <= MaxIdle
    <3>1. CASE rpc[t] = "dialing"
      BY <3>1 DEF IInv, LengthInv, Refillers
    <3>2. CASE rpc[t] # "dialing"
      <4>1. handles[t] = <<>>
        BY <3>2 DEF IInv, LengthInv, Refillers
      <4>. QED  BY <2>1, <4>1
    <3>. QED  BY <3>1, <3>2
  <2>. QED  BY <2>1, <2>2
<1>. QED  BY <1>1, Inductive, PTL

\* The entries of a slot stay ordered by age.
THEOREM OrderedByAgeHolds == Spec => []OrderedByAge
<1>1. IInv => OrderedByAge
  BY DEF IInv, AgeInv
<1>. QED  BY <1>1, Inductive, PTL

-----------------------------------------------------------------------------
(* The end of the session. *)

\* close_all runs only for a session that has been cancelled.
EndInv == \A c \in Closers : cpc[c] # "before" => canceled

LEMMA EndStep ==
    ASSUME TypeOK, EndInv, [Next]_vars
    PROVE  EndInv'
<1>1. CASE UNCHANGED <<cpc, canceled>>
  BY <1>1 DEF EndInv
<1>2. ASSUME NEW c \in Closers, CloseAll(c) \/ \E s \in Slots : CloseSlot(c, s)
      PROVE  EndInv'
  BY <1>2 DEF CloseAll, CloseSlot, EndInv, TypeOK
<1>3. CASE Cancel
  BY <1>3 DEF Cancel, EndInv
<1>. QED
  BY <1>1, <1>2, <1>3, NextCases, Zenon
     DEF GetBegin, GetPop, GetRefill, Warmup, RefillLen, RefillSpawn, RefillCollect,
         RefillDone, DialOpen, DialFail, SetPoolSize, Tick, vars, cvars

\* A handler that pops from an empty queue leaves it empty.
LEMMA PopsNothing ==
    ASSUME TypeOK, NoIdle, NEW h \in Handlers, GetPop(h)
    PROVE  NoIdle'
<1>1. hslot[h] \in Slots /\ queue[hslot[h]] = <<>>
  BY DEF TypeOK, NoIdle
<1>2. {i \in DOMAIN queue[hslot[h]] : Usable(queue[hslot[h]][i], hnow[h])} = {}
  BY <1>1
<1>3. queue' = [queue EXCEPT ![hslot[h]] = <<>>]
  BY <1>2 DEF GetPop
<1>. QED  BY <1>1, <1>3 DEF NoIdle, TypeOK

\* No dial is left that could still open a connection.
NoneComing == \A t \in Tasks : Range(handles[t]) \subseteq {"failed"}

\* A refill that begins now dials in vain, and the others have nothing to push.
LEMMA NothingComes ==
    ASSUME TypeOK, NoIdle, NoneComing, canceled, NEW t \in Tasks,
           RefillSpawn(t) \/ RefillCollect(t)
    PROVE  NoIdle' /\ NoneComing'
<1>1. CASE RefillSpawn(t)
  <2>1. \A n : Range([i \in 1..n |-> "failed"]) \subseteq {"failed"}
    BY DEF Range
  <2>2. \/ handles' = handles
        \/ handles' = [handles EXCEPT ![t] = [i \in 1..Needed(t) |-> "failed"]]
    BY <1>1 DEF RefillSpawn, FirstPoll
  <2>3. NoneComing'
    <3>1. ASSUME NEW u \in Tasks
          PROVE  handles'[u] = handles[u]
                 \/ handles'[u] = [i \in 1..Needed(t) |-> "failed"]
      BY <2>2 DEF TypeOK
    <3>2. \A u \in Tasks : Range(handles'[u]) \subseteq {"failed"}
      BY <2>1, <3>1, Zenon DEF NoneComing
    <3>. QED  BY <3>2 DEF NoneComing
  <2>. QED  BY <1>1, <2>3 DEF RefillSpawn, NoIdle
<1>2. CASE RefillCollect(t)
  <2>1. handles[t] \in Seq({"dialing", "open", "failed"}) /\ handles[t] # <<>>
    BY <1>2 DEF RefillCollect, TypeOK
  <2>2. /\ Head(handles[t]) = handles[t][1] /\ 1 \in DOMAIN handles[t]
        /\ Len(Tail(handles[t])) = Len(handles[t]) - 1
        /\ Tail(handles[t]) \in Seq({"dialing", "open", "failed"})
        /\ \A i \in 1..Len(Tail(handles[t])) :
              Tail(handles[t])[i] = handles[t][i + 1] /\ i + 1 \in DOMAIN handles[t]
    BY <2>1, HeadTailProperties, EmptySeq, LenProperties
  <2>3. Head(handles[t]) = "failed"
    BY <2>2 DEF NoneComing, Range
  <2>4. Range(Tail(handles[t])) \subseteq {"failed"}
    BY <2>2 DEF NoneComing, Range
  <2>5. queue' = queue /\ handles' = [handles EXCEPT ![t] = Tail(@)]
    BY <1>2, <2>3 DEF RefillCollect
  <2>. QED  BY <2>4, <2>5 DEF NoIdle, NoneComing, TypeOK
<1>. QED  BY <1>1, <1>2

LEMMA DrainedStep ==
    ASSUME TypeOK, EndInv, Drained, [Next]_vars
    PROVE  Drained'
<1>1. /\ canceled /\ NoIdle /\ NoneComing
      /\ \A c \in Closers : cpc[c] = "done"
  BY DEF Drained, EndInv, Closers, NoneComing
<1>2. CASE UNCHANGED <<queue, handles, cpc>>
  BY <1>2 DEF Drained, NoIdle
<1>3. ASSUME NEW h \in Handlers, GetPop(h)
      PROVE  Drained'
  BY <1>1, <1>3, PopsNothing DEF GetPop, rvars, cvars, Drained
<1>4. ASSUME NEW t \in Tasks, RefillSpawn(t) \/ RefillCollect(t)
      PROVE  Drained'
  <2>1. NoIdle' /\ NoneComing'
    BY <1>1, <1>4, NothingComes
  <2>2. cpc' = cpc
    BY <1>4 DEF RefillSpawn, RefillCollect, cvars
  <2>. QED  BY <1>1, <2>1, <2>2 DEF Drained, NoneComing
<1>5. ASSUME NEW t \in Tasks, NEW i \in DOMAIN handles[t], DialOpen(t, i) \/ DialFail(t, i)
      PROVE  FALSE
  BY <1>1, <1>5 DEF DialOpen, DialFail, NoneComing, Range
<1>6. ASSUME NEW c \in Closers, CloseAll(c) \/ \E s \in Slots : CloseSlot(c, s)
      PROVE  FALSE
  BY <1>1, <1>6 DEF CloseAll, CloseSlot
<1>. QED
  BY <1>2, <1>3, <1>4, <1>5, <1>6, NextCases, Zenon
     DEF GetBegin, GetRefill, Warmup, RefillLen, RefillDone, SetPoolSize, Cancel, Tick,
         vars, hvars, rvars, cvars

\* After both close_all a pool without idle connections and without dials that
\* may still open one never has an idle connection again, although handlers go
\* on asking it and start refills.
THEOREM DrainedStaysEmptyHolds == Spec => DrainedStaysEmpty
<1>1. Init => TypeOK /\ EndInv
  BY TypeInit DEF Init, EndInv
<1>2. TypeOK /\ EndInv /\ [Next]_vars => TypeOK' /\ EndInv'
  BY TypeStep, EndStep
<1>3. TypeOK /\ EndInv /\ Drained /\ [Next]_vars => Drained'
  BY DrainedStep
<1>4. Drained => NoIdle
  BY DEF Drained
<1>. QED  BY <1>1, <1>2, <1>3, <1>4, PTL DEF Spec, DrainedStaysEmpty

-----------------------------------------------------------------------------
(* What a get takes away.                                                    *)

LEMMA SuffixSize ==
    ASSUME NEW i \in Nat, NEW n \in Nat, i \in 1..n
    PROVE  IsFiniteSet(i..n) /\ Cardinality(i..n) = n - i + 1
<1>1. i \in Int /\ n \in Int /\ ~(i > n)
  OBVIOUS
<1>. QED  BY <1>1, FS_Interval

LEMMA PrefixSize ==
    ASSUME NEW n \in Nat
    PROVE  IsFiniteSet(1..n) /\ Cardinality(1..n) = n
<1>1. 1 \in Int /\ n \in Int /\ (1 > n => n = 0) /\ n - 1 + 1 = n
  OBVIOUS
<1>. QED  BY <1>1, FS_Interval

LEMMA PopTakesOne ==
    ASSUME IInv, NEW h \in Handlers, GetPop(h)
    PROVE  /\ result'[h] = "hit" =>
                 Cardinality(Fresh(queue'[hslot[h]], hnow[h])) =
                     Cardinality(Fresh(queue[hslot[h]], hnow[h])) - 1
           /\ result'[h] = "miss" => Cardinality(Fresh(queue[hslot[h]], hnow[h])) = 0
           /\ Cardinality(Fresh(queue'[hslot[h]], hnow[h])) = Len(queue'[hslot[h]])
<1>. PICK s \in Slots : s = hslot[h]
  BY DEF IInv, TypeOK
<1>. PICK q \in Seq(Nat) : q = queue[s]
  BY DEF IInv, TypeOK
<1>. DEFINE usable == {i \in DOMAIN q : Usable(q[i], hnow[h])}
<1>1. /\ Len(q) \in Nat /\ DOMAIN q = 1..Len(q) /\ hnow[h] \in Nat /\ ReuseAge \in Nat
      /\ \A i \in 1..Len(q) : q[i] \in Nat
  BY LenProperties, ElementOfSeq, TimeAssumption DEF IInv, TypeOK
<1>2. Fresh(q, hnow[h]) = usable
  BY DEF Fresh, Usable
<1>3. CASE /\ usable = {} /\ queue' = [queue EXCEPT ![s] = <<>>]
           /\ result' = [result EXCEPT ![h] = "miss"]
  <2>1. queue'[s] = <<>> /\ result'[h] = "miss"
    BY <1>3 DEF IInv, TypeOK
  <2>2. Fresh(<<>>, hnow[h]) = {} /\ Len(<<>>) = 0
    BY DEF Fresh
  <2>3. Cardinality(Fresh(q, hnow[h])) = 0 /\ Cardinality(Fresh(<<>>, hnow[h])) = 0
    BY <1>2, <1>3, <2>2, FS_EmptySet
  <2>. HIDE DEF usable
  <2>. QED  BY <2>1, <2>2, <2>3
<1>4. ASSUME NEW i \in usable, \A j \in usable : i <= j,
             queue' = [queue EXCEPT ![s] = SubSeq(q, i + 1, Len(q))],
             result' = [result EXCEPT ![h] = "hit"]
      PROVE  /\ Cardinality(Fresh(queue'[s], hnow[h])) = Cardinality(Fresh(q, hnow[h])) - 1
             /\ Cardinality(Fresh(queue'[s], hnow[h])) = Len(queue'[s])
             /\ result'[h] = "hit"
  <2>. PICK r : r = SubSeq(q, i + 1, Len(q))
    OBVIOUS
  <2>1. queue'[s] = r /\ result'[h] = "hit"
    BY <1>4 DEF IInv, TypeOK
  <2>2. i \in 1..Len(q) /\ i \in Nat
    BY <1>1
  <2>3. \A j \in i..Len(q) : q[i] <= q[j]
    <3>1. \A a, b \in DOMAIN q : a <= b => q[a] <= q[b]
      BY DEF IInv, AgeInv, OrderedByAge
    <3>2. \A j \in i..Len(q) : j \in 1..Len(q) /\ i <= j
      BY <1>1, <2>2
    <3>. QED  BY <1>1, <2>2, <3>1, <3>2
  <2>4. \A j \in i..Len(q) : hnow[h] - q[j] <= ReuseAge
    <3>1. \A a, b \in Nat : hnow[h] - a <= ReuseAge /\ a <= b => hnow[h] - b <= ReuseAge
      BY <1>1
    <3>2. hnow[h] - q[i] <= ReuseAge
      BY DEF Usable
    <3>3. \A j \in i..Len(q) : q[j] \in Nat /\ q[i] \in Nat
      BY <1>1, <2>2
    <3>. QED  BY <2>3, <3>1, <3>2, <3>3
  <2>5. usable = i..Len(q)
    <3>1. usable \subseteq i..Len(q)
      BY <1>1, <1>4, <2>2
    <3>2. ASSUME NEW j \in i..Len(q)
          PROVE  j \in usable
      <4>1. j \in DOMAIN q
        BY <1>1, <2>2
      <4>. QED  BY <2>4, <4>1 DEF Usable
    <3>. HIDE DEF usable
    <3>. QED  BY <3>1, <3>2
  <2>6. Cardinality(Fresh(q, hnow[h])) = Len(q) - i + 1
    BY <1>1, <1>2, <2>2, <2>5, SuffixSize
  <2>8. r \in Seq(Nat) /\ Len(r) = Len(q) - i
        /\ \A j \in 1..(Len(q) - i) : r[j] = q[j + i]
    BY <2>2, RestFacts
  <2>9. Len(r) \in Nat /\ DOMAIN r = 1..Len(r)
    BY <2>8, LenProperties
  <2>10. \A j \in 1..Len(r) : j + i \in i..Len(q)
    BY <1>1, <2>2, <2>8, <2>9
  <2>11. Fresh(r, hnow[h]) = 1..Len(r)
    <3>1. ASSUME NEW j \in 1..Len(r)
          PROVE  hnow[h] - r[j] <= ReuseAge
      <4>1. r[j] = q[j + i] /\ j + i \in i..Len(q)
        BY <2>8, <2>10
      <4>. QED  BY <2>4, <4>1
    <3>. QED  BY <2>9, <3>1 DEF Fresh
  <2>12. Cardinality(Fresh(r, hnow[h])) = Len(r)
    BY <2>9, <2>11, PrefixSize
  <2>13. Len(r) = (Len(q) - i + 1) - 1
    BY <1>1, <2>2, <2>8
  <2>. QED  BY <2>1, <2>6, <2>12, <2>13
<1>5. CASE \E i \in usable :
              /\ \A j \in usable : i <= j
              /\ queue' = [queue EXCEPT ![s] = SubSeq(q, i + 1, Len(q))]
              /\ result' = [result EXCEPT ![h] = "hit"]
  BY <1>4, <1>5
<1>. QED  BY <1>3, <1>5 DEF GetPop

\* A get lowers the number of connections that are young enough by the one it
\* returns and no more, and misses only when there is none.
THEOREM GetTakesOneHolds == Spec => GetTakesOne
<1>1. ASSUME IInv, [Next]_vars, NEW h \in Handlers, hpc[h] = "slot", hpc'[h] = "popped"
      PROVE  GetPop(h)
  <2>1. ASSUME NEW g \in Handlers, GetBegin(g) \/ GetPop(g) \/ GetRefill(g)
        PROVE  GetPop(h)
    <3>1. \E p : hpc' = [hpc EXCEPT ![g] = p]
      BY <2>1 DEF GetBegin, GetPop, GetRefill
    <3>2. g = h
      BY <1>1, <3>1 DEF IInv, TypeOK
    <3>3. hpc \in [Handlers -> {"start", "slot", "popped", "done"}]
      BY <1>1 DEF IInv, TypeOK
    <3>. QED  BY <1>1, <2>1, <3>2, <3>3 DEF GetBegin, GetRefill
  <2>2. hpc' # hpc
    BY <1>1
  <2>. QED
    BY <1>1, <2>1, <2>2, NextCases, Zenon
       DEF Warmup, RefillLen, RefillSpawn, RefillCollect, RefillDone, DialOpen, DialFail,
           CloseAll, CloseSlot, SetPoolSize, Cancel, Tick, vars, hvars
<1>2. IInv /\ [Next]_vars =>
        [\A h \in Handlers :
           hpc[h] = "slot" /\ hpc'[h] = "popped" =>
             LET before == Cardinality(Fresh(queue[hslot[h]], hnow[h]))
                 after == Cardinality(Fresh(queue'[hslot[h]], hnow[h]))
             IN  /\ result'[h] = "hit" => after = before - 1
                 /\ result'[h] = "miss" => before = 0
                 /\ after = Len(queue'[hslot[h]])]_vars
  BY <1>1, PopTakesOne
<1>. QED  BY <1>2, Inductive, PTL DEF Spec, GetTakesOne

-----------------------------------------------------------------------------
(* No connection is lost.                                                    *)

\* Another set for one index adds the members of the new one and takes away
\* those of the old one.
LEMMA MembersExcept ==
    ASSUME NEW S, NEW F, DOMAIN F = S, IsFiniteSet(Members(F)),
           NEW x \in S, NEW A, IsFiniteSet(A), IsFiniteSet(F[x]),
           NEW G, DOMAIN G = S, G[x] = A, \A y \in S \ {x} : G[y] = F[y]
    PROVE  /\ IsFiniteSet(Members(G))
           /\ Cardinality(Members(G)) + Cardinality(F[x])
                 = Cardinality(Members(F)) + Cardinality(A)
<1>. DEFINE rest == UNION {{y} \X F[y] : y \in S \ {x}}
<1>1. Members(F) = rest \cup ({x} \X F[x]) /\ rest \cap ({x} \X F[x]) = {}
  BY DEF Members
<1>2. rest = UNION {{y} \X G[y] : y \in S \ {x}}
  OBVIOUS
<1>3. Members(G) = rest \cup ({x} \X A) /\ rest \cap ({x} \X A) = {}
  BY <1>2 DEF Members
<1>. HIDE DEF rest
<1>4. \A B : IsFiniteSet(B) =>
         /\ IsFiniteSet({x} \X B) /\ Cardinality({x} \X B) = Cardinality(B)
         /\ Cardinality(B) \in Nat
  <2>. TAKE B
  <2>. HAVE IsFiniteSet(B)
  <2>1. IsFiniteSet({x}) /\ Cardinality({x}) = 1 /\ Cardinality(B) \in Nat
    BY FS_Singleton, FS_CardinalityType
  <2>2. /\ IsFiniteSet({x} \X B)
        /\ Cardinality({x} \X B) = Cardinality({x}) * Cardinality(B)
    BY <2>1, FS_Product
  <2>. QED  BY <2>1, <2>2
<1>5. IsFiniteSet(rest) /\ Cardinality(rest) \in Nat
  BY <1>1, FS_Subset, FS_CardinalityType
<1>6. \A B : IsFiniteSet(B) /\ rest \cap ({x} \X B) = {} =>
         /\ IsFiniteSet(rest \cup ({x} \X B))
         /\ Cardinality(rest \cup ({x} \X B)) = Cardinality(rest) + Cardinality(B)
  <2>. TAKE B
  <2>. HAVE IsFiniteSet(B) /\ rest \cap ({x} \X B) = {}
  <2>1. /\ IsFiniteSet(rest \cup ({x} \X B))
        /\ Cardinality(rest \cup ({x} \X B)) =
              Cardinality(rest) + Cardinality({x} \X B) - Cardinality(rest \cap ({x} \X B))
    BY <1>4, <1>5, FS_Union
  <2>2. Cardinality(rest \cap ({x} \X B)) = 0
    BY FS_EmptySet
  <2>. QED  BY <1>4, <1>5, <2>1, <2>2
<1>7. /\ IsFiniteSet(Members(G))
      /\ Cardinality(Members(F)) = Cardinality(rest) + Cardinality(F[x])
      /\ Cardinality(Members(G)) = Cardinality(rest) + Cardinality(A)
  <2>1. Cardinality(rest \cup ({x} \X F[x])) = Cardinality(rest) + Cardinality(F[x])
    BY <1>1, <1>6
  <2>2. /\ IsFiniteSet(rest \cup ({x} \X A))
        /\ Cardinality(rest \cup ({x} \X A)) = Cardinality(rest) + Cardinality(A)
    BY <1>3, <1>6
  <2>. QED  BY <1>1, <1>3, <2>1, <2>2, Zenon
<1>8. Cardinality(rest) \in Nat /\ Cardinality(F[x]) \in Nat /\ Cardinality(A) \in Nat
  BY <1>4, <1>5
<1>. QED  BY <1>7, <1>8

\* The dials that have opened, after the oldest one was awaited.
LEMMA OpenedTail ==
    ASSUME NEW d \in Seq(DialStates), d # <<>>
    PROVE  /\ IsFiniteSet(Opened(d)) /\ IsFiniteSet(Opened(Tail(d)))
           /\ Cardinality(Opened(d)) =
                 Cardinality(Opened(Tail(d))) + (IF Head(d) = "open" THEN 1 ELSE 0)
<1>1. /\ Len(d) \in Nat \ {0} /\ DOMAIN d = 1..Len(d) /\ Head(d) = d[1]
      /\ Tail(d) \in Seq(DialStates) /\ Len(Tail(d)) = Len(d) - 1
      /\ DOMAIN Tail(d) = 1..(Len(d) - 1)
      /\ \A i \in 1..(Len(d) - 1) : Tail(d)[i] = d[i + 1]
  BY HeadTailProperties, EmptySeq, LenProperties
<1>2. IsFiniteSet(Opened(d)) /\ IsFiniteSet(Opened(Tail(d)))
  <2>1. IsFiniteSet(1..Len(d)) /\ IsFiniteSet(1..(Len(d) - 1))
    BY <1>1, PrefixSize
  <2>. QED  BY <1>1, <2>1, FS_Subset DEF Opened
<1>. DEFINE shift == [i \in Opened(Tail(d)) |-> i + 1]
<1>3. shift \in Bijection(Opened(Tail(d)), Opened(d) \ {1})
  <2>1. shift \in [Opened(Tail(d)) -> Opened(d) \ {1}]
    BY <1>1 DEF Opened
  <2>2. \A a, b \in Opened(Tail(d)) : shift[a] = shift[b] => a = b
    BY <1>1 DEF Opened
  <2>3. \A c \in Opened(d) \ {1} : \E a \in Opened(Tail(d)) : shift[a] = c
    <3>. TAKE c \in Opened(d) \ {1}
    <3>1. c - 1 \in Opened(Tail(d)) /\ (c - 1) + 1 = c
      BY <1>1 DEF Opened
    <3>. QED  BY <3>1
  <2>. HIDE DEF shift
  <2>. QED  BY <2>1, <2>2, <2>3, Fun_IsBij
<1>4. Cardinality(Opened(d) \ {1}) = Cardinality(Opened(Tail(d)))
  <2>1. ExistsBijection(Opened(Tail(d)), Opened(d) \ {1})
    BY <1>3 DEF ExistsBijection
  <2>. QED  BY <1>2, <2>1, FS_Bijection
<1>5. Cardinality(Opened(d) \ {1}) =
         IF 1 \in Opened(d) THEN Cardinality(Opened(d)) - 1 ELSE Cardinality(Opened(d))
  BY <1>2, FS_RemoveElement
<1>6. 1 \in Opened(d) <=> Head(d) = "open"
  BY <1>1 DEF Opened
<1>7. Cardinality(Opened(d)) \in Nat
  BY <1>2, FS_CardinalityType
<1>. QED  BY <1>2, <1>4, <1>5, <1>6, <1>7

\* The sets NoLeak counts are finite, whatever Slots and Handlers are: all of
\* them start empty and grow by one connection at a time.
LeakInv ==
    /\ NoLeak
    /\ IsFiniteSet(Handed) /\ IsFiniteSet(Waiting) /\ IsFiniteSet(Arriving)

\* What a step does to each of the sets.
LEMMA WaitingExcept ==
    ASSUME TypeOK, IsFiniteSet(Waiting), NEW s \in Slots, NEW r \in Seq(Nat),
           queue' = [queue EXCEPT ![s] = r]
    PROVE  /\ IsFiniteSet(Waiting')
           /\ Cardinality(Waiting') + Len(queue[s]) = Cardinality(Waiting) + Len(r)
<1>. DEFINE F == [x \in Slots |-> DOMAIN queue[x]]
            G == [x \in Slots |-> DOMAIN queue'[x]]
<1>1. queue[s] \in Seq(Nat) /\ queue'[s] = r /\ \A x \in Slots \ {s} : queue'[x] = queue[x]
  BY DEF TypeOK
<1>2. /\ F[s] = 1..Len(queue[s]) /\ G[s] = 1..Len(r)
      /\ Len(queue[s]) \in Nat /\ Len(r) \in Nat
  BY <1>1, LenProperties
<1>3. /\ IsFiniteSet(F[s]) /\ Cardinality(F[s]) = Len(queue[s])
      /\ IsFiniteSet(1..Len(r)) /\ Cardinality(1..Len(r)) = Len(r)
  BY <1>2, PrefixSize
<1>4. DOMAIN F = Slots /\ DOMAIN G = Slots /\ \A x \in Slots \ {s} : G[x] = F[x]
  BY <1>1
<1>5. Waiting = Members(F) /\ Waiting' = Members(G)
  BY DEF Waiting, Members
<1>. HIDE DEF F, G
<1>. QED  BY <1>2, <1>3, <1>4, <1>5, MembersExcept

LEMMA ArrivingExcept ==
    ASSUME TypeOK, IsFiniteSet(Arriving), NEW t \in Tasks, NEW d,
           IsFiniteSet(Opened(handles[t])), IsFiniteSet(Opened(d)),
           handles' = [handles EXCEPT ![t] = d]
    PROVE  /\ IsFiniteSet(Arriving')
           /\ Cardinality(Arriving') + Cardinality(Opened(handles[t]))
                 = Cardinality(Arriving) + Cardinality(Opened(d))
<1>. DEFINE F == [x \in Tasks |-> Opened(handles[x])]
            G == [x \in Tasks |-> Opened(handles'[x])]
<1>1. handles'[t] = d /\ \A x \in Tasks \ {t} : handles'[x] = handles[x]
  BY DEF TypeOK
<1>2. F[t] = Opened(handles[t]) /\ G[t] = Opened(d)
  BY <1>1
<1>3. DOMAIN F = Tasks /\ DOMAIN G = Tasks /\ \A x \in Tasks \ {t} : G[x] = F[x]
  BY <1>1
<1>4. Arriving = Members(F) /\ Arriving' = Members(G)
  BY DEF Arriving, Members, Opened
<1>. HIDE DEF F, G
<1>. QED  BY <1>2, <1>3, <1>4, MembersExcept

\* The books of a step: `shut` connections are closed and `hits` handed out, one
\* queue loses `out` and gets `in`, the dials of one task lose `go` and get `come`.
Books(shut, hits, out, in, go, come) ==
    /\ {shut, hits, out, in, go, come} \subseteq Nat
    /\ closed' = closed + shut
    /\ IsFiniteSet(Handed') /\ Cardinality(Handed') = Cardinality(Handed) + hits
    /\ IsFiniteSet(Waiting') /\ Cardinality(Waiting') + out = Cardinality(Waiting) + in
    /\ IsFiniteSet(Arriving') /\ Cardinality(Arriving') + go = Cardinality(Arriving) + come
    /\ opened' + out + go = opened + shut + hits + in + come

LEMMA LeakKeeps ==
    ASSUME TypeOK, TypeOK', LeakInv, NEW shut, NEW hits, NEW out, NEW in, NEW go, NEW come,
           Books(shut, hits, out, in, go, come)
    PROVE  LeakInv'
<1>1. /\ opened \in Nat /\ closed \in Nat /\ opened' \in Nat /\ closed' \in Nat
  BY DEF TypeOK
<1>2. /\ Cardinality(Handed) \in Nat /\ Cardinality(Handed') \in Nat
      /\ Cardinality(Waiting) \in Nat /\ Cardinality(Waiting') \in Nat
      /\ Cardinality(Arriving) \in Nat /\ Cardinality(Arriving') \in Nat
  BY FS_CardinalityType DEF LeakInv, Books
<1>3. opened = closed + Cardinality(Handed) + Cardinality(Waiting) + Cardinality(Arriving)
  BY DEF LeakInv, NoLeak
<1>4. opened' = closed' + Cardinality(Handed') + Cardinality(Waiting') + Cardinality(Arriving')
  BY <1>1, <1>2, <1>3 DEF Books
<1>. QED  BY <1>4 DEF LeakInv, NoLeak, Books

LEMMA LeakPop ==
    ASSUME IInv, TypeOK', LeakInv, NEW h \in Handlers, GetPop(h)
    PROVE  LeakInv'
<1>. PICK s \in Slots : s = hslot[h]
  BY DEF IInv, TypeOK
<1>. PICK q \in Seq(Nat) : q = queue[s]
  BY DEF IInv, TypeOK
<1>1. /\ TypeOK /\ Len(q) \in Nat /\ DOMAIN q = 1..Len(q) /\ IsFiniteSet(Handed)
      /\ result[h] = "none" /\ result \in [Handlers -> {"none", "hit", "miss"}]
      /\ closed \in Nat /\ opened \in Nat
  BY LenProperties DEF IInv, TypeOK, AnswerInv, GetPop, LeakInv
<1>2. Arriving' = Arriving /\ opened' = opened /\ IsFiniteSet(Arriving)
      /\ Cardinality(Arriving) \in Nat
  BY FS_CardinalityType DEF GetPop, rvars, Arriving, LeakInv
<1>3. CASE /\ queue' = [queue EXCEPT ![s] = <<>>]
           /\ result' = [result EXCEPT ![h] = "miss"]
           /\ closed' = closed + Len(q)
  <2>1. Handed' = Handed /\ Cardinality(Handed) \in Nat
    BY <1>1, <1>3, FS_CardinalityType DEF Handed
  <2>2. <<>> \in Seq(Nat) /\ Len(<<>>) = 0
    OBVIOUS
  <2>3. IsFiniteSet(Waiting') /\ Cardinality(Waiting') + Len(q) = Cardinality(Waiting) + 0
    BY <1>1, <1>3, <2>2, WaitingExcept DEF LeakInv
  <2>4. Books(Len(q), 0, Len(q), 0, 0, 0)
    BY <1>1, <1>2, <1>3, <2>1, <2>3 DEF Books
  <2>. QED  BY <1>1, <2>4, LeakKeeps
<1>4. ASSUME NEW i \in 1..Len(q),
             queue' = [queue EXCEPT ![s] = SubSeq(q, i + 1, Len(q))],
             result' = [result EXCEPT ![h] = "hit"],
             closed' = closed + (i - 1)
      PROVE  LeakInv'
  <2>1. Handed' = Handed \cup {h} /\ h \notin Handed
    BY <1>1, <1>4 DEF Handed
  <2>2. IsFiniteSet(Handed') /\ Cardinality(Handed') = Cardinality(Handed) + 1
    BY <1>1, <2>1, FS_AddElement
  <2>3. PICK r \in Seq(Nat) : r = SubSeq(q, i + 1, Len(q)) /\ Len(r) = Len(q) - i
    BY RestFacts
  <2>4. IsFiniteSet(Waiting') /\ Cardinality(Waiting') + Len(q) = Cardinality(Waiting) + Len(r)
    BY <1>1, <1>4, <2>3, WaitingExcept DEF LeakInv
  <2>5. /\ i - 1 \in Nat /\ Len(r) \in Nat
        /\ opened' + Len(q) = opened + (i - 1) + 1 + Len(r)
    <3>1. \A a, b, c \in Nat : a = b - c /\ c >= 1 => c - 1 \in Nat /\ b = (c - 1) + 1 + a
      OBVIOUS
    <3>2. Len(r) \in Nat /\ i \in Nat /\ i >= 1
      BY <1>1, LenProperties
    <3>3. i - 1 \in Nat /\ Len(q) = (i - 1) + 1 + Len(r)
      BY <1>1, <2>3, <3>1, <3>2
    <3>. QED  BY <1>1, <1>2, <3>2, <3>3
  <2>6. Books(i - 1, 1, Len(q), Len(r), 0, 0)
    BY <1>1, <1>2, <1>4, <2>2, <2>4, <2>5 DEF Books
  <2>. QED  BY <1>1, <2>6, LeakKeeps
<1>. QED  BY <1>1, <1>3, <1>4 DEF GetPop

LEMMA LeakRefill ==
    ASSUME IInv, TypeOK', LeakInv, NEW t \in Tasks, RefillSpawn(t) \/ RefillCollect(t)
    PROVE  LeakInv'
<1>1. /\ TypeOK /\ opened \in Nat /\ closed \in Nat /\ TaskSlot(t) \in Slots
      /\ IsFiniteSet(Handed) /\ IsFiniteSet(Waiting) /\ IsFiniteSet(Arriving)
      /\ Cardinality(Handed) \in Nat /\ Cardinality(Waiting) \in Nat
      /\ Cardinality(Arriving) \in Nat
  BY FS_CardinalityType, TaskSlotType DEF IInv, TypeOK, LeakInv
<1>2. CASE RefillSpawn(t) /\ handles' = handles
  <2>1. UNCHANGED <<result, queue, handles, opened, closed>>
    BY <1>2 DEF RefillSpawn, hvars
  <2>. QED  BY <2>1 DEF LeakInv, NoLeak, Handed, Waiting, Arriving
<1>3. CASE RefillSpawn(t) /\ handles' # handles
  <2>1. UNCHANGED <<result, queue, opened, closed>>
        /\ handles' = [handles EXCEPT ![t] = [i \in 1..Needed(t) |-> FirstPoll]]
    BY <1>3 DEF RefillSpawn, hvars
  <2>2. handles[t] = <<>>
    BY <1>3 DEF RefillSpawn, IInv, LengthInv
  <2>3. Opened(<<>>) = {} /\ Opened([i \in 1..Needed(t) |-> FirstPoll]) = {}
    BY DEF Opened, FirstPoll
  <2>4. /\ IsFiniteSet(Arriving')
        /\ Cardinality(Arriving') + 0 = Cardinality(Arriving) + 0
    BY <1>1, <2>1, <2>2, <2>3, FS_EmptySet, ArrivingExcept
  <2>5. Handed' = Handed /\ Waiting' = Waiting
    BY <2>1 DEF Handed, Waiting
  <2>6. Books(0, 0, 0, 0, 0, 0)
    BY <1>1, <2>1, <2>4, <2>5 DEF Books
  <2>. QED  BY <1>1, <2>6, LeakKeeps
<1>4. CASE RefillCollect(t)
  <2>. PICK s \in Slots : s = TaskSlot(t)
    BY <1>1
  <2>. PICK d \in Seq(DialStates) : d = handles[t]
    BY <1>1 DEF TypeOK, DialStates
  <2>1. d # <<>> /\ handles' = [handles EXCEPT ![t] = Tail(d)] /\ Handed' = Handed
        /\ opened' = opened
    BY <1>4 DEF RefillCollect, hvars, Handed
  <2>2. PICK n \in {0, 1} :
           /\ n = IF Head(d) = "open" THEN 1 ELSE 0
           /\ IsFiniteSet(Arriving') /\ Cardinality(Arriving') + n = Cardinality(Arriving) + 0
    <3>1. /\ IsFiniteSet(Opened(d)) /\ IsFiniteSet(Opened(Tail(d)))
          /\ Cardinality(Opened(d)) \in Nat /\ Cardinality(Opened(Tail(d))) \in Nat
          /\ Cardinality(Opened(d)) =
                Cardinality(Opened(Tail(d))) + (IF Head(d) = "open" THEN 1 ELSE 0)
      BY <2>1, OpenedTail, FS_CardinalityType
    <3>2. /\ IsFiniteSet(Arriving') /\ Cardinality(Arriving') \in Nat
          /\ Cardinality(Arriving') + Cardinality(Opened(d))
                = Cardinality(Arriving) + Cardinality(Opened(Tail(d)))
      BY <1>1, <2>1, <3>1, ArrivingExcept, FS_CardinalityType
    <3>. QED  BY <1>1, <3>1, <3>2
  <2>3. CASE Head(d) # "open"
    <3>1. queue' = queue /\ closed' = closed /\ Waiting' = Waiting
      BY <1>4, <2>3 DEF RefillCollect, Waiting
    <3>2. Books(0, 0, 0, 0, n, 0)
      BY <1>1, <2>1, <2>2, <2>3, <3>1 DEF Books
    <3>. QED  BY <1>1, <3>2, LeakKeeps
  <2>4. CASE Head(d) = "open" /\ Len(queue[s]) < Cap
    <3>1. queue' = [queue EXCEPT ![s] = Append(queue[s], clock)] /\ closed' = closed
      BY <1>4, <2>4 DEF RefillCollect, Pushed
    <3>2. PICK r \in Seq(Nat) : r = Append(queue[s], clock) /\ Len(r) = Len(queue[s]) + 1
      <4>1. queue[s] \in Seq(Nat) /\ clock \in Nat
        BY <1>1 DEF TypeOK
      <4>2. /\ Append(queue[s], clock) \in Seq(Nat)
            /\ Len(Append(queue[s], clock)) = Len(queue[s]) + 1
        BY <4>1, AppendProperties
      <4>. QED  BY <4>2
    <3>3. Len(queue[s]) \in Nat
      BY <1>1, LenProperties DEF TypeOK
    <3>4. /\ IsFiniteSet(Waiting')
          /\ Cardinality(Waiting') + Len(queue[s]) = Cardinality(Waiting) + Len(r)
      BY <1>1, <3>1, <3>2, WaitingExcept
    <3>5. Cardinality(Waiting') \in Nat
      BY <3>4, FS_CardinalityType
    <3>6. Cardinality(Waiting') + 0 = Cardinality(Waiting) + 1
      BY <1>1, <3>2, <3>3, <3>4, <3>5
    <3>7. Books(0, 0, 0, 1, n, 0)
      BY <1>1, <2>1, <2>2, <2>4, <3>1, <3>4, <3>6 DEF Books
    <3>. QED  BY <1>1, <3>7, LeakKeeps
  <2>5. CASE Head(d) = "open" /\ ~(Len(queue[s]) < Cap)
    <3>1. queue' = queue /\ closed' = closed + 1 /\ Waiting' = Waiting
      BY <1>4, <2>5 DEF RefillCollect, Waiting
    <3>2. Books(1, 0, 0, 0, n, 0)
      BY <1>1, <2>1, <2>2, <2>5, <3>1 DEF Books
    <3>. QED  BY <1>1, <3>2, LeakKeeps
  <2>. QED  BY <2>3, <2>4, <2>5
<1>. QED  BY <1>2, <1>3, <1>4

LEMMA LeakDial ==
    ASSUME IInv, TypeOK', LeakInv, NEW t \in Tasks, NEW i \in DOMAIN handles[t],
           DialOpen(t, i) \/ DialFail(t, i)
    PROVE  LeakInv'
<1>. PICK d \in Seq(DialStates) : d = handles[t]
  BY DEF IInv, TypeOK, DialStates
<1>1. /\ TypeOK /\ opened \in Nat /\ closed \in Nat
      /\ IsFiniteSet(Handed) /\ IsFiniteSet(Waiting) /\ IsFiniteSet(Arriving)
      /\ Cardinality(Handed) \in Nat /\ Cardinality(Waiting) \in Nat
      /\ Cardinality(Arriving) \in Nat
  BY FS_CardinalityType DEF IInv, TypeOK, LeakInv
<1>2. /\ DOMAIN d = 1..Len(d) /\ Len(d) \in Nat /\ d[i] = "dialing"
      /\ IsFiniteSet(1..Len(d)) /\ i \in 1..Len(d)
  BY LenProperties, PrefixSize DEF DialOpen, DialFail
<1>3. IsFiniteSet(Opened(d)) /\ Cardinality(Opened(d)) \in Nat
  BY <1>2, FS_Subset, FS_CardinalityType DEF Opened
<1>4. Handed' = Handed /\ Waiting' = Waiting /\ closed' = closed
  BY DEF DialOpen, DialFail, hvars, Handed, Waiting
<1>5. CASE DialOpen(t, i)
  <2>. PICK e : e = [d EXCEPT ![i] = "open"]
    OBVIOUS
  <2>1. handles' = [handles EXCEPT ![t] = e] /\ opened' = opened + 1
    BY <1>1, <1>5 DEF DialOpen, TypeOK
  <2>2. Opened(e) = Opened(d) \cup {i} /\ i \notin Opened(d)
    BY <1>2 DEF Opened
  <2>3. IsFiniteSet(Opened(e)) /\ Cardinality(Opened(e)) = Cardinality(Opened(d)) + 1
    BY <1>3, <2>2, FS_AddElement
  <2>4. /\ IsFiniteSet(Arriving')
        /\ Cardinality(Arriving') + Cardinality(Opened(d))
              = Cardinality(Arriving) + Cardinality(Opened(e))
    BY <1>1, <1>3, <2>1, <2>3, ArrivingExcept
  <2>5. Cardinality(Arriving') \in Nat
    BY <2>4, FS_CardinalityType
  <2>6. Books(0, 0, 0, 0, 0, 1)
    BY <1>1, <1>3, <1>4, <2>1, <2>3, <2>4, <2>5 DEF Books
  <2>. QED  BY <1>1, <2>6, LeakKeeps
<1>6. CASE DialFail(t, i)
  <2>. PICK e : e = [d EXCEPT ![i] = "failed"]
    OBVIOUS
  <2>1. handles' = [handles EXCEPT ![t] = e] /\ opened' = opened
    BY <1>1, <1>6 DEF DialFail, TypeOK
  <2>2. Opened(e) = Opened(d)
    BY <1>2 DEF Opened
  <2>3. /\ IsFiniteSet(Arriving')
        /\ Cardinality(Arriving') + Cardinality(Opened(d))
              = Cardinality(Arriving) + Cardinality(Opened(d))
    BY <1>1, <1>3, <2>1, <2>2, ArrivingExcept
  <2>4. Cardinality(Arriving') \in Nat
    BY <2>3, FS_CardinalityType
  <2>5. Books(0, 0, 0, 0, 0, 0)
    BY <1>1, <1>3, <1>4, <2>1, <2>3, <2>4 DEF Books
  <2>. QED  BY <1>1, <2>5, LeakKeeps
<1>. QED  BY <1>5, <1>6

LEMMA LeakClose ==
    ASSUME IInv, TypeOK', LeakInv, NEW c \in Closers, NEW s \in Slots, CloseSlot(c, s)
    PROVE  LeakInv'
<1>1. /\ TypeOK /\ opened \in Nat /\ closed \in Nat /\ Len(queue[s]) \in Nat
      /\ IsFiniteSet(Handed) /\ IsFiniteSet(Waiting) /\ IsFiniteSet(Arriving)
      /\ Cardinality(Handed) \in Nat /\ Cardinality(Arriving) \in Nat
  BY FS_CardinalityType, LenProperties DEF IInv, TypeOK, LeakInv
<1>2. /\ queue' = [queue EXCEPT ![s] = <<>>] /\ closed' = closed + Len(queue[s])
      /\ opened' = opened /\ Handed' = Handed /\ Arriving' = Arriving
  BY DEF CloseSlot, hvars, rvars, Handed, Arriving
<1>3. <<>> \in Seq(Nat) /\ Len(<<>>) = 0
  OBVIOUS
<1>4. /\ IsFiniteSet(Waiting')
      /\ Cardinality(Waiting') + Len(queue[s]) = Cardinality(Waiting) + 0
  BY <1>1, <1>2, <1>3, WaitingExcept
<1>5. Books(Len(queue[s]), 0, Len(queue[s]), 0, 0, 0)
  BY <1>1, <1>2, <1>4 DEF Books
<1>. QED  BY <1>1, <1>5, LeakKeeps

\* Steps that touch none of the accounts.
LEMMA LeakIdle ==
    ASSUME LeakInv, UNCHANGED <<result, queue, handles, opened, closed>>
    PROVE  LeakInv'
  BY DEF LeakInv, NoLeak, Handed, Waiting, Arriving

LEMMA LeakStep ==
    ASSUME IInv, LeakInv, [Next]_vars
    PROVE  LeakInv'
<1>1. TypeOK'
  BY TypeStep DEF IInv
<1>2. CASE \/ \E h \in Handlers : GetBegin(h) \/ GetRefill(h)
           \/ \E s \in WarmSlots : Warmup(s)
           \/ \E t \in Tasks : RefillLen(t) \/ RefillDone(t)
           \/ \E c \in Closers : CloseAll(c)
           \/ \E n \in Sizes : SetPoolSize(n)
           \/ Cancel
           \/ Tick
           \/ UNCHANGED vars
  BY <1>2, LeakIdle
     DEF GetBegin, GetRefill, Warmup, RefillLen, RefillDone, CloseAll, SetPoolSize, Cancel,
         Tick, vars, hvars, rvars
<1>. QED  BY <1>1, <1>2, NextCases, LeakPop, LeakRefill, LeakDial, LeakClose

LEMMA LeakInit ==
    ASSUME Init
    PROVE  LeakInv
<1>1. Handed = {}
  BY DEF Init, Handed
<1>2. Waiting = {}
  BY DEF Init, Waiting, Members
<1>3. Arriving = {}
  BY DEF Init, Arriving, Members, Opened
<1>4. opened = 0 /\ closed = 0
  BY DEF Init
<1>. QED  BY <1>1, <1>2, <1>3, <1>4, FS_EmptySet DEF LeakInv, NoLeak

\* Each connection a dial opened is with its refill task, idle in a queue, handed
\* to a handler or closed, and in one of these places only.
THEOREM NoLeakHolds == Spec => []NoLeak
<1>1. Init => LeakInv
  BY LeakInit
<1>2. IInv /\ LeakInv /\ [Next]_vars => LeakInv'
  BY LeakStep
<1>3. LeakInv => NoLeak
  BY DEF LeakInv
<1>. QED  BY <1>1, <1>2, <1>3, Inductive, PTL DEF Spec

-----------------------------------------------------------------------------
(* The refinement. *)

LEMMA IdleInit ==
    ASSUME Init
    PROVE  Idle!Init
<1>1. \A s \in Slots : Len(queue[s]) = 0
  BY DEF Init
<1>2. Handed = {}
  BY DEF Init, Handed
<1>. QED  BY <1>1, <1>2 DEF Idle!Init

LEMMA IdleStep ==
    ASSUME IInv, IInv', [Next]_vars
    PROVE  [Idle!Next]_(Idle!vars)
<1> DEFINE idle == [s \in Slots |-> Len(queue[s])]
           handed == Handed
<1> USE DEF Handed
<1>1. \A s \in Slots : /\ Len(queue[s]) \in Nat /\ Len(queue'[s]) \in Nat
                       /\ queue[s] \in Seq(Nat) /\ queue'[s] \in Seq(Nat)
  BY LenProperties DEF IInv, TypeOK
\* A queue that got shorter, or not, is a Drop or a stutter.
<1>2. ASSUME NEW s \in Slots, handed' = handed,
             \A x \in Slots : x # s => queue'[x] = queue[x],
             Len(queue'[s]) <= Len(queue[s])
      PROVE  [Idle!Next]_(Idle!vars)
  <2>1. idle' = [idle EXCEPT ![s] = Len(queue'[s])]
    BY <1>2
  <2>2. CASE Len(queue'[s]) = Len(queue[s])
    <3>1. idle' = idle
      BY <2>1, <2>2, <1>2
    <3>. QED  BY <1>2, <3>1 DEF Idle!vars
  <2>3. CASE Len(queue'[s]) # Len(queue[s])
    <3>1. Len(queue'[s]) \in 0..(Len(queue[s]) - 1)
      BY <1>1, <1>2, <2>3
    <3>2. Idle!Drop(s)
      BY <1>2, <2>1, <3>1 DEF Idle!Drop
    <3>. QED  BY <3>2 DEF Idle!Next
  <2>. QED  BY <2>2, <2>3
<1>3. CASE \E h \in Handlers : GetPop(h)
  <2>1. PICK h \in Handlers : GetPop(h)
    BY <1>3
  <2>0. PICK s \in Slots : s = hslot[h]
    BY DEF IInv, TypeOK
  <2> DEFINE q == queue[s]
             usable == {i \in DOMAIN q : Usable(q[i], hnow[h])}
  <2>2. q \in Seq(Nat) /\ hpc[h] = "slot" /\ result[h] = "none"
    BY <2>1, <2>0 DEF IInv, TypeOK, AnswerInv, GetPop
  <2>3. CASE /\ queue' = [queue EXCEPT ![s] = <<>>]
             /\ result' = [result EXCEPT ![h] = "miss"]
    <3>1. handed' = handed
      BY <2>2, <2>3 DEF IInv, TypeOK
    <3>2. /\ \A x \in Slots : x # s => queue'[x] = queue[x]
          /\ queue'[s] = <<>>
      BY <2>2, <2>3 DEF IInv, TypeOK
    <3>3. Len(queue'[s]) <= Len(queue[s])
      BY <1>1, <2>2, <3>2
    <3>. QED  BY <1>2, <2>2, <3>1, <3>2, <3>3
  <2>4. CASE \E i \in usable : /\ queue' = [queue EXCEPT ![s] = SubSeq(q, i + 1, Len(q))]
                               /\ result' = [result EXCEPT ![h] = "hit"]
    <3>1. PICK i \in usable : /\ queue' = [queue EXCEPT ![s] = SubSeq(q, i + 1, Len(q))]
                              /\ result' = [result EXCEPT ![h] = "hit"]
      BY <2>4
    <3>2. h \notin handed /\ handed' = handed \cup {h}
      <4>1. \A g \in Handlers : result'[g] = IF g = h THEN "hit" ELSE result[g]
        BY <3>1 DEF IInv, TypeOK
      <4>. QED  BY <2>2, <4>1
    <3>3. i \in 1..Len(q) /\ Len(q) \in Nat
      BY <2>2, LenProperties
    <3>4. \A j \in (i + 1)..Len(q) : q[j] \in Nat
      <4>1. \A j \in 1..Len(q) : q[j] \in Nat
        BY <2>2, ElementOfSeq
      <4>. QED  BY <3>3, <4>1
    <3>5. Len(SubSeq(q, i + 1, Len(q))) = IF i + 1 <= Len(q) THEN Len(q) - (i + 1) + 1 ELSE 0
      BY <3>3, <3>4, SubSeqProperties
    <3>6. Len(SubSeq(q, i + 1, Len(q))) \in 0..(Len(q) - 1)
      BY <3>3, <3>5
    <3>7. queue' \in [Slots -> Seq(Nat)] /\ queue \in [Slots -> Seq(Nat)]
      BY DEF IInv, TypeOK
    <3>8. idle' = [idle EXCEPT ![s] = Len(SubSeq(q, i + 1, Len(q)))]
      BY <2>2, <3>1, <3>7
    <3>9. Idle!Take(h, s)
      BY <2>2, <3>2, <3>6, <3>8 DEF Idle!Take
    <3>10. Idle!Next
      BY <2>2, <3>9, Zenon DEF Idle!Next
    <3>. QED  BY <3>10
  <2>. QED  BY <2>0, <2>1, <2>3, <2>4 DEF GetPop
<1>4. CASE \E c \in Closers, s \in Slots : CloseSlot(c, s)
  <2>1. PICK s \in Slots : queue' = [queue EXCEPT ![s] = <<>>] /\ result' = result
    BY <1>4 DEF CloseSlot, hvars
  <2>2. /\ \A x \in Slots : x # s => queue'[x] = queue[x]
        /\ queue'[s] = <<>>
    BY <2>1 DEF IInv, TypeOK
  <2>3. Len(queue'[s]) <= Len(queue[s])
    BY <1>1, <2>2
  <2>. QED  BY <1>2, <2>1, <2>2, <2>3
<1>5. CASE \E t \in Tasks : RefillCollect(t)
  <2>1. PICK t \in Tasks : RefillCollect(t)
    BY <1>5
  <2>0. PICK s \in Slots : s = TaskSlot(t)
    BY TaskSlotType DEF IInv
  <2>2. result' = result
    BY <2>1 DEF RefillCollect, Pushed, hvars
  <2>3. CASE queue' = queue
    BY <2>2, <2>3 DEF Idle!vars
  <2>4. CASE queue' = [queue EXCEPT ![s] = Append(@, clock)]
    <3>1. queue[s] \in Seq(Nat) /\ clock \in Nat
      BY <2>2 DEF IInv, TypeOK
    <3>2. Len(Append(queue[s], clock)) = Len(queue[s]) + 1
      BY <3>1, AppendProperties
    <3>3. Len(queue[s]) < MaxIdle
      <4>1. rpc[t] = "dialing" /\ handles[t] # <<>> /\ handles[t] \in Seq(DialStates)
        BY <2>1 DEF RefillCollect, Pushed, IInv, TypeOK, DialStates
      <4>2. Len(handles[t]) \in Nat /\ Len(handles[t]) > 0
        BY <4>1, LenProperties, EmptySeq
      <4>3. Len(queue[s]) + Len(handles[t]) <= MaxIdle
        BY <2>0, <4>1 DEF IInv, LengthInv
      <4>4. MaxIdle \in Nat /\ Len(queue[s]) \in Nat
        BY <1>1, <2>2, SizeAssumption
      <4>5. \A a, b \in Nat : b > 0 /\ a + b <= MaxIdle => a < MaxIdle
        BY <4>4
      <4>. QED  BY <4>2, <4>3, <4>4, <4>5
    <3>4. idle' = [idle EXCEPT ![s] = @ + 1]
      BY <2>2, <2>4, <3>2 DEF IInv, TypeOK
    <3>5. Idle!Supply(s)
      BY <2>2, <3>3, <3>4 DEF Idle!Supply
    <3>6. Idle!Next
      BY <2>2, <3>5, Zenon DEF Idle!Next
    <3>. QED  BY <3>6
  <2>. QED  BY <2>0, <2>1, <2>3, <2>4 DEF RefillCollect, Pushed
<1>6. ASSUME UNCHANGED <<queue, result>>
      PROVE  [Idle!Next]_(Idle!vars)
  BY <1>6 DEF Idle!vars
<1>7. CASE \/ \E h \in Handlers : GetBegin(h) \/ GetRefill(h)
           \/ \E s \in WarmSlots : Warmup(s)
           \/ \E t \in Tasks : RefillLen(t) \/ RefillSpawn(t) \/ RefillDone(t)
           \/ \E t \in Tasks : \E i \in DOMAIN handles[t] : DialOpen(t, i) \/ DialFail(t, i)
           \/ \E c \in Closers : CloseAll(c)
           \/ \E n \in Sizes : SetPoolSize(n)
           \/ Cancel
           \/ Tick
           \/ UNCHANGED vars
  <2>1. UNCHANGED <<queue, result>>
    BY <1>7 DEF GetBegin, GetRefill, Warmup, RefillLen, RefillSpawn, FirstPoll, RefillDone,
         DialOpen, DialFail, CloseAll, SetPoolSize, Cancel, Tick, vars, hvars
  <2>. QED  BY <1>6, <2>1
<1>. QED
  BY <1>3, <1>4, <1>5, <1>7, NextCases

\* The refill protocol implements the abstract pool: initial states map to its
\* initial state and every step to one of its steps or to a stutter.
THEOREM Refinement == Spec => ImplementsIdlePool
<1>1. Init => Idle!Init
  BY IdleInit
<1>2. IInv /\ IInv' /\ [Next]_vars => [Idle!Next]_(Idle!vars)
  BY IdleStep
<1>. QED  BY <1>1, <1>2, Inductive, PTL DEF Spec, Idle!Spec, ImplementsIdlePool

=============================================================================
