--------------------------- MODULE WorkQueue_proofs ---------------------------
(***************************************************************************)
(* The theorems about the producer/consumer programs, task3 (CondSpec) and *)
(* task2 (SpinSpec), for any number of consumers and elements: types,      *)
(* mutual exclusion, no item lost or doubled, no pill too few or too many, *)
(* no wakeup lost, and that both implement WorkDispatch step by step.      *)
(***************************************************************************)
EXTENDS CondConsumers, SpinConsumers, FiniteSetTheorems, TLAPS

USE WorkQueueAssumption DEF WithItem, ToPush, Available, Popped

-----------------------------------------------------------------------------
(* The inductive invariant. *)

\* How far main is.
MainInv == /\ mpc = "spawn" => /\ spawned < C /\ pushed = 0
                                /\ \A c \in Consumers : c > spawned => pc[c] = "new"
           /\ mpc \in {"lock", "push"} => pushed < N + C
           /\ mpc = "join" => joined < C
           /\ mpc \notin {"join", "exit"} => joined = 0
           /\ mpc = "exit" => joined = C
           /\ mpc \in {"broadcast", "join", "exit"} => pushed = N + C

\* A consumer has an item in temp between the pop and the addition only, or the
\* pill it has stopped for.
TempInv == \A c \in Consumers :
              /\ pc[c] \notin {"unlock", "account", "done"} => temp[c] = None
              /\ pc[c] = "done" => IsPill(temp[c])

\* The items are in the queue in the order in which they were pushed; those up to
\* First have been popped.
First   == pushed - Len(queue)
InOrder == /\ First \in Nat
           /\ \A k \in 1..Len(queue) : queue[k] = First + k

\* Every item that has been popped is with exactly one consumer.
Taken == /\ \A i \in 1..First : \E c \in Consumers : HasTaken(c, i)
         /\ \A c \in Consumers, i \in Items : HasTaken(c, i) => i <= First
         /\ \A c, d \in Consumers, i \in Items :
              HasTaken(c, i) /\ HasTaken(d, i) => c = d

IInv == TypeOK /\ MainInv /\ MutualExclusion /\ TempInv /\ InOrder /\ Taken

\* The sum of a set of elements is a number: the set is finite.
LEMMA SumIsInt == \A S \in SUBSET (1..N) : SumOf(S) \in Int
<1> SUFFICES ASSUME NEW S \in SUBSET (1..N) PROVE SumOf(S) \in Int
  OBVIOUS
<1>1. IsFiniteSet(S)
  <2>1. IsFiniteSet(1..N)
    BY FS_Interval
  <2>2. QED
    BY <2>1, FS_Subset
<1>2. /\ IsFiniteSet({i \in S : Value(i) = 1})
      /\ IsFiniteSet({i \in S : Value(i) = -1})
  BY <1>1, FS_Subset
<1>3. QED
  BY <1>2, FS_CardinalityType DEF SumOf

\* The initial states satisfy the invariant.
LEMMA Initially == Init => IInv
<1> SUFFICES ASSUME Init PROVE IInv
  OBVIOUS
<1>1. TypeOK
  BY DEF Init, TypeOK, Items, Consumers, MainPcs, ConsumerPcs, Free, None
<1>2. MainInv /\ MutualExclusion /\ TempInv
  BY DEF Init, MainInv, MutualExclusion, TempInv
<1>3. InOrder /\ Taken
  BY DEF Init, InOrder, First, Taken, HasTaken, Items, None
<1>4. QED
  BY <1>1, <1>2, <1>3 DEF IInv

\* What only moves main, or wakes consumers up, keeps the queue and the items.
LEMMA ItemsKept ==
    ASSUME InOrder, Taken, UNCHANGED <<queue, pushed, temp, added>>
    PROVE  InOrder' /\ Taken'
BY DEF InOrder, First, Taken, HasTaken

\* The steps of main, but for the push of an item.
LEMMA MainSteps ==
    ASSUME IInv,
           \/ \E first \in {"peek", "lock"} : SpawnThread(first)
           \/ SpawnFails \/ ProducerLock \/ Join
           \/ \E last \in {"broadcast", "join"} : ProducerUnlock(last)
    PROVE  IInv'
<1> USE DEF IInv
<1>1. InOrder' /\ Taken'
  BY ItemsKept DEF SpawnThread, SpawnFails, ProducerLock, ProducerUnlock, Join
<1>2. ASSUME NEW first \in {"peek", "lock"}, SpawnThread(first) PROVE IInv'
  <2>1. spawned + 1 \in 1..C /\ mpc' \in {"spawn", "lock"} /\ mpc = "spawn"
    BY <1>2 DEF SpawnThread, TypeOK, MainInv
  <2>2. TypeOK'
    BY <1>2, <2>1 DEF SpawnThread, TypeOK, MainPcs, ConsumerPcs, Consumers
  <2>3. MainInv'
    BY <1>2, <2>1 DEF SpawnThread, TypeOK, MainInv, Consumers
  <2>4. MutualExclusion' /\ TempInv'
    BY <1>2, <2>1 DEF SpawnThread, TypeOK, MutualExclusion, MainInv, TempInv, Consumers
  <2>5. QED
    BY <1>1, <2>2, <2>3, <2>4
<1>3. CASE SpawnFails
  BY <1>1, <1>3 DEF SpawnFails, TypeOK, MainInv, MutualExclusion, TempInv, MainPcs
<1>4. CASE ProducerLock
  BY <1>1, <1>4 DEF ProducerLock, TypeOK, MainInv, MutualExclusion, TempInv, MainPcs,
                    Consumers, Main, Free
<1>5. ASSUME NEW last \in {"broadcast", "join"}, ProducerUnlock(last) PROVE IInv'
  BY <1>1, <1>5 DEF ProducerUnlock, TypeOK, MainInv, MutualExclusion, TempInv, MainPcs,
                    Consumers, Main, Free
<1>6. CASE Join
  <2>1. SumOf(added[joined + 1]) \in Int
    BY <1>6, SumIsInt DEF Join, TypeOK, MainInv, Consumers
  <2>2. QED
    BY <1>1, <1>6, <2>1 DEF Join, TypeOK, MainInv, MutualExclusion, TempInv, MainPcs
<1>7. QED
  BY <1>2, <1>3, <1>4, <1>5, <1>6

\* The push of an element or a pill, which wakes some of the waiters, or nobody.
LEMMA PushStep ==
    ASSUME IInv, PushItem, NEW W \in SUBSET Waiting,
           pc' = [c \in Consumers |-> IF c \in W THEN "wake" ELSE pc[c]]
    PROVE  IInv'
<1> USE DEF IInv
<1>1. pc' = [c \in Consumers |-> IF c \in W THEN "wake" ELSE pc[c]]
  OBVIOUS
<1>2. /\ mpc = "push" /\ mpc' = "unlock"
      /\ queue' = Append(queue, pushed + 1) /\ pushed' = pushed + 1
      /\ pushed + 1 \in Items
      /\ UNCHANGED <<mutex, spawned, joined, sum, temp, added>>
  BY DEF PushItem, TypeOK, MainInv, Items
<1> HIDE DEF IInv
<1>a. TypeOK /\ MainInv /\ MutualExclusion /\ TempInv /\ InOrder /\ Taken /\ W \in SUBSET Waiting
  BY DEF IInv
<1>b. \A c \in Consumers : pc'[c] = pc[c] \/ (pc[c] = "wait" /\ pc'[c] = "wake")
  BY <1>1, <1>a DEF Waiting
<1>c. TypeOK'
  <2>1. pc' \in [Consumers -> ConsumerPcs]
    BY <1>1, <1>a DEF TypeOK, ConsumerPcs
  <2>2. queue' \in Seq(Items) /\ pushed' \in 0..(N + C) /\ mpc' \in MainPcs
    BY <1>2, <1>a DEF TypeOK, MainPcs, Items
  <2>3. QED
    BY <1>2, <1>a, <2>1, <2>2 DEF TypeOK
<1>d. MainInv'
  BY <1>2, <1>a DEF MainInv
<1>e. MutualExclusion'
  BY <1>2, <1>a, <1>b DEF MutualExclusion
<1>f. TempInv'
  BY <1>2, <1>a, <1>b DEF TempInv
<1>3. TypeOK' /\ MainInv' /\ MutualExclusion' /\ TempInv'
  BY <1>c, <1>d, <1>e, <1>f
<1> USE DEF IInv
<1>4. Len(queue') = Len(queue) + 1 /\ First' = First
  BY <1>2 DEF TypeOK, First
<1>5. InOrder'
  <2> HIDE DEF IInv
  <2>1. /\ queue \in Seq(Items) /\ Len(queue) \in Nat /\ pushed \in Nat
        /\ First \in Nat /\ pushed = First + Len(queue)
    BY <1>a DEF TypeOK, InOrder, First
  <2>2. ASSUME NEW k \in 1..Len(queue') PROVE queue'[k] = First' + k
    <3>1. CASE k <= Len(queue)
      <4>1. queue'[k] = queue[k] /\ k \in 1..Len(queue)
        BY <1>2, <1>4, <2>1, <3>1
      <4>2. QED
        BY <1>4, <1>a, <4>1 DEF InOrder
    <3>2. CASE k = Len(queue) + 1
      <4>1. queue'[k] = pushed + 1
        BY <1>2, <2>1, <3>2
      <4>2. QED
        BY <1>4, <2>1, <3>2, <4>1
    <3>3. QED
      BY <1>4, <2>1, <3>1, <3>2
  <2>3. QED
    BY <1>4, <2>1, <2>2 DEF InOrder
<1>6. Taken'
  <2>1. \A c \in Consumers, i \in Items : HasTaken(c, i)' <=> HasTaken(c, i)
    BY <1>2 DEF HasTaken
  <2>2. First \in Nat /\ First <= N + C /\ pushed \in Nat
    BY <1>2, <1>a DEF InOrder, First, TypeOK
  <2>3. \A i \in 1..First : i \in Items
    BY <2>2 DEF Items
  <2> HIDE DEF IInv
  <2>4. QED
    BY <1>4, <1>a, <2>1, <2>3 DEF Taken
<1>7. QED
  BY <1>3, <1>5, <1>6

\* A consumer goes on from pc[c] to `to` and takes the mutex, releases it, or does
\* neither; queue and items stay.
LEMMA GoOn ==
    ASSUME IInv, NEW c \in Consumers, NEW to \in ConsumerPcs,
           pc' = [pc EXCEPT ![c] = to], UNCHANGED <<queue, main_vars, temp, added>>,
           pc[c] # "new", to \notin {"unlock", "account", "done"} => temp[c] = None,
           to = "done" => IsPill(temp[c]),
           \/ mutex = Free /\ mutex' = c
           \/ pc[c] \in {"test", "unlock"} /\ to \notin {"test", "unlock"} /\ mutex' = Free
           \/ (to \in {"test", "unlock"} => pc[c] \in {"test", "unlock"}) /\ mutex' = mutex
    PROVE  IInv'
<1>1. InOrder' /\ Taken'
  BY ItemsKept DEF IInv, main_vars
<1>2. TypeOK' /\ MainInv'
  <2>1. mutex' \in Consumers \cup {Main, Free}
    BY DEF IInv, TypeOK
  <2>2. QED
    BY <2>1 DEF IInv, TypeOK, MainInv, main_vars
<1>3. TempInv'
  BY DEF IInv, TypeOK, TempInv
<1>4. MutualExclusion'
  <2>1. /\ MutualExclusion /\ pc \in [Consumers -> ConsumerPcs] /\ mpc' = mpc
        /\ mutex \in Consumers \cup {Main, Free} /\ Main \notin Consumers /\ Free \notin Consumers
        /\ Main # Free
    BY DEF IInv, TypeOK, main_vars, Consumers, Main, Free
  <2>2. CASE mutex = Free /\ mutex' = c
    BY <2>1, <2>2 DEF MutualExclusion
  <2>3. CASE pc[c] \in {"test", "unlock"} /\ to \notin {"test", "unlock"} /\ mutex' = Free
    <3>1. mutex = c /\ mpc \notin {"push", "unlock"}
      BY <2>1, <2>3 DEF MutualExclusion
    <3>2. \A d \in Consumers : pc'[d] \notin {"test", "unlock"}
      BY <2>1, <2>3, <3>1 DEF MutualExclusion
    <3>3. QED
      BY <2>1, <3>1, <3>2 DEF MutualExclusion
  <2>4. CASE (to \in {"test", "unlock"} => pc[c] \in {"test", "unlock"}) /\ mutex' = mutex
    BY <2>1, <2>4 DEF MutualExclusion
  <2>5. QED
    BY <2>2, <2>3, <2>4
<1>5. QED
  BY <1>1, <1>2, <1>3, <1>4 DEF IInv

\* The steps of a consumer on the mutex, and its end.
LEMMA LockSteps ==
    ASSUME IInv, NEW c \in Consumers, Lock(c) \/ Unlock(c) \/ Leave(c)
    PROVE  IInv'
<1>1. CASE Lock(c)
  <2>1. temp[c] = None /\ pc[c] # "new" /\ mutex = Free /\ mutex' = c
    BY <1>1 DEF Lock, IInv, TempInv
  <2>2. pc' = [pc EXCEPT ![c] = "test"] /\ UNCHANGED <<queue, main_vars, temp, added>>
    BY <1>1 DEF Lock
  <2>3. QED
    BY <2>1, <2>2, GoOn DEF ConsumerPcs
<1>2. CASE Unlock(c)
  <2>1. /\ pc[c] = "unlock" /\ mutex' = Free
        /\ pc' = [pc EXCEPT ![c] = "account"] /\ UNCHANGED <<queue, main_vars, temp, added>>
    BY <1>2 DEF Unlock
  <2>2. QED
    BY <2>1, GoOn DEF ConsumerPcs
<1>3. CASE Leave(c)
  <2>1. /\ pc[c] = "account" /\ mutex' = mutex /\ IsPill(temp[c])
        /\ pc' = [pc EXCEPT ![c] = "done"] /\ UNCHANGED <<queue, main_vars, temp, added>>
    BY <1>3 DEF Leave
  <2>2. QED
    BY <2>1, GoOn DEF ConsumerPcs
<1>4. QED
  BY <1>1, <1>2, <1>3

\* A consumer pops the first item.
LEMMA PopStep == ASSUME IInv, NEW c \in Consumers, Pop(c) PROVE IInv'
<1> USE DEF IInv
<1>1. /\ queue # <<>> /\ queue \in Seq(Items)
      /\ Head(queue) = First + 1 /\ First + 1 \in Items
      /\ queue' = Tail(queue) /\ Len(queue') = Len(queue) - 1 /\ First' = First + 1
      /\ temp' = [temp EXCEPT ![c] = First + 1] /\ temp[c] = None
      /\ pc[c] = "test" /\ pc' = [pc EXCEPT ![c] = "unlock"]
      /\ UNCHANGED <<mutex, main_vars, added>>
  <2>1. queue # <<>> /\ queue \in Seq(Items) /\ Len(queue) \in Nat \ {0}
    BY DEF Pop, TypeOK
  <2>2. Head(queue) = First + 1 /\ First + 1 \in Items
    BY <2>1 DEF InOrder
  <2>3. Len(Tail(queue)) = Len(queue) - 1
    BY <2>1
  <2>4. queue' = Tail(queue) /\ UNCHANGED <<mutex, main_vars, added>>
    BY DEF Pop
  <2>5. First' = First + 1
    BY <2>1, <2>3, <2>4 DEF First, main_vars, TypeOK
  <2>6. pc[c] = "test" /\ pc' = [pc EXCEPT ![c] = "unlock"] /\ temp[c] = None
    BY DEF Pop, TempInv
  <2>7. temp' = [temp EXCEPT ![c] = First + 1]
    BY <2>2 DEF Pop
  <2>8. QED
    BY <2>1, <2>2, <2>3, <2>4, <2>5, <2>6, <2>7
<1>2. TypeOK'
  BY <1>1 DEF TypeOK, main_vars, ConsumerPcs
<1>3. MainInv' /\ MutualExclusion' /\ TempInv'
  <2>1. MainInv'
    BY <1>1 DEF TypeOK, main_vars, MainInv
  <2>2. MutualExclusion'
    BY <1>1 DEF TypeOK, main_vars, MutualExclusion
  <2>3. TempInv'
    BY <1>1 DEF TypeOK, main_vars, TempInv
  <2>4. QED
    BY <2>1, <2>2, <2>3
<1>4. InOrder'
  <2>1. ASSUME NEW k \in 1..Len(queue') PROVE queue'[k] = First' + k
    <3>1. queue'[k] = queue[k + 1] /\ k + 1 \in 1..Len(queue)
      BY <1>1
    <3>2. QED
      BY <1>1, <3>1 DEF InOrder
  <2>2. QED
    BY <1>1, <2>1 DEF InOrder
<1>5. Taken'
  <2>1. \A d \in Consumers, i \in Items :
           HasTaken(d, i)' <=> HasTaken(d, i) \/ (d = c /\ i = First + 1)
    BY <1>1 DEF HasTaken, TypeOK, Items, None
  <2>2. First \in Nat /\ \A i \in 1..First' : i \in 1..First \/ i = First + 1
    BY <1>1 DEF InOrder
  <2>3. \A i \in 1..First' : i \in Items
    BY <1>1, <2>2 DEF Items
  <2>4. Taken /\ First' = First + 1 /\ First \in Nat /\ c \in Consumers
    BY <1>1, <2>2
  <2>5. \A i \in 1..First' : \E d \in Consumers : HasTaken(d, i)'
    BY <2>1, <2>2, <2>3, <2>4 DEF Taken
  <2>6. \A d \in Consumers, i \in Items : HasTaken(d, i)' => i <= First'
    BY <2>1, <2>4 DEF Taken, Items
  <2>7. \A d, b \in Consumers, i \in Items : HasTaken(d, i)' /\ HasTaken(b, i)' => d = b
    BY <2>1, <2>4 DEF Taken, Items
  <2> HIDE DEF IInv
  <2>8. QED
    BY <2>5, <2>6, <2>7 DEF Taken
<1>6. QED
  BY <1>2, <1>3, <1>4, <1>5

\* A consumer adds its element to its sum.
LEMMA AddStep == ASSUME IInv, NEW c \in Consumers, Add(c) PROVE IInv'
<1> USE DEF IInv
<1>1. /\ pc[c] = "account" /\ pc' = [pc EXCEPT ![c] = "lock"]
      /\ temp[c] \in 0..N /\ temp' = [temp EXCEPT ![c] = None]
      /\ added' = [added EXCEPT ![c] = added[c] \cup ({temp[c]} \ {None})]
      /\ UNCHANGED <<mutex, queue, main_vars>>
  BY DEF Add, TypeOK, IsPill, Items, None
<1>2. TypeOK'
  BY <1>1 DEF TypeOK, main_vars, ConsumerPcs, None
<1>3. MainInv' /\ MutualExclusion' /\ TempInv'
  BY <1>1 DEF TypeOK, main_vars, MainInv, MutualExclusion, TempInv
<1>4. InOrder' /\ First' = First
  BY <1>1 DEF InOrder, First, main_vars
<1>5. \A d \in Consumers, i \in Items : HasTaken(d, i)' <=> HasTaken(d, i)
  BY <1>1 DEF HasTaken, TypeOK, Items, None
<1>6. Taken'
  BY <1>4, <1>5 DEF Taken, InOrder, TypeOK, First, Items
<1>7. QED
  BY <1>2, <1>3, <1>4, <1>6

\* A step that changes nothing.
LEMMA Stuttering == ASSUME IInv, UNCHANGED vars PROVE IInv'
  BY DEF vars, main_vars, IInv, TypeOK, MainInv, MutualExclusion, TempInv, InOrder, First,
         Taken, HasTaken

\* What has been popped is with one consumer; the rest of what was pushed is queued.
LEMMA OnceEach == IInv => ExactlyOnce
<1>1. SUFFICES ASSUME IInv PROVE ExactlyOnce
  OBVIOUS
<1>2. \A k, l \in DOMAIN queue : k # l => queue[k] # queue[l]
  BY <1>1 DEF IInv, TypeOK, InOrder
<1>3. ASSUME NEW i \in 1..pushed
      PROVE  i \in Items /\ (i \in Queued <=> i > First)
  <2>1. i \in Items
    BY <1>1 DEF IInv, TypeOK, Items
  <2>2. ASSUME i > First PROVE i \in Queued
    <3>1. i - First \in 1..Len(queue) /\ queue[i - First] = i
      <4>1. Len(queue) \in Nat /\ pushed \in Nat /\ First = pushed - Len(queue)
        BY <1>1 DEF IInv, TypeOK, First
      <4>2. i - First \in 1..Len(queue) /\ First + (i - First) = i
        BY <2>2, <4>1
      <4>3. QED
        BY <1>1, <4>2 DEF IInv, InOrder
    <3>2. QED
      BY <1>1, <3>1 DEF IInv, TypeOK, Queued
  <2>3. ASSUME i \in Queued PROVE i > First
    BY <1>1, <2>3 DEF IInv, TypeOK, InOrder, Queued
  <2>4. QED
    BY <2>1, <2>2, <2>3
<1>4. ASSUME NEW i \in 1..pushed, i > First
      PROVE  \A c \in Consumers : ~HasTaken(c, i)
  BY <1>1, <1>3, <1>4 DEF IInv, Taken, InOrder
<1>5. ASSUME NEW i \in 1..pushed, ~(i > First)
      PROVE  \E c \in Consumers : /\ HasTaken(c, i)
                                  /\ \A d \in Consumers \ {c} : ~HasTaken(d, i)
  <2>1. i \in 1..First /\ i \in Items
    BY <1>1, <1>3, <1>5 DEF IInv, InOrder
  <2>2. QED
    BY <1>1, <2>1 DEF IInv, Taken
<1>6. QED
  BY <1>2, <1>3, <1>4, <1>5 DEF ExactlyOnce

-----------------------------------------------------------------------------
(* The steps in which the programs differ. *)

\* A push and its signal, which may wake several waiters.
LEMMA SignalledPushStep == ASSUME IInv, SignalledPush PROVE IInv'
<1>1. PICK W \in SUBSET Waiting :
        pc' = [c \in Consumers |-> IF c \in W THEN "wake" ELSE pc[c]]
  BY DEF SignalledPush, Signal
<1>2. QED
  BY <1>1, PushStep DEF SignalledPush

\* The broadcast wakes all waiters; main goes on to the joins.
LEMMA BroadcastStep == ASSUME IInv, Broadcast PROVE IInv'
<1>1. InOrder' /\ Taken'
  BY ItemsKept DEF IInv, Broadcast
<1>2. TypeOK' /\ MainInv' /\ MutualExclusion' /\ TempInv'
  BY WorkQueueAssumption
     DEF IInv, Broadcast, TypeOK, MainInv, MutualExclusion, TempInv, MainPcs, ConsumerPcs,
         Waiting
<1>3. QED
  BY <1>1, <1>2 DEF IInv

\* The steps of a consumer on the condition variable.
LEMMA CondSteps ==
    ASSUME IInv, NEW c \in Consumers, CondWait(c) \/ SpuriousWakeup(c)
    PROVE  IInv'
<1>1. PICK to \in {"wait", "wake"} : pc' = [pc EXCEPT ![c] = to]
  BY DEF CondWait, SpuriousWakeup
<1>2. pc[c] \in {"test", "wait"} /\ temp[c] = None /\ UNCHANGED <<queue, main_vars, temp, added>>
  BY DEF CondWait, SpuriousWakeup, IInv, TempInv
<1>3. \/ pc[c] = "test" /\ mutex' = Free
      \/ mutex' = mutex
  BY DEF CondWait, SpuriousWakeup
<1>4. to \in ConsumerPcs
  BY DEF ConsumerPcs
<1>5. QED
  BY <1>1, <1>2, <1>3, <1>4, GoOn

\* A push wakes nobody.
LEMMA SilentPushStep == ASSUME IInv, SilentPush PROVE IInv'
<1>1. pc' = [c \in Consumers |-> IF c \in {} THEN "wake" ELSE pc[c]]
  BY DEF SilentPush, IInv, TypeOK
<1>2. \E W \in SUBSET Waiting :
        pc' = [c \in Consumers |-> IF c \in W THEN "wake" ELSE pc[c]]
  <2>1. WITNESS {} \in SUBSET Waiting
  <2>2. QED
    BY <1>1
<1>3. QED
  BY <1>2, PushStep DEF SilentPush

\* The unlocked look at the queue, and the locked one that finds nothing.
LEMMA LookSteps ==
    ASSUME IInv, NEW c \in Consumers, Peek(c) \/ FindEmpty(c)
    PROVE  IInv'
<1>1. CASE Peek(c)
  <2>1. /\ pc[c] = "peek" /\ mutex' = mutex /\ temp[c] = None
        /\ pc' = [pc EXCEPT ![c] = "lock"] /\ UNCHANGED <<queue, main_vars, temp, added>>
    BY <1>1 DEF Peek, IInv, TempInv
  <2>2. QED
    BY <2>1, GoOn DEF ConsumerPcs
<1>2. CASE FindEmpty(c)
  <2>1. /\ pc[c] = "test" /\ mutex' = mutex
        /\ pc' = [pc EXCEPT ![c] = "unlock"] /\ UNCHANGED <<queue, main_vars, temp, added>>
    BY <1>2 DEF FindEmpty
  <2>2. QED
    BY <2>1, GoOn DEF ConsumerPcs
<1>3. QED
  BY <1>1, <1>2

\* No step of either program leaves the invariant.
LEMMA Preserved == ASSUME IInv, [CondNext \/ SpinNext]_vars PROVE IInv'
<1>1. CASE CondMain \/ SpinMain
  BY <1>1, MainSteps, SignalledPushStep, SilentPushStep, BroadcastStep DEF CondMain, SpinMain
<1>2. ASSUME NEW c \in Consumers, CondThread(c) \/ SpinThread(c) PROVE IInv'
  BY <1>2, LockSteps, CondSteps, LookSteps, PopStep, AddStep
     DEF CondThread, CondStep, SpinThread, SpinStep
<1>3. CASE UNCHANGED vars
  BY <1>3, Stuttering
<1>4. QED
  BY <1>1, <1>2, <1>3 DEF CondNext, SpinNext

\* No thread of task3.c ever leaves the invariant.
THEOREM CondInvariance == CondSpec => []IInv
<1>1. IInv /\ [CondNext]_vars => IInv'
  BY Preserved
<1>2. QED
  BY <1>1, Initially, PTL DEF CondSpec

\* No thread of task2.c ever leaves the invariant.
THEOREM SpinInvariance == SpinSpec => []IInv
<1>1. IInv /\ [SpinNext]_vars => IInv'
  BY Preserved
<1>2. QED
  BY <1>1, Initially, PTL DEF SpinSpec
-----------------------------------------------------------------------------
(* A pill for each consumer that has not met its own. *)

\* A one-to-one correspondence gives sets of the same size.
LEMMA SameSize ==
    ASSUME NEW S, NEW T, IsFiniteSet(S), NEW f \in [S -> T],
           \A a, b \in S : f[a] = f[b] => a = b, \A t \in T : \E a \in S : f[a] = t
    PROVE  IsFiniteSet(T) /\ Cardinality(T) = Cardinality(S)
<1>1. f \in Bijection(S, T)
  BY DEF Bijection, Injection, Surjection, IsInjective
<1>2. QED
  BY <1>1, FS_Bijection DEF ExistsBijection

\* The pills that have been popped are with one consumer each, and those that have
\* not are still to come: both sets are what remains of C.
LEMMA OnePillEach == IInv => PillPerConsumer
<1> DEFINE Pills  == (N + 1)..(N + C)
           Spent  == {i \in Pills : i <= First}
           Gone   == {c \in Consumers : IsPill(temp[c])}
           holds  == [c \in Gone |-> temp[c]]
           ToCome == {i \in Items : IsPill(i) /\ (i \in Queued \/ (i > pushed /\ Producing))}
           Left   == {c \in Consumers : ~IsPill(temp[c])}
<1>1. SUFFICES ASSUME IInv PROVE Cardinality(ToCome) = Cardinality(Left)
  BY DEF PillPerConsumer
<1>a. TypeOK /\ MainInv /\ InOrder /\ Taken
  BY <1>1 DEF IInv
<1>b. First \in Nat /\ First <= pushed /\ pushed \in 0..(N + C) /\ First = pushed - Len(queue)
  BY <1>a DEF TypeOK, InOrder, First
<1>2. Gone = Consumers \ Left /\ Left = Consumers \ Gone /\ Gone \subseteq Consumers
  OBVIOUS
<1>3. ToCome = Pills \ Spent
  <2>1. \A i \in 1..pushed : i \in Queued <=> i > First
    <3>1. ASSUME NEW i \in 1..pushed, i > First PROVE i \in Queued
      <4>1. i - First \in 1..Len(queue) /\ First + (i - First) = i
        BY <1>a, <1>b, <3>1 DEF TypeOK
      <4>2. queue[i - First] = i /\ i - First \in DOMAIN queue
        BY <1>a, <4>1 DEF InOrder, TypeOK
      <4>3. QED
        BY <4>2 DEF Queued
    <3>2. \A i \in Queued : i > First
      BY <1>a, <1>b DEF InOrder, Queued, TypeOK
    <3>3. QED
      BY <3>1, <3>2
  <2>2. ASSUME NEW i \in Queued PROVE i <= pushed
    <3>1. PICK k \in 1..Len(queue) : i = queue[k]
      BY <1>a DEF Queued, TypeOK
    <3>2. i = First + k
      BY <1>a, <3>1 DEF InOrder
    <3>3. QED
      BY <1>b, <3>2
  <2>3. Producing \/ pushed = N + C
    BY <1>a DEF Producing, MainInv, TypeOK, MainPcs
  <2>4. ASSUME NEW i \in Pills
        PROVE  (i \in Queued \/ (i > pushed /\ Producing)) <=> ~(i <= First)
    <3>1. CASE i <= pushed
      BY <1>b, <2>1, <3>1
    <3>2. CASE i > pushed
      BY <1>b, <2>2, <2>3, <3>2
    <3>3. QED
      BY <1>b, <3>1, <3>2
  <2>5. \A i : i \in Items /\ IsPill(i) <=> i \in Pills
    BY DEF Items, IsPill
  <2>6. QED
    BY <2>4, <2>5
<1>4. IsFiniteSet(Consumers) /\ Cardinality(Consumers) = C
  BY FS_Interval DEF Consumers
<1>5. IsFiniteSet(Pills) /\ Cardinality(Pills) = C
  BY FS_Interval
<1>6. IsFiniteSet(Gone)
  BY <1>4, FS_Subset
<1>7. Cardinality(Spent) = Cardinality(Gone)
  <2>1. \A c \in Gone : temp[c] \in Items /\ HasTaken(c, temp[c]) /\ temp[c] > N
    BY <1>a DEF TypeOK, IsPill, Items, None, HasTaken
  <2>2. holds \in [Gone -> Spent]
    BY <1>a, <2>1 DEF Taken, Items
  <2>3. \A c, d \in Gone : holds[c] = holds[d] => c = d
    BY <1>a, <2>1 DEF Taken, HasTaken
  <2>4. ASSUME NEW i \in Spent PROVE \E c \in Gone : holds[c] = i
    <3>1. i \in 1..First /\ i \notin 1..N
      BY <1>b
    <3>2. PICK c \in Consumers : HasTaken(c, i)
      BY <1>a, <3>1 DEF Taken
    <3>3. temp[c] = i
      BY <1>a, <3>1, <3>2 DEF HasTaken, TypeOK
    <3>4. QED
      BY <3>3 DEF IsPill
  <2> HIDE DEF Spent, Gone, holds
  <2>5. QED
    BY <1>6, <2>2, <2>3, <2>4, SameSize
<1>8. Cardinality(Left) = C - Cardinality(Gone)
  <2>1. Consumers \cap Gone = Gone
    BY <1>2
  <2> HIDE DEF Gone, Left
  <2>2. QED
    BY <1>2, <1>4, <2>1, FS_Difference
<1>9. Cardinality(ToCome) = C - Cardinality(Spent)
  <2>1. Pills \cap Spent = Spent
    OBVIOUS
  <2> HIDE DEF Pills, Spent, ToCome
  <2>2. QED
    BY <1>3, <1>5, <2>1, FS_Difference
<1>10. QED
  BY <1>7, <1>8, <1>9

-----------------------------------------------------------------------------
(* No wakeup is lost. *)

LEMMA AwakeFinite == IsFiniteSet(Awake) /\ IsFiniteSet(Awake')
<1>1. IsFiniteSet(Consumers) /\ Awake \in SUBSET Consumers /\ Awake' \in SUBSET Consumers
  BY FS_Interval DEF Consumers, Awake
<1>2. QED
  BY <1>1, FS_Subset

\* A step that sends nobody to sleep and takes nobody away keeps enough awake.
LEMMA StillAwake ==
    ASSUME NoLostWakeup, TypeOK, Awake \subseteq Awake', Waiting' \subseteq Waiting,
           Len(queue') <= Len(queue)
    PROVE  NoLostWakeup'
<1>1. Cardinality(Awake) <= Cardinality(Awake')
  BY AwakeFinite, FS_Subset
<1>2. Cardinality(Awake) \in Nat /\ Cardinality(Awake') \in Nat
  BY AwakeFinite, FS_CardinalityType
<1>3. SUFFICES ASSUME Waiting' # {} PROVE Len(queue') <= Cardinality(Awake')
  BY DEF NoLostWakeup
<1>4. Len(queue) <= Cardinality(Awake)
  BY <1>3 DEF NoLostWakeup
<1>5. QED
  BY <1>1, <1>2, <1>4 DEF TypeOK

\* The push signals once; if somebody sleeps, one more is awake for the new item.
LEMMA SignalWakesOne ==
    ASSUME NoLostWakeup, IInv, SignalledPush PROVE NoLostWakeup'
<1>1. PICK W \in SUBSET Waiting :
        /\ Waiting # {} => W # {}
        /\ pc' = [c \in Consumers |-> IF c \in W THEN "wake" ELSE pc[c]]
  BY DEF SignalledPush, Signal
<1>2. SUFFICES ASSUME Waiting' # {} PROVE Len(queue') <= Cardinality(Awake')
  BY DEF NoLostWakeup
<1>3. Waiting' \subseteq Waiting /\ TypeOK
  BY <1>1 DEF Waiting, IInv
<1>4. PICK w \in Waiting : w \in W
  BY <1>1, <1>2, <1>3
<1>5. w \notin Awake /\ Awake \cup {w} \subseteq Awake'
  BY <1>1, <1>3, <1>4 DEF Awake, Waiting, SignalledPush, PushItem
<1>6. Cardinality(Awake \cup {w}) = Cardinality(Awake) + 1 /\ Cardinality(Awake) \in Nat
  BY <1>5, AwakeFinite, FS_AddElement, FS_CardinalityType
<1>7. Cardinality(Awake \cup {w}) <= Cardinality(Awake') /\ Cardinality(Awake') \in Nat
  BY <1>5, AwakeFinite, FS_Subset, FS_CardinalityType
<1>8. Len(queue) <= Cardinality(Awake)
  BY <1>2, <1>3 DEF NoLostWakeup
<1>9. Len(queue') = Len(queue) + 1 /\ Len(queue) \in Nat
  BY <1>3 DEF SignalledPush, PushItem, TypeOK
<1>10. QED
  BY <1>6, <1>7, <1>8, <1>9

\* Who pops a pill is not coming back, and has taken one item out of the queue.
LEMMA PopTakesOne ==
    ASSUME NoLostWakeup, IInv, NEW c \in Consumers, Pop(c) PROVE NoLostWakeup'
<1>1. SUFFICES ASSUME Waiting' # {} PROVE Len(queue') <= Cardinality(Awake')
  BY DEF NoLostWakeup
<1>2. /\ TypeOK /\ pc[c] = "test" /\ pc' = [pc EXCEPT ![c] = "unlock"]
      /\ temp' = [temp EXCEPT ![c] = Head(queue)]
  BY DEF IInv, Pop
<1>3. Len(queue') = Len(queue) - 1 /\ Len(queue) \in Nat
  BY <1>2 DEF Pop, TypeOK
<1>4. Waiting' = Waiting /\ c \in Awake /\ Awake \ {c} \subseteq Awake'
  BY <1>2 DEF Waiting, Awake, TypeOK
<1>5. Cardinality(Awake \ {c}) = Cardinality(Awake) - 1 /\ Cardinality(Awake) \in Nat
  BY <1>4, AwakeFinite, FS_RemoveElement, FS_CardinalityType
<1>6. Cardinality(Awake \ {c}) <= Cardinality(Awake') /\ Cardinality(Awake') \in Nat
  BY <1>4, AwakeFinite, FS_Subset, FS_CardinalityType
<1>7. Len(queue) <= Cardinality(Awake)
  BY <1>1, <1>4 DEF NoLostWakeup
<1>8. QED
  BY <1>3, <1>5, <1>6, <1>7

\* Who goes to sleep has found the queue empty, with the mutex held.
LEMMA SleepOnEmpty ==
    ASSUME IInv, NEW c \in Consumers, CondWait(c) PROVE NoLostWakeup'
<1>1. Len(queue') = 0
  BY DEF CondWait
<1>2. Cardinality(Awake') \in Nat
  BY AwakeFinite, FS_CardinalityType
<1>3. QED
  BY <1>1, <1>2 DEF NoLostWakeup

\* Every step of task3.c keeps enough consumers awake.
LEMMA WakeupsKept == ASSUME NoLostWakeup, IInv, [CondNext]_vars PROVE NoLostWakeup'
<1>a. TypeOK /\ MainInv
  BY DEF IInv
<1>1. CASE CondMain
  <2>1. CASE SpawnThread("lock")
    <3>1. spawned + 1 \in Consumers /\ pc[spawned + 1] = "new" /\ queue' = queue
      BY <1>a, <2>1 DEF SpawnThread, TypeOK, MainInv, Consumers
    <3>2. pc' = [pc EXCEPT ![spawned + 1] = "lock"] /\ temp' = temp
      BY <2>1 DEF SpawnThread
    <3>3. Awake \subseteq Awake' /\ Waiting' \subseteq Waiting
      BY <1>a, <3>1, <3>2 DEF Awake, Waiting, TypeOK
    <3>4. QED
      BY <1>a, <3>1, <3>3, StillAwake DEF TypeOK
  <2>2. CASE SpawnFails \/ ProducerLock \/ ProducerUnlock("broadcast") \/ Join
    <3>1. UNCHANGED <<queue, pc, temp>>
      BY <2>2 DEF SpawnFails, ProducerLock, ProducerUnlock, Join
    <3>2. Awake' = Awake /\ Waiting' = Waiting
      BY <3>1 DEF Awake, Waiting
    <3>3. QED
      BY <1>a, <3>1, <3>2, StillAwake DEF TypeOK
  <2>3. CASE Broadcast
    <3>1. Waiting' = {}
      BY <2>3 DEF Broadcast, Waiting
    <3>2. QED
      BY <3>1 DEF NoLostWakeup
  <2>4. QED
    BY <1>1, <2>1, <2>2, <2>3, SignalWakesOne DEF CondMain
<1>2. ASSUME NEW c \in Consumers, CondThread(c) PROVE NoLostWakeup'
  <2>1. CASE Lock(c) \/ Unlock(c) \/ SpuriousWakeup(c)
    <3>1. PICK to \in {"test", "account", "wake"} :
            /\ pc' = [pc EXCEPT ![c] = to] /\ UNCHANGED <<queue, temp>>
            /\ to = "account" => pc[c] = "unlock"
      BY <2>1 DEF Lock, Unlock, SpuriousWakeup
    <3>2. Awake \subseteq Awake' /\ Waiting' \subseteq Waiting
      BY <1>a, <3>1 DEF Awake, Waiting, TypeOK
    <3>3. QED
      BY <1>a, <3>1, <3>2, StillAwake DEF TypeOK
  <2>2. CASE Add(c) \/ Leave(c)
    <3>1. /\ pc[c] = "account" /\ queue' = queue
          /\ \/ pc' = [pc EXCEPT ![c] = "lock"] /\ temp' = [temp EXCEPT ![c] = None]
             \/ pc' = [pc EXCEPT ![c] = "done"] /\ temp' = temp /\ IsPill(temp[c])
      BY <2>2 DEF Add, Leave
    <3>2. Awake \subseteq Awake' /\ Waiting' \subseteq Waiting
      BY <1>a, <3>1 DEF Awake, Waiting, TypeOK
    <3>3. QED
      BY <1>a, <3>1, <3>2, StillAwake DEF TypeOK
  <2>3. QED
    BY <1>2, <2>1, <2>2, PopTakesOne, SleepOnEmpty DEF CondThread, CondStep
<1>3. CASE UNCHANGED vars
  BY <1>3 DEF vars, NoLostWakeup, Awake, Waiting
<1>4. QED
  BY <1>1, <1>2, <1>3 DEF CondNext

\* Nobody ever waits in task2.c, which has no condition variable.
NobodyWaits == \A c \in Consumers : pc[c] # "wait"

LEMMA NeverWaits == ASSUME NobodyWaits, IInv, [SpinNext]_vars PROVE NobodyWaits'
<1>a. pc \in [Consumers -> ConsumerPcs]
  BY DEF IInv, TypeOK
<1>1. CASE SpinMain
  BY <1>a, <1>1 DEF SpinMain, SpawnThread, SpawnFails, ProducerLock, SilentPush, PushItem,
                    ProducerUnlock, Join, NobodyWaits
<1>2. ASSUME NEW c \in Consumers, SpinThread(c) PROVE NobodyWaits'
  BY <1>a, <1>2 DEF SpinThread, SpinStep, Lock, Peek, FindEmpty, Pop, Unlock, Add, Leave,
                    NobodyWaits
<1>3. CASE UNCHANGED vars
  BY <1>3 DEF vars, NobodyWaits
<1>4. QED
  BY <1>1, <1>2, <1>3 DEF SpinNext

-----------------------------------------------------------------------------
(* The theorems about types, locks, items and wakeups. *)

\* The variables of main and the locals of its threads keep their types.
THEOREM CondTypeCorrect == CondSpec => []TypeOK
<1>1. IInv => TypeOK
  BY DEF IInv
<1>2. QED
  BY <1>1, CondInvariance, PTL

THEOREM SpinTypeCorrect == SpinSpec => []TypeOK
<1>1. IInv => TypeOK
  BY DEF IInv
<1>2. QED
  BY <1>1, SpinInvariance, PTL

\* The queue is used by one thread at a time, also when a waiter comes back from
\* pthread_cond_wait (task3.c:54-57, 60-63, 90-95).
THEOREM CondExclusion == CondSpec => []MutualExclusion
<1>1. IInv => MutualExclusion
  BY DEF IInv
<1>2. QED
  BY <1>1, CondInvariance, PTL

\* The queue is changed by one thread at a time, whatever the looks without the
\* mutex have seen (task2.c:55-57, 60-62, 92-96).
THEOREM SpinExclusion == SpinSpec => []MutualExclusion
<1>1. IInv => MutualExclusion
  BY DEF IInv
<1>2. QED
  BY <1>1, SpinInvariance, PTL

\* What was pushed is either in the queue or with exactly one consumer
\* (task3.c:55, 61, 94, 100).
THEOREM CondNothingLostOrDoubled == CondSpec => []ExactlyOnce
  BY OnceEach, CondInvariance, PTL

\* What was pushed is either in the queue or with exactly one consumer
\* (task2.c:56, 61, 94, 97).
THEOREM SpinNothingLostOrDoubled == SpinSpec => []ExactlyOnce
  BY OnceEach, SpinInvariance, PTL

\* The INT_MAX entries still to come are as many as the consumers that have to meet
\* one: nobody is left over, none is left in the queue (task3.c:59-64, 97).
THEOREM CondPillPerConsumer == CondSpec => []PillPerConsumer
  BY OnePillEach, CondInvariance, PTL

\* The same for task2.c, where consumers poll (task2.c:59-63, 97).
THEOREM SpinPillPerConsumer == SpinSpec => []PillPerConsumer
  BY OnePillEach, SpinInvariance, PTL

\* While a consumer sleeps in pthread_cond_wait, each item in the queue has an awake
\* consumer that will come for it: one signal per push is enough (task3.c:56, 62, 91).
THEOREM CondWakeups == CondSpec => []NoLostWakeup
<1>1. Init => NoLostWakeup
  BY DEF Init, NoLostWakeup, Waiting
<1>2. NoLostWakeup /\ IInv /\ [CondNext]_vars => NoLostWakeup'
  BY WakeupsKept
<1>3. QED
  BY <1>1, <1>2, CondInvariance, PTL DEF CondSpec

\* In task2.c nobody sleeps on a condition variable, so nobody misses a wakeup.
THEOREM SpinWakeups == SpinSpec => []NoLostWakeup
<1>1. Init => NobodyWaits
  BY DEF Init, NobodyWaits
<1>2. NobodyWaits /\ IInv /\ [SpinNext]_vars => NobodyWaits'
  BY NeverWaits
<1>3. NobodyWaits => NoLostWakeup
  BY DEF NobodyWaits, NoLostWakeup, Waiting
<1>4. QED
  BY <1>1, <1>2, <1>3, SpinInvariance, PTL DEF SpinSpec

-----------------------------------------------------------------------------
(* The sum. *)

\* Sums of disjoint sets of elements add up.
LEMMA SumOfUnion ==
    ASSUME NEW S \in SUBSET (1..N), NEW T \in SUBSET (1..N), S \cap T = {}
    PROVE  SumOf(S \cup T) = SumOf(S) + SumOf(T)
<1> DEFINE Of(X, v) == {i \in X : Value(i) = v}
<1>1. IsFiniteSet(S) /\ IsFiniteSet(T)
  <2>1. IsFiniteSet(1..N)
    BY FS_Interval
  <2>2. QED
    BY <2>1, FS_Subset
<1>2. ASSUME NEW v \in {1, -1}
      PROVE  /\ Cardinality(Of(S \cup T, v)) = Cardinality(Of(S, v)) + Cardinality(Of(T, v))
             /\ Cardinality(Of(S, v)) \in Nat /\ Cardinality(Of(T, v)) \in Nat
  <2>1. IsFiniteSet(Of(S, v)) /\ IsFiniteSet(Of(T, v))
    BY <1>1, FS_Subset
  <2>2. Of(S \cup T, v) = Of(S, v) \cup Of(T, v) /\ Of(S, v) \cap Of(T, v) = {}
    OBVIOUS
  <2>3. Cardinality({}) = 0
    BY FS_EmptySet
  <2>4. Cardinality(Of(S, v)) \in Nat /\ Cardinality(Of(T, v)) \in Nat
    BY <2>1, FS_CardinalityType
  <2>5. Cardinality(Of(S, v) \cup Of(T, v))
          = Cardinality(Of(S, v)) + Cardinality(Of(T, v)) - Cardinality(Of(S, v) \cap Of(T, v))
    <3> HIDE DEF Of
    <3>1. QED
      BY <2>1, FS_Union
  <2> HIDE DEF Of
  <2>6. Cardinality(Of(S, v) \cap Of(T, v)) = 0
    BY <2>2, <2>3, Zenon
  <2>7. Cardinality(Of(S \cup T, v)) = Cardinality(Of(S, v) \cup Of(T, v))
    BY <2>2, Zenon
  <2>8. QED
    BY <2>4, <2>5, <2>6, <2>7
<1>3. QED
  BY <1>2 DEF SumOf

\* The elements, alternately 1 and -1, sum up to N % 2.
LEMMA SumOfAll == SumOf(1..N) = N % 2
<1> DEFINE OddOnes  == {i \in 1..N : Value(i) = 1}
           EvenOnes == {i \in 1..N : Value(i) = -1}
           odd  == [k \in 1..((N + 1) \div 2) |-> 2 * k - 1]
           even == [k \in 1..(N \div 2) |-> 2 * k]
<1>1. (N + 1) \div 2 \in Nat /\ N \div 2 \in Nat /\ N \in Nat
  OBVIOUS
<1>2. Cardinality(OddOnes) = (N + 1) \div 2
  <2>1. odd \in [1..((N + 1) \div 2) -> OddOnes]
    BY <1>1 DEF Value
  <2>2. \A k, l \in 1..((N + 1) \div 2) : odd[k] = odd[l] => k = l
    BY <1>1
  <2>3. ASSUME NEW i \in OddOnes PROVE \E k \in 1..((N + 1) \div 2) : odd[k] = i
    <3>1. (i + 1) \div 2 \in 1..((N + 1) \div 2) /\ 2 * ((i + 1) \div 2) - 1 = i
      BY DEF Value
    <3>2. QED
      BY <3>1
  <2>4. /\ IsFiniteSet(1..((N + 1) \div 2))
        /\ Cardinality(1..((N + 1) \div 2)) = (N + 1) \div 2
    BY <1>1, FS_Interval
  <2> HIDE DEF OddOnes, odd
  <2>5. QED
    BY <2>1, <2>2, <2>3, <2>4, SameSize
<1>3. Cardinality(EvenOnes) = N \div 2
  <2>1. even \in [1..(N \div 2) -> EvenOnes]
    BY <1>1 DEF Value
  <2>2. \A k, l \in 1..(N \div 2) : even[k] = even[l] => k = l
    BY <1>1
  <2>3. ASSUME NEW i \in EvenOnes PROVE \E k \in 1..(N \div 2) : even[k] = i
    <3>1. i \div 2 \in 1..(N \div 2) /\ 2 * (i \div 2) = i
      BY DEF Value
    <3>2. QED
      BY <3>1
  <2>4. IsFiniteSet(1..(N \div 2)) /\ Cardinality(1..(N \div 2)) = N \div 2
    BY <1>1, FS_Interval
  <2> HIDE DEF EvenOnes, even
  <2>5. QED
    BY <2>1, <2>2, <2>3, <2>4, SameSize
<1>4. QED
  BY <1>2, <1>3 DEF SumOf

\* Only threads that have ended are joined, and main's sum is that of their elements.
Collected == {i \in 1..N : \E c \in 1..joined : i \in added[c]}
JoinInv   == /\ \A c \in 1..joined : pc[c] = "done"
             /\ sum = SumOf(Collected)

\* A thread that has ended changes nothing any more.
LEMMA JoinedKept ==
    ASSUME JoinInv, TypeOK, UNCHANGED <<joined, sum>>,
           \A c \in Consumers : pc[c] = "done" => pc'[c] = "done" /\ added'[c] = added[c]
    PROVE  JoinInv'
<1>1. \A c \in 1..joined : c \in Consumers
  BY DEF TypeOK, Consumers
<1>2. Collected' = Collected
  BY <1>1 DEF JoinInv, Collected
<1>3. QED
  BY <1>1, <1>2 DEF JoinInv

\* A join adds the elements of one more thread, which nobody else has added.
LEMMA JoinStep == ASSUME JoinInv, IInv, Join PROVE JoinInv'
<1>1. /\ TypeOK /\ Taken /\ joined < C /\ pc[joined + 1] = "done" /\ joined' = joined + 1
      /\ sum' = sum + SumOf(added[joined + 1]) /\ UNCHANGED <<pc, added>>
  BY DEF Join, IInv, MainInv
<1>2. /\ joined + 1 \in Consumers /\ added[joined + 1] \in SUBSET (1..N)
      /\ 1..joined' = 1..joined \cup {joined + 1}
      /\ \A c \in 1..joined : c \in Consumers /\ c # joined + 1
  BY <1>1 DEF TypeOK, Consumers
<1>3. Collected' = Collected \cup added[joined + 1] /\ Collected \in SUBSET (1..N)
  BY <1>1, <1>2 DEF Collected
<1>4. Collected \cap added[joined + 1] = {}
  <2>1. SUFFICES ASSUME NEW i \in Collected, i \in added[joined + 1] PROVE FALSE
    OBVIOUS
  <2>2. PICK c \in 1..joined : i \in added[c]
    BY DEF Collected
  <2>3. i \in Items
    BY DEF Collected, Items
  <2>4. QED
    BY <1>1, <1>2, <2>1, <2>2, <2>3 DEF Taken, HasTaken
<1>5. SumOf(Collected') = SumOf(Collected) + SumOf(added[joined + 1])
  BY <1>2, <1>3, <1>4, SumOfUnion
<1>6. QED
  BY <1>1, <1>2, <1>5 DEF JoinInv

LEMMA NothingJoined == Init => JoinInv
<1> SUFFICES ASSUME Init PROVE JoinInv
  OBVIOUS
<1>1. joined = 0 /\ sum = 0
  BY DEF Init
<1>2. \A c \in 1..joined : FALSE
  BY <1>1
<1>3. Collected = {}
  BY <1>2 DEF Collected
<1>4. SumOf({}) = 0
  <2>1. \A v : {i \in {} : Value(i) = v} = {}
    OBVIOUS
  <2>2. QED
    BY <2>1, FS_EmptySet DEF SumOf
<1>5. QED
  BY <1>1, <1>2, <1>3, <1>4 DEF JoinInv

LEMMA JoinInvKept == ASSUME JoinInv, IInv, [CondNext \/ SpinNext]_vars PROVE JoinInv'
<1>a. TypeOK /\ MainInv
  BY DEF IInv
<1>1. ASSUME NEW first \in {"lock", "peek"}, SpawnThread(first) PROVE JoinInv'
  <2>1. /\ spawned + 1 \in Consumers /\ pc[spawned + 1] = "new"
        /\ pc' = [pc EXCEPT ![spawned + 1] = first]
        /\ UNCHANGED <<joined, sum, added>>
    BY <1>a, <1>1 DEF SpawnThread, TypeOK, MainInv, Consumers
  <2>2. QED
    BY <1>a, <2>1, JoinedKept DEF TypeOK
<1>2. CASE SpawnFails \/ ProducerLock \/ ProducerUnlock("broadcast") \/ ProducerUnlock("join")
           \/ UNCHANGED vars
  <2>1. UNCHANGED <<joined, sum, pc, added>>
    BY <1>2 DEF SpawnFails, ProducerLock, ProducerUnlock, vars, main_vars
  <2>2. QED
    BY <1>a, <2>1, JoinedKept
<1>3. CASE SignalledPush \/ SilentPush \/ Broadcast
  <2>1. UNCHANGED <<joined, sum, added>>
    BY <1>3 DEF SignalledPush, SilentPush, PushItem, Broadcast
  <2>2. \A c \in Consumers : pc[c] = "done" => pc'[c] = "done"
    BY <1>3 DEF SignalledPush, SilentPush, Signal, Broadcast, Waiting
  <2>3. QED
    BY <1>a, <2>1, <2>2, JoinedKept
<1>4. ASSUME NEW c \in Consumers, CondThread(c) \/ SpinThread(c) PROVE JoinInv'
  <2>1. pc[c] # "done" /\ UNCHANGED <<joined, sum>>
    BY <1>4 DEF CondThread, CondStep, SpinThread, SpinStep, Lock, CondWait, SpuriousWakeup, Pop,
                Unlock, Add, Leave, Peek, FindEmpty, main_vars
  <2>2. \A d \in Consumers \ {c} : pc'[d] = pc[d] /\ added'[d] = added[d]
    BY <1>a, <1>4
       DEF CondThread, CondStep, SpinThread, SpinStep, Lock, CondWait, SpuriousWakeup, Pop,
           Unlock, Add, Leave, Peek, FindEmpty, TypeOK
  <2>3. QED
    BY <1>a, <2>1, <2>2, JoinedKept
<1>5. QED
  BY <1>1, <1>2, <1>3, <1>4, JoinStep DEF CondNext, SpinNext, CondMain, SpinMain

\* When main is done, it has the sum of all elements.
LEMMA FinalSum == JoinInv /\ IInv /\ mpc = "exit" => sum = N % 2
<1> SUFFICES ASSUME JoinInv, IInv, mpc = "exit" PROVE sum = N % 2
  OBVIOUS
<1>1. TypeOK /\ joined = C /\ TempInv /\ Taken /\ First \in Nat
  BY DEF IInv, MainInv, InOrder
<1>2. \A c \in Consumers : IsPill(temp[c]) /\ temp[c] \in Items
  BY <1>1 DEF JoinInv, TempInv, Consumers, TypeOK, IsPill, None
<1>3. N < First
  <2>1. 1 \in Consumers /\ HasTaken(1, temp[1])
    BY DEF Consumers, HasTaken
  <2>2. QED
    BY <1>1, <1>2, <2>1 DEF Taken, IsPill, Items
<1>4. ASSUME NEW i \in 1..N PROVE \E c \in Consumers : i \in added[c]
  <2>1. i \in 1..First
    BY <1>1, <1>3
  <2>2. PICK c \in Consumers : HasTaken(c, i)
    BY <1>1, <2>1 DEF Taken
  <2>3. QED
    BY <1>2, <2>2 DEF HasTaken, IsPill
<1>5. Collected = 1..N
  BY <1>1, <1>4 DEF Collected, Consumers
<1>6. QED
  BY <1>5, SumOfAll DEF JoinInv

LEMMA FinalSumThen == (JoinInv /\ IInv /\ mpc = "exit" => sum = N % 2)'
  BY FinalSum, PTL

-----------------------------------------------------------------------------
(* Every step of both programs is a step of WorkDispatch, or changes nothing *)
(* that WorkDispatch can see.                                                *)

\* The owner of an element is the consumer that has taken it.
OwnerKnown == /\ \A i \in 1..N, c \in Consumers : HasTaken(c, i) => Owner[i] = c
              /\ \A i \in 1..N : Owner[i] = 0 <=> i > First
              /\ \A i \in 1..N : i <= First => \E c \in Consumers : HasTaken(c, i) /\ Owner[i] = c

LEMMA OwnerIs == IInv => OwnerKnown
<1> SUFFICES ASSUME IInv PROVE OwnerKnown
  OBVIOUS
<1>a. Taken /\ First \in Nat /\ \A i \in 1..N : i \in Items
  BY DEF IInv, InOrder, Items
<1>1. ASSUME NEW i \in 1..N, NEW c \in Consumers, HasTaken(c, i) PROVE Owner[i] = c
  <2>1. \A d \in Consumers : HasTaken(d, i) => d = c
    BY <1>a, <1>1 DEF Taken
  <2>2. Owner[i] = CHOOSE d \in Consumers : HasTaken(d, i)
    BY <1>1 DEF Owner
  <2>3. QED
    BY <1>1, <2>1, <2>2
<1>2. ASSUME NEW i \in 1..N, i <= First PROVE \E c \in Consumers : HasTaken(c, i) /\ Owner[i] = c
  <2>1. PICK c \in Consumers : HasTaken(c, i)
    BY <1>a, <1>2 DEF Taken
  <2>2. QED
    BY <1>1, <2>1
<1>3. ASSUME NEW i \in 1..N, ~(i <= First) PROVE Owner[i] = 0
  BY <1>a, <1>3 DEF Taken, Owner
<1>4. 0 \notin Consumers
  BY DEF Consumers
<1>5. QED
  BY <1>a, <1>1, <1>2, <1>3, <1>4 DEF OwnerKnown

LEMMA OwnerIsThen == IInv' => OwnerKnown'
  BY OwnerIs, PTL

\* Nothing that WorkDispatch sees depends on where the consumers are.
LEMMA Unseen ==
    ASSUME UNCHANGED <<temp, added, Offered, Result>>
    PROVE  UNCHANGED WD!vars
BY DEF WD!vars, Owner, Retired, HasTaken

\* The steps of main.
LEMMA MainRefines ==
    ASSUME IInv, IInv', JoinInv, JoinInv', CondMain \/ SpinMain
    PROVE  [WD!Next]_(WD!vars)
<1>a. TypeOK /\ MainInv /\ TempInv
  BY DEF IInv
<1>1. CASE \/ SpawnThread("lock") \/ SpawnThread("peek") \/ ProducerLock
           \/ ProducerUnlock("broadcast") \/ ProducerUnlock("join") \/ Broadcast
  <2>1. /\ UNCHANGED <<temp, added, pushed>>
        /\ mpc \notin {"exit", "failed"} /\ mpc' \notin {"exit", "failed"}
    BY <1>1 DEF SpawnThread, ProducerLock, ProducerUnlock, Broadcast
  <2>2. QED
    BY <2>1, Unseen DEF Offered, Result
<1>2. CASE SpawnFails
  <2>1. UNCHANGED <<temp, added, pushed>> /\ Result = -1 /\ Result' = -2 /\ Offered = 0
    BY <1>a, <1>2 DEF SpawnFails, MainInv, Result, Offered
  <2>2. UNCHANGED <<Offered, Owner, Retired>>
    BY <2>1 DEF Offered, Owner, Retired, HasTaken
  <2>3. WD!GiveUp
    BY <2>1, <2>2 DEF WD!GiveUp, WD!Pending, WD!Failed
  <2>4. QED
    BY <2>3 DEF WD!Next
<1>3. CASE SignalledPush \/ SilentPush
  <2>1. /\ UNCHANGED <<temp, added>> /\ pushed' = pushed + 1 /\ pushed \in Nat
        /\ Result = -1 /\ Result' = -1
    BY <1>a, <1>3 DEF SignalledPush, SilentPush, PushItem, Result, TypeOK
  <2>2. UNCHANGED <<Owner, Retired, Result>>
    BY <2>1 DEF Owner, Retired, HasTaken
  <2>3. CASE pushed < N
    <3>1. Offered < N /\ Offered' = Offered + 1
      BY <2>1, <2>3 DEF Offered
    <3>2. WD!Offer
      BY <2>1, <2>2, <3>1 DEF WD!Offer, WD!Pending
    <3>3. QED
      BY <3>2 DEF WD!Next
  <2>4. CASE pushed >= N
    <3>1. Offered' = Offered
      BY <2>1, <2>4 DEF Offered
    <3>2. QED
      BY <2>1, <2>2, <3>1, Unseen
  <2>5. QED
    BY <2>1, <2>3, <2>4
<1>4. CASE Join
  <2>1. UNCHANGED <<temp, added, pushed, pc>> /\ Result = -1 /\ joined' = joined + 1
    BY <1>4 DEF Join, Result
  <2>2. UNCHANGED <<Offered, Owner, Retired>>
    BY <2>1 DEF Offered, Owner, Retired, HasTaken
  <2>3. CASE joined + 1 = C
    <3>1. mpc' = "exit" /\ Result' = N % 2
      BY <1>4, <2>3, FinalSumThen DEF Join, Result
    <3>2. \A c \in Consumers : IsPill(temp[c])
      BY <1>a, <2>1, <2>3 DEF JoinInv, TempInv, Consumers
    <3>3. Retired = WD!Consumers
      BY <3>2 DEF Retired, WD!Consumers, Consumers
    <3>4. WD!Report
      BY <2>1, <2>2, <3>1, <3>3 DEF WD!Report, WD!Pending
    <3>5. QED
      BY <3>4 DEF WD!Next
  <2>4. CASE joined + 1 # C
    <3>1. Result' = Result
      BY <1>4, <2>4 DEF Join, Result
    <3>2. QED
      BY <2>1, <2>2, <3>1, Unseen
  <2>5. QED
    BY <2>3, <2>4
<1>5. QED
  BY <1>1, <1>2, <1>3, <1>4 DEF CondMain, SpinMain

\* A consumer that takes a step has not ended, so main has reported nothing.
LEMMA StillPending ==
    ASSUME IInv, JoinInv, Alive, NEW c \in Consumers, pc[c] # "done"
    PROVE  Result = -1 /\ mpc # "exit"
BY DEF IInv, MainInv, JoinInv, Alive, Result, Consumers

\* A pop of an element takes it, a pop of a pill retires the consumer.
LEMMA PopRefines ==
    ASSUME IInv, IInv', JoinInv, Alive, NEW c \in Consumers, Pop(c)
    PROVE  WD!Next
<1>a. TypeOK /\ Taken /\ TempInv /\ InOrder /\ pc[c] = "test" /\ temp[c] = None
  BY DEF IInv, TempInv, Pop
<1>b. /\ First \in Nat /\ First + 1 <= pushed /\ pushed \in Nat /\ First' = First + 1
      /\ Head(queue) = First + 1
  <2>1. queue # <<>> /\ Len(queue) \in Nat \ {0} /\ Len(Tail(queue)) = Len(queue) - 1
    BY <1>a DEF Pop, TypeOK
  <2>2. QED
    BY <1>a, <2>1 DEF InOrder, First, Pop, Popped, main_vars, TypeOK
<1>c. temp' = [temp EXCEPT ![c] = First + 1] /\ UNCHANGED <<main_vars, added>>
  BY <1>b DEF Pop
<1>d. Result = -1 /\ UNCHANGED <<Result, Offered>>
  BY <1>a, <1>c, StillPending DEF Result, Offered, main_vars
<1>e. c \notin Retired /\ c \in WD!Consumers
  BY <1>a DEF Retired, IsPill, None, WD!Consumers, Consumers
<1>1. CASE First + 1 <= N
  <2>1. /\ First + 1 \in 1..Offered /\ First + 1 \in 1..N /\ Owner[First + 1] = 0
        /\ \A j \in 1..First : Owner[j] # 0
    BY <1>b, <1>1, OwnerIs DEF Offered, OwnerKnown
  <2>2. Owner' = [Owner EXCEPT ![First + 1] = c]
    <3>1. temp'[c] = First + 1
      BY <1>a, <1>c DEF TypeOK
    <3>2. Owner'[First + 1] = c
      BY <2>1, <3>1, OwnerIsThen DEF OwnerKnown, HasTaken
    <3>3. ASSUME NEW i \in 1..N, i # First + 1 PROVE Owner'[i] = Owner[i]
      <4>1. CASE i <= First
        <5>1. PICK d \in Consumers : HasTaken(d, i) /\ Owner[i] = d
          BY <4>1, OwnerIs DEF OwnerKnown
        <5>2. HasTaken(d, i)'
          BY <1>a, <1>c, <5>1 DEF HasTaken, TypeOK, None
        <5>3. QED
          BY <5>1, <5>2, OwnerIsThen DEF OwnerKnown
      <4>2. CASE ~(i <= First)
        BY <1>b, <3>3, <4>2, OwnerIs, OwnerIsThen DEF OwnerKnown
      <4>3. QED
        BY <4>1, <4>2
    <3>4. QED
      BY <2>1, <3>2, <3>3 DEF Owner
  <2>3. Retired' = Retired
    BY <1>1, <1>a, <1>b, <1>c DEF Retired, IsPill, None, TypeOK
  <2>4. WD!Take(c)
    <3>1. \A j \in 1..((First + 1) - 1) : Owner[j] # 0
      BY <1>b, <2>1
    <3>2. QED
      BY <1>d, <1>e, <2>1, <2>2, <2>3, <3>1 DEF WD!Take, WD!Pending, WD!Nobody
  <2>5. QED
    BY <1>e, <2>4 DEF WD!Next
<1>2. CASE First + 1 > N
  <2>1. Offered = N /\ \A i \in 1..N : Owner[i] # 0
    BY <1>b, <1>2, OwnerIs DEF Offered, OwnerKnown
  <2>2. Retired' = Retired \cup {c}
    BY <1>2, <1>a, <1>c DEF Retired, IsPill, TypeOK
  <2>3. Owner' = Owner
    <3>1. ASSUME NEW i \in 1..N, NEW d \in Consumers PROVE HasTaken(d, i)' <=> HasTaken(d, i)
      BY <1>a, <1>b, <1>c, <1>2 DEF HasTaken, TypeOK, None
    <3>2. QED
      BY <3>1 DEF Owner
  <2>4. WD!Retire(c)
    BY <1>d, <1>e, <2>1, <2>2, <2>3 DEF WD!Retire, WD!Pending, WD!Nobody
  <2>5. QED
    BY <1>e, <2>4 DEF WD!Next
<1>3. QED
  BY <1>b, <1>1, <1>2

\* The addition of an element leaves it with its owner.
LEMMA AddRefines ==
    ASSUME IInv, IInv', NEW c \in Consumers, Add(c)
    PROVE  UNCHANGED WD!vars
<1>a. TypeOK /\ ~IsPill(temp[c]) /\ temp' = [temp EXCEPT ![c] = None]
      /\ added' = [added EXCEPT ![c] = added[c] \cup ({temp[c]} \ {None})]
      /\ UNCHANGED main_vars
  BY DEF IInv, Add
<1>1. ASSUME NEW i \in 1..N, NEW d \in Consumers PROVE HasTaken(d, i)' <=> HasTaken(d, i)
  BY <1>a DEF HasTaken, TypeOK, None
<1>2. Owner' = Owner
  BY <1>1 DEF Owner
<1>3. Retired' = Retired
  BY <1>a DEF Retired, IsPill, None, TypeOK
<1>4. QED
  BY <1>a, <1>2, <1>3 DEF WD!vars, Offered, Result, main_vars

LEMMA Refines ==
    ASSUME IInv, IInv', JoinInv, JoinInv', [CondNext \/ SpinNext]_vars
    PROVE  [WD!Next]_(WD!vars)
<1>1. ASSUME NEW c \in Consumers, CondThread(c) \/ SpinThread(c)
      PROVE  [WD!Next]_(WD!vars)
  <2>1. CASE \/ Lock(c) \/ Unlock(c) \/ Leave(c) \/ CondWait(c) \/ SpuriousWakeup(c)
             \/ Peek(c) \/ FindEmpty(c)
    <3>1. UNCHANGED <<temp, added, main_vars>>
      BY <2>1 DEF Lock, Unlock, Leave, CondWait, SpuriousWakeup, Peek, FindEmpty
    <3>2. QED
      BY <3>1, Unseen DEF Offered, Result, main_vars
  <2>2. QED
    BY <1>1, <2>1, PopRefines, AddRefines DEF CondThread, CondStep, SpinThread, SpinStep
<1>2. CASE UNCHANGED vars
  BY <1>2, Unseen DEF vars, main_vars, Offered, Result
<1>3. QED
  BY <1>1, <1>2, MainRefines DEF CondNext, SpinNext

LEMMA RefinesInit == Init => WD!Init
<1>1. ASSUME Init PROVE \A i \in 1..N, c \in Consumers : ~HasTaken(c, i)
  BY <1>1 DEF Init, HasTaken, None
<1>2. QED
  BY <1>1 DEF Init, WD!Init, Offered, Owner, Retired, Result, IsPill, None, WD!Nobody, WD!Pending

\* task3.c implements WorkDispatch, as far as safety goes: elements are taken in
\* order, a consumer retires only when nothing is left, and what main prints is the
\* sum of the N elements (task3.c:55, 94-97, 100; exercise06/README.md:38-39).
THEOREM CondImplements == CondSpec => WD!Init /\ [][WD!Next]_(WD!vars)
<1>1. IInv /\ JoinInv /\ [CondNext]_vars => JoinInv'
  BY JoinInvKept
<1>2. IInv /\ IInv' /\ JoinInv /\ JoinInv' /\ [CondNext]_vars => [WD!Next]_(WD!vars)
  BY Refines
<1>3. QED
  BY <1>1, <1>2, NothingJoined, RefinesInit, CondInvariance, PTL DEF CondSpec

\* task2.c implements it too, polling (task2.c:56, 61, 94-97).
THEOREM SpinImplements == SpinSpec => WD!Init /\ [][WD!Next]_(WD!vars)
<1>1. IInv /\ JoinInv /\ [SpinNext]_vars => JoinInv'
  BY JoinInvKept
<1>2. IInv /\ IInv' /\ JoinInv /\ JoinInv' /\ [SpinNext]_vars => [WD!Next]_(WD!vars)
  BY Refines
<1>3. QED
  BY <1>1, <1>2, NothingJoined, RefinesInit, SpinInvariance, PTL DEF SpinSpec
=============================================================================
