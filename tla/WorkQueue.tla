------------------------------ MODULE WorkQueue ------------------------------
(***************************************************************************)
(* The state that exercise06/task2 and exercise06/task3 have in common (a  *)
(* producer, C consumers, a queue and a mutex), and the steps in which     *)
(* they do not differ.  SpinConsumers and CondConsumers add the others.    *)
(*                                                                         *)
(* An entry of the queue is represented by its number: 1..N are the        *)
(* elements, 1 and -1 in turn, N+1..N+C the INT_MAX entries that stop one  *)
(* consumer each.  The sum a consumer keeps is represented by the set of   *)
(* elements it has added to it.                                            *)
(***************************************************************************)
EXTENDS Integers, Sequences, FiniteSets

CONSTANTS C,    \* argv[1], the number of consumers
          N     \* argv[2], the number of elements

\* main refuses numbers that are not positive; tid has room for N threads only.
ASSUME WorkQueueAssumption == C \in Nat \ {0} /\ N \in Nat \ {0} /\ C <= N

Consumers == 1..C
Main      == 0
Free      == -1       \* the owner of an unlocked mutex
None      == 0        \* no item

Items     == 1..(N + C)
IsPill(i) == i > N
Value(i)  == IF i % 2 = 1 THEN 1 ELSE -1

\* The sum of a set of elements.
SumOf(S) == Cardinality({i \in S : Value(i) = 1})
              - Cardinality({i \in S : Value(i) = -1})

VARIABLES mutex,     \* the thread that holds it, or Free
          queue,     \* the items in it
          mpc,       \* where the main thread is
          spawned,   \* threads created
          pushed,    \* items pushed
          joined,    \* threads joined
          sum,       \* main's sum
          pc,        \* where each consumer is
          temp,      \* the item a consumer popped and has not looked at yet
          added      \* data->sum: the elements a consumer has added

main_vars == <<mpc, spawned, pushed, joined, sum>>
vars == <<mutex, queue, main_vars, pc, temp, added>>

Init == /\ mutex = Free
        /\ queue = <<>> /\ mpc = "spawn" /\ spawned = 0
        /\ pushed = 0 /\ joined = 0 /\ sum = 0
        /\ pc = [c \in Consumers |-> "new"] /\ temp = [c \in Consumers |-> None]
        /\ added = [c \in Consumers |-> {}]

\* main has returned an error, and with it the process is gone.
Alive == mpc # "failed"

-----------------------------------------------------------------------------
(* The main thread. *)

\* A consumer is created; it begins at `first`.
SpawnThread(first) ==
    /\ mpc = "spawn" /\ spawned' = spawned + 1
    /\ pc' = [pc EXCEPT ![spawned + 1] = first]
    /\ mpc' = IF spawned + 1 = C THEN "lock" ELSE "spawn"
    /\ UNCHANGED <<mutex, queue, pushed, joined, sum, temp, added>>

\* pthread_create fails: main returns, which ends the threads it has created.
SpawnFails ==
    /\ mpc = "spawn" /\ mpc' = "failed"
    /\ UNCHANGED <<mutex, queue, spawned, pushed, joined, sum, pc, temp, added>>

ProducerLock ==
    /\ mpc = "lock" /\ mutex = Free /\ mutex' = Main
    /\ mpc' = "push"
    /\ UNCHANGED <<queue, spawned, pushed, joined, sum, pc, temp, added>>

\* Mutant of WithItem: at the head of the queue.
AtHead(i)   == <<i>> \o queue
WithItem(i) == Append(queue, i)

\* The next element, or after N of them the next INT_MAX.
PushItem ==
    /\ mpc = "push" /\ queue' = WithItem(pushed + 1) /\ pushed' = pushed + 1
    /\ mpc' = "unlock" /\ UNCHANGED <<mutex, spawned, joined, sum, temp, added>>

\* Mutant of ToPush: one pill too few.
OneLess == N + C - 1
ToPush  == N + C

\* After the last push main goes on to `last`.
ProducerUnlock(last) ==
    /\ mpc = "unlock" /\ mutex' = Free
    /\ mpc' = IF pushed = ToPush THEN last ELSE "lock"
    /\ UNCHANGED <<queue, spawned, pushed, joined, sum, pc, temp, added>>

Join ==
    /\ mpc = "join" /\ pc[joined + 1] = "done" /\ joined' = joined + 1
    /\ sum' = sum + SumOf(added[joined + 1])
    /\ mpc' = IF joined + 1 = C THEN "exit" ELSE "join"
    /\ UNCHANGED <<mutex, queue, spawned, pushed, pc, temp, added>>

-----------------------------------------------------------------------------
(* thread_func. *)

\* Mutant of Available: a waiter comes back without the mutex.
AfterWaitToo(c) == mutex = Free \/ pc[c] = "wake"
Available(c)     == mutex = Free

Lock(c) ==
    /\ pc[c] \in {"lock", "wake"} /\ Available(c) /\ mutex' = c
    /\ pc' = [pc EXCEPT ![c] = "test"] /\ UNCHANGED <<queue, main_vars, temp, added>>

\* Mutant of Popped: the entry stays in the queue.
Kept   == queue
Popped == Tail(queue)

Pop(c) ==
    /\ pc[c] = "test" /\ queue # <<>> /\ temp' = [temp EXCEPT ![c] = Head(queue)]
    /\ queue' = Popped /\ pc' = [pc EXCEPT ![c] = "unlock"]
    /\ UNCHANGED <<mutex, main_vars, added>>

Unlock(c) ==
    /\ pc[c] = "unlock" /\ mutex' = Free /\ pc' = [pc EXCEPT ![c] = "account"]
    /\ UNCHANGED <<queue, main_vars, temp, added>>

\* data->sum += temp, outside the critical section.
Add(c) ==
    /\ pc[c] = "account" /\ ~IsPill(temp[c])
    /\ added' = [added EXCEPT ![c] = @ \cup ({temp[c]} \ {None})]
    /\ temp' = [temp EXCEPT ![c] = None] /\ pc' = [pc EXCEPT ![c] = "lock"]
    /\ UNCHANGED <<mutex, queue, main_vars>>

Leave(c) ==
    /\ pc[c] = "account" /\ IsPill(temp[c]) /\ pc' = [pc EXCEPT ![c] = "done"]
    /\ UNCHANGED <<mutex, queue, main_vars, temp, added>>

-----------------------------------------------------------------------------
(* Properties of both programs. *)

MainPcs     == {"spawn", "lock", "push", "unlock", "broadcast", "join", "exit", "failed"}
ConsumerPcs == {"new", "peek", "lock", "test", "wait", "wake", "unlock", "account", "done"}

\* Every variable has its type: the variables of main and the locals of thread_func.
TypeOK == /\ mutex \in Consumers \cup {Main, Free}
          /\ queue \in Seq(Items)
          /\ mpc \in MainPcs
          /\ spawned \in 0..C
          /\ pushed \in 0..(N + C)
          /\ joined \in 0..C
          /\ sum \in Int
          /\ pc \in [Consumers -> ConsumerPcs]
          /\ temp \in [Consumers -> Items \cup {None}]
          /\ added \in [Consumers -> SUBSET (1..N)]

Queued == {queue[k] : k \in DOMAIN queue}

\* The thread that has popped item i: it still holds it or has added it.
HasTaken(c, i) == temp[c] = i \/ i \in added[c]

\* Two threads are never both between lock and unlock (task2.c:55-57, 60-62,
\* 92-96; task3.c:54-57, 60-63, 90-95), also when a waiter comes back from
\* pthread_cond_wait: the queue's own operations are not safe for two threads.
MutualExclusion ==
    /\ mpc \in {"push", "unlock"} => mutex = Main
    /\ \A c \in Consumers : pc[c] \in {"test", "unlock"} => mutex = c

\* No item is lost and none is handed out twice: what was pushed is either in the
\* queue or was taken by exactly one consumer (task3.c:55, 94, 100).
ExactlyOnce ==
    /\ \A k, l \in DOMAIN queue : k # l => queue[k] # queue[l]
    /\ \A i \in 1..pushed :
         \/ i \in Queued /\ \A c \in Consumers : ~HasTaken(c, i)
         \/ /\ i \notin Queued
            /\ \E c \in Consumers : /\ HasTaken(c, i)
                                    /\ \A d \in Consumers \ {c} : ~HasTaken(d, i)

\* Nobody starves and nobody is left over: the INT_MAX entries still to come, in
\* the queue or not yet pushed by a producer that is still pushing, are as many as
\* the consumers that have to meet theirs (task2.c:59-63 and 97, task3.c:59-64, 97).
Producing == mpc \in {"spawn", "lock", "push", "unlock", "failed"}
PillPerConsumer ==
    Cardinality({i \in Items : IsPill(i) /\ (i \in Queued \/ (i > pushed /\ Producing))})
      = Cardinality({c \in Consumers : ~IsPill(temp[c])})

\* No wakeup is lost: while a consumer sleeps in pthread_cond_wait, every item in
\* the queue has an awake consumer that will come for it (the signals at
\* task3.c:56 and 62, one per item, and the loop at 91).
Waiting == {c \in Consumers : pc[c] = "wait"}
Awake   == {c \in Consumers : \/ pc[c] \in {"lock", "test", "wake"}
                              \/ pc[c] \in {"unlock", "account"} /\ ~IsPill(temp[c])}
NoLostWakeup == Waiting # {} => Len(queue) <= Cardinality(Awake)

-----------------------------------------------------------------------------
(* Both programs implement WorkDispatch. *)
Offered == IF pushed > N THEN N ELSE pushed
Owner   == [i \in 1..N |-> IF \E c \in Consumers : HasTaken(c, i)
                           THEN CHOOSE c \in Consumers : HasTaken(c, i)
                           ELSE 0]
Retired == {c \in Consumers : IsPill(temp[c])}
Result  == IF mpc = "exit" THEN sum ELSE IF mpc = "failed" THEN -2 ELSE -1

WD == INSTANCE WorkDispatch WITH offered <- Offered, owner <- Owner,
                                 retired <- Retired, result <- Result

\* Elements are taken in the order in which they were pushed, a consumer stops
\* only when every element has been taken, and the sum reported is the right one;
\* every element is offered and taken, and a sum is reported, in the end.
ImplementsWorkDispatch == WD!Spec
=============================================================================
