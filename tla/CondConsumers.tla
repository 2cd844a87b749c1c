---------------------------- MODULE CondConsumers ----------------------------
(***************************************************************************)
(* exercise06/task3/task3.c: the consumers sleep on a condition variable   *)
(* while the queue is empty.                                               *)
(***************************************************************************)
EXTENDS WorkQueue

\* Mutant of Signal: it is not made.
NoSignal == UNCHANGED pc

\* pthread_cond_signal unblocks at least one waiter, if there is one.
Signal == \E W \in SUBSET Waiting :
            /\ Waiting # {} => W # {}
            /\ pc' = [c \in Consumers |-> IF c \in W THEN "wake" ELSE pc[c]]

SignalledPush == PushItem /\ Signal

\* The broadcast is made without the mutex.
Broadcast ==
    /\ mpc = "broadcast"
    /\ pc' = [c \in Consumers |-> IF c \in Waiting THEN "wake" ELSE pc[c]]
    /\ mpc' = "join"
    /\ UNCHANGED <<mutex, queue, spawned, pushed, joined, sum, temp, added>>

\* The queue is empty: release the mutex and wait, in one step.
CondWait(c) ==
    /\ pc[c] = "test" /\ queue = <<>> /\ mutex' = Free
    /\ pc' = [pc EXCEPT ![c] = "wait"] /\ UNCHANGED <<queue, main_vars, temp, added>>

\* A waiter that comes back takes the mutex again (Lock) and tests again.
SpuriousWakeup(c) ==
    /\ pc[c] = "wait" /\ pc' = [pc EXCEPT ![c] = "wake"]
    /\ UNCHANGED <<mutex, queue, main_vars, temp, added>>

CondMain ==
    \/ SpawnThread("lock") \/ SpawnFails \/ ProducerLock \/ SignalledPush
    \/ ProducerUnlock("broadcast") \/ Broadcast \/ Join

CondStep(c) == CondWait(c) \/ Pop(c) \/ Unlock(c) \/ Add(c) \/ Leave(c)

CondThread(c) == Alive /\ (Lock(c) \/ CondStep(c) \/ SpuriousWakeup(c))

CondNext == CondMain \/ \E c \in Consumers : CondThread(c)

(***************************************************************************)
(* Every thread is scheduled.  A thread that finds the mutex free again    *)
(* and again gets it.  Nothing makes a spurious wakeup happen.             *)
(***************************************************************************)
CondFairness == /\ WF_vars(CondMain)
                /\ SF_vars(ProducerLock)
                /\ \A c \in Consumers : /\ WF_vars(Alive /\ CondStep(c))
                                        /\ SF_vars(Alive /\ Lock(c))

CondSpec == Init /\ [][CondNext]_vars /\ CondFairness
=============================================================================
