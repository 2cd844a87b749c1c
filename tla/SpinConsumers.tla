---------------------------- MODULE SpinConsumers ----------------------------
(***************************************************************************)
(* exercise06/task2/task2.c: the consumers have a mutex only.  A consumer  *)
(* first waits, reading the queue's head without the mutex, until there is *)
(* something in the queue, and then polls.                                 *)
(***************************************************************************)
EXTENDS WorkQueue

SilentPush == PushItem /\ UNCHANGED pc

\* The first loop; the sleep between two looks is only time.
Peek(c) ==
    /\ pc[c] = "peek" /\ queue # <<>> /\ pc' = [pc EXCEPT ![c] = "lock"]
    /\ UNCHANGED <<mutex, queue, main_vars, temp, added>>

\* Nothing to pop: temp stays 0, and adding it changes nothing.
FindEmpty(c) ==
    /\ pc[c] = "test" /\ queue = <<>> /\ pc' = [pc EXCEPT ![c] = "unlock"]
    /\ UNCHANGED <<mutex, queue, main_vars, temp, added>>

SpinMain ==
    \/ SpawnThread("peek") \/ SpawnFails \/ ProducerLock \/ SilentPush
    \/ ProducerUnlock("join") \/ Join

SpinStep(c) == Peek(c) \/ FindEmpty(c) \/ Pop(c) \/ Unlock(c) \/ Add(c) \/ Leave(c)

SpinThread(c) == Alive /\ (Lock(c) \/ SpinStep(c))

SpinNext == SpinMain \/ \E c \in Consumers : SpinThread(c)

(***************************************************************************)
(* Every thread is scheduled.  A thread that finds the mutex free again    *)
(* and again gets it, although the others poll without a pause.            *)
(***************************************************************************)
SpinFairness == /\ WF_vars(SpinMain)
                /\ SF_vars(ProducerLock)
                /\ \A c \in Consumers : /\ WF_vars(Alive /\ SpinStep(c))
                                        /\ SF_vars(Alive /\ Lock(c))

SpinSpec == Init /\ [][SpinNext]_vars /\ SpinFairness
=============================================================================
