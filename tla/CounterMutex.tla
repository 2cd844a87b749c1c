---------------------------- MODULE CounterMutex ----------------------------
(***************************************************************************)
(* exercise06/task1/task1_mutex.c: the program of module Counter with a    *)
(* plain counter, and a mutex around its load and its store.               *)
(***************************************************************************)
EXTENDS Counter

VARIABLES at,       \* where each thread is in an iteration
          loaded,   \* the counter as each thread has read it
          owner     \* the threads that have locked the mutex

mutex_vars == <<count_vars, at, loaded, owner>>

MutexInit == /\ CountInit
             /\ at = [t \in Threads |-> "lock"] /\ loaded = [t \in Threads |-> 0]
             /\ owner = {}

\* Mutant of MutexFree: the mutex is not waited for.
NotWaiting == TRUE
MutexFree  == owner = {}

LockCounter(t) == /\ Running /\ i[t] \in 0..(ITERATIONS - 1) /\ at[t] = "lock" /\ MutexFree
                  /\ owner' = owner \cup {t} /\ at' = [at EXCEPT ![t] = "load"]
                  /\ UNCHANGED <<count_vars, loaded>>

Load(t) == /\ Running /\ at[t] = "load"
           /\ loaded' = [loaded EXCEPT ![t] = counter]
           /\ at' = [at EXCEPT ![t] = "store"] /\ UNCHANGED <<count_vars, owner>>

\* The value with which `*counter += temp` of iteration i[t] is stored.
Store(t) == /\ Running /\ at[t] = "store"
            /\ counter' = Plus(loaded[t], i[t])
            /\ i' = [i EXCEPT ![t] = @ + 1] /\ at' = [at EXCEPT ![t] = "unlock"]
            /\ UNCHANGED <<printed, loaded, owner>>

UnlockCounter(t) == /\ Running /\ at[t] = "unlock"
                    /\ owner' = owner \ {t} /\ at' = [at EXCEPT ![t] = "lock"]
                    /\ UNCHANGED <<count_vars, loaded>>

\* A thread has returned when its last iteration has unlocked the mutex.
MutexMain == /\ \/ PrintCounter /\ \A t \in Threads : at[t] = "lock"
                \/ \E t \in Threads : CreateThread(t) \/ CreateFails(t)
             /\ UNCHANGED <<at, loaded, owner>>

MutexThread(t) == LockCounter(t) \/ Load(t) \/ Store(t) \/ UnlockCounter(t)

MutexNext == MutexMain \/ \E t \in Threads : MutexThread(t)

MutexSpec == MutexInit /\ [][MutexNext]_mutex_vars

-----------------------------------------------------------------------------
(* Properties. *)

MutexTypeOK == /\ counter \in 0..(Modulus - 1)
               /\ i \in [Threads -> -1..ITERATIONS]
               /\ printed \in -2..(Modulus - 1)
               /\ at \in [Threads -> {"lock", "load", "store", "unlock"}]
               /\ loaded \in [Threads -> 0..(Modulus - 1)]
               /\ owner \subseteq Threads

\* What main prints counts every addition of every thread, in any interleaving and
\* with any wraparound (task1_mutex.c:47 and 32).
FinalCount ==
    printed >= 0 =>
        printed = (Cardinality(Threads) * (((ITERATIONS + 1) \div 2) * EVEN_INCREASE
                                           + (ITERATIONS \div 2) * ODD_INCREASE)) % Modulus

\* The program with the mutex implements the one with the atomic counter: seen from
\* outside, each addition of line 47 is one step.
ImplementsAtomic == CountSpec
=============================================================================
