------------------------------ MODULE Counter ------------------------------
(***************************************************************************)
(* exercise06/task1/task1_atomic.c: threads that add EVEN_INCREASE and     *)
(* ODD_INCREASE in turn to one unsigned counter, with atomic_fetch_add.    *)
(***************************************************************************)
EXTENDS Integers, FiniteSets

CONSTANTS Threads, ITERATIONS,
          Modulus        \* unsigned int wraps around there

ASSUME CounterAssumption ==
    IsFiniteSet(Threads) /\ ITERATIONS \in Nat /\ Modulus \in Nat \ {0}

VARIABLES counter,
          i,             \* the loop variable of each thread; -1 before it starts
          printed        \* what main printed, -1 before, -2 if it has given up

count_vars == <<counter, i, printed>>

EVEN_INCREASE == 42
ODD_INCREASE  == -41

CountInit == /\ counter = 0 /\ i = [t \in Threads |-> -1] /\ printed = -1

Running == printed = -1

CreateThread(t) == /\ Running /\ i[t] = -1
                   /\ i' = [i EXCEPT ![t] = 0] /\ UNCHANGED <<counter, printed>>

\* main returns, which ends the threads that have been created, too.
CreateFails(t) == /\ Running /\ i[t] = -1
                  /\ printed' = -2 /\ UNCHANGED <<counter, i>>

\* The value an addition stores, for a counter that was read as c.
Plus(c, k) == (c + IF k % 2 = 0 THEN EVEN_INCREASE ELSE ODD_INCREASE) % Modulus

FetchAdd(t) == /\ Running /\ i[t] \in 0..(ITERATIONS - 1)
               /\ counter' = Plus(counter, i[t])
               /\ i' = [i EXCEPT ![t] = @ + 1] /\ UNCHANGED printed

\* main prints when it has joined all threads.
PrintCounter == /\ Running /\ \A t \in Threads : i[t] = ITERATIONS
                /\ printed' = counter /\ UNCHANGED <<counter, i>>

CountNext == PrintCounter \/ \E t \in Threads : CreateThread(t) \/ CreateFails(t)
                                              \/ FetchAdd(t)

CountSpec == CountInit /\ [][CountNext]_count_vars
=============================================================================
