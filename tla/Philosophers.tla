---------------------------- MODULE Philosophers ----------------------------
(***************************************************************************)
(* exercise07/task2/task2.c: dining philosophers with a mutex for every    *)
(* chopstick.  All take the right one first, but for the last philosopher. *)
(***************************************************************************)
EXTENDS Integers

CONSTANTS NUM_PHILOSOPHER, EAT_ITERATIONS

ASSUME DiningAssumption == /\ NUM_PHILOSOPHER \in Nat \ {0, 1}
                           /\ EAT_ITERATIONS \in Nat

VARIABLES chopstick,   \* the owner of each mutex, or Table
          seat,        \* where each philosopher is in dine
          meals,       \* the iterations each has finished
          created, joined   \* the counters of main's loops

dining_vars == <<chopstick, seat, meals, created, joined>>

Philosopher == 0..(NUM_PHILOSOPHER - 1)
Table == NUM_PHILOSOPHER   \* nobody

Right(p) == p
Left(p)  == (p + 1) % NUM_PHILOSOPHER

\* Mutant of TakesRightFirst: the last one is like the others.
LikeTheOthers(p) == p \in Philosopher
\* The chopstick each of them locks first, and the other one.
TakesRightFirst(p) == p # NUM_PHILOSOPHER - 1

First(p)  == IF TakesRightFirst(p) THEN Right(p) ELSE Left(p)
Second(p) == IF TakesRightFirst(p) THEN Left(p) ELSE Right(p)

DiningInit == /\ chopstick = [c \in Philosopher |-> Table]
              /\ seat = [p \in Philosopher |-> "new"]
              /\ meals = [p \in Philosopher |-> 0]
              /\ created = 0 /\ joined = 0

\* `for` of line 18: another iteration or the end.
NextSeat(m) == IF m < EAT_ITERATIONS THEN "hungry" ELSE "done"

\* pthread_create is not checked; a philosopher that is not created is not modelled.
Create == /\ created < NUM_PHILOSOPHER
          /\ seat' = [seat EXCEPT ![created] = NextSeat(0)]
          /\ created' = created + 1
          /\ UNCHANGED <<chopstick, meals, joined>>

JoinNext == /\ created = NUM_PHILOSOPHER /\ joined < NUM_PHILOSOPHER
            /\ seat[joined] = "done"
            /\ joined' = joined + 1
            /\ UNCHANGED <<chopstick, seat, meals, created>>

Take(p, c, from, to) == /\ seat[p] = from /\ chopstick[c] = Table
                        /\ chopstick' = [chopstick EXCEPT ![c] = p]
                        /\ seat' = [seat EXCEPT ![p] = to]
                        /\ UNCHANGED <<meals, created, joined>>

TakeFirst(p)  == Take(p, First(p), "hungry", "waiting")
TakeSecond(p) == Take(p, Second(p), "waiting", "eating")

PutLeft(p) == /\ seat[p] = "eating"
              /\ chopstick' = [chopstick EXCEPT ![Left(p)] = Table]
              /\ seat' = [seat EXCEPT ![p] = "full"]
              /\ UNCHANGED <<meals, created, joined>>

PutRight(p) == /\ seat[p] = "full"
               /\ chopstick' = [chopstick EXCEPT ![Right(p)] = Table]
               /\ meals' = [meals EXCEPT ![p] = @ + 1]
               /\ seat' = [seat EXCEPT ![p] = NextSeat(meals[p] + 1)]
               /\ UNCHANGED <<created, joined>>

Dine(p) == TakeFirst(p) \/ TakeSecond(p) \/ PutLeft(p) \/ PutRight(p)

DiningNext == Create \/ JoinNext \/ \E p \in Philosopher : Dine(p)

DiningSpec == DiningInit /\ [][DiningNext]_dining_vars

-----------------------------------------------------------------------------
(* Properties. *)

DiningTypeOK == /\ chopstick \in [Philosopher -> 0..NUM_PHILOSOPHER]
                /\ seat \in [Philosopher -> {"new", "hungry", "waiting", "eating",
                                             "full", "done"}]
                /\ meals \in [Philosopher -> 0..EAT_ITERATIONS]
                /\ created \in 0..NUM_PHILOSOPHER /\ joined \in 0..NUM_PHILOSOPHER

\* What a philosopher waits for in pthread_mutex_lock.
Blocked(p) == \/ seat[p] = "hungry" /\ chopstick[First(p)] # Table
              \/ seat[p] = "waiting" /\ chopstick[Second(p)] # Table

Finished(p) == seat[p] \in {"new", "done"}

\* Whatever the philosophers hold and wait for, somebody who is at the table can go
\* on, unless all have finished (task2.c:19-25).
NoDeadlock == \/ \A p \in Philosopher : Finished(p)
              \/ \E p \in Philosopher : ~Finished(p) /\ ~Blocked(p)
=============================================================================
