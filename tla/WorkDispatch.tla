---------------------------- MODULE WorkDispatch ----------------------------
(***************************************************************************)
(* What the producer/consumer programs of exercise06 promise, without      *)
(* threads, locks or a queue: N items are offered in order, every item is  *)
(* taken once, a consumer retires only when nothing is left to take, and   *)
(* the value reported at the end is the sum of the N items, alternately 1  *)
(* and -1 (exercise06/README.md:38-39).                                    *)
(***************************************************************************)
EXTENDS Integers

CONSTANTS C,    \* number of consumers
          N     \* number of elements

Consumers == 1..C
Nobody    == 0
Pending   == -1      \* no sum has been reported
Failed    == -2      \* the program gave up before offering anything

VARIABLES offered,   \* how many of the items 1..N are on offer
          owner,     \* the consumer that took an item
          retired,   \* the consumers that have been told to stop
          result     \* the reported sum

vars == <<offered, owner, retired, result>>

Init == /\ offered = 0
        /\ owner = [i \in 1..N |-> Nobody]
        /\ retired = {}
        /\ result = Pending

Offer == /\ result = Pending
         /\ offered < N
         /\ offered' = offered + 1
         /\ UNCHANGED <<owner, retired, result>>

\* Items are taken in the order in which they were offered.
Take(c) == /\ result = Pending
           /\ c \notin retired
           /\ \E i \in 1..offered :
                /\ owner[i] = Nobody
                /\ \A j \in 1..(i - 1) : owner[j] # Nobody
                /\ owner' = [owner EXCEPT ![i] = c]
           /\ UNCHANGED <<offered, retired, result>>

Retire(c) == /\ result = Pending
             /\ c \notin retired
             /\ offered = N
             /\ \A i \in 1..N : owner[i] # Nobody
             /\ retired' = retired \cup {c}
             /\ UNCHANGED <<offered, owner, result>>

Report == /\ result = Pending
          /\ retired = Consumers
          /\ result' = N % 2
          /\ UNCHANGED <<offered, owner, retired>>

GiveUp == /\ result = Pending
          /\ offered = 0
          /\ result' = Failed
          /\ UNCHANGED <<offered, owner, retired>>

Next == \/ Offer \/ Report \/ GiveUp
        \/ \E c \in Consumers : Take(c) \/ Retire(c)

Spec == Init /\ [][Next]_vars /\ WF_vars(Offer \/ Report)
             /\ WF_vars(\E c \in Consumers : Take(c) \/ Retire(c))
=============================================================================
