----------------------------- MODULE AtomicQueue -----------------------------
(***************************************************************************)
(* What myqueue.h promises to threads that share a queue: each call takes  *)
(* effect in one step, a pop returns the oldest value that was pushed, and *)
(* a test for emptiness tells the truth.                                   *)
(***************************************************************************)
EXTENDS Sequences

CONSTANTS Users, Values

VARIABLES items,    \* the values in the queue, oldest first
          answer    \* what each user has pushed, popped or found in its last call

vars == <<items, answer>>

Init == items = <<>> /\ answer = [u \in Users |-> "none"]

Answers(u, a) == answer' = [answer EXCEPT ![u] = a]

Begin(u) == Answers(u, "none") /\ UNCHANGED items

Push(u, v) == Answers(u, v) /\ items' = Append(items, v)

Pop(u) == items # <<>> /\ Answers(u, Head(items)) /\ items' = Tail(items)

IsEmpty(u) == Answers(u, IF items = <<>> THEN "empty" ELSE "more") /\ UNCHANGED items

Next == \E u \in Users : Begin(u) \/ Pop(u) \/ IsEmpty(u) \/ \E v \in Values : Push(u, v)

Spec == Init /\ [][Next]_vars
=============================================================================
