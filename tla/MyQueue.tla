------------------------------- MODULE MyQueue -------------------------------
(***************************************************************************)
(* myqueue.h, the queue of exercise06 and exercise08, as the singly linked *)
(* tail queue it is, and threads that use it like those of exercise06: an  *)
(* entry is pushed, or tested for and popped, with the mutex held; the     *)
(* first test of task2 is made without it.  Each assignment to the list is *)
(* a step.  malloc hands out any address that is not in use, one that has  *)
(* been freed, too, with what was left there.                              *)
(***************************************************************************)
EXTENDS Integers, Sequences, FiniteSets

CONSTANTS Users,    \* the threads
          Values,   \* what is pushed
          Room      \* bound: entries that malloc has room for

ASSUME MyQueueAssumption == Room \in Nat /\ Values # {}

Entries == 1..Room
NULL    == 0
Anchor  == -1       \* &q->stqh_first, where stqh_last points in an empty queue

VARIABLES stqh_first,
          stqh_last,    \* the entry whose next is the last link, or Anchor
          next, value,  \* of every address, whether it is in use or not
          allocated,
          holder,       \* the threads that have locked the mutex
          upc,          \* where each thread is
          entry,        \* the entry it pushes or pops
          data,         \* the value it pushes, or has read from the entry it pops
          answer        \* what it has pushed, popped or found in its last call

list      == <<stqh_first, stqh_last, next, value, allocated>>
list_vars == <<list, holder, upc, entry, data, answer>>

ListInit ==
    /\ stqh_first = NULL /\ stqh_last = Anchor /\ allocated = {} /\ holder = {}
    /\ next = [e \in Entries |-> NULL] /\ value = [e \in Entries |-> CHOOSE v \in Values : TRUE]
    /\ upc = [u \in Users |-> "out"] /\ entry = [u \in Users |-> NULL]
    /\ data = [u \in Users |-> CHOOSE v \in Values : TRUE]
    /\ answer = [u \in Users |-> "none"]

UserGoes(u, from, to) == upc[u] = from /\ upc' = [upc EXCEPT ![u] = to]
Answers(u, a)         == answer' = [answer EXCEPT ![u] = a]

-----------------------------------------------------------------------------
(* The mutex, and the tests for emptiness. *)

BeginCall(u) == /\ UserGoes(u, "out", "call") /\ Answers(u, "none")
                /\ UNCHANGED <<list, holder, entry, data>>

\* myqueue_is_empty without the mutex.
Glance(u) == /\ UserGoes(u, "call", "out")
             /\ Answers(u, IF stqh_first = NULL THEN "empty" ELSE "more")
             /\ UNCHANGED <<list, holder, entry, data>>

\* Mutant of ListFree: it is not waited for.
NoLock   == TRUE
ListFree == holder = {}

LockList(u) == /\ UserGoes(u, "call", "locked") /\ ListFree /\ holder' = holder \cup {u}
               /\ UNCHANGED <<list, entry, data, answer>>

UnlockList(u) == /\ UserGoes(u, "unlock", "out") /\ holder' = holder \ {u}
                 /\ UNCHANGED <<list, entry, data, answer>>

\* Only a queue that is not empty is popped from.
TestEmpty(u) ==
    /\ \/ stqh_first = NULL /\ UserGoes(u, "locked", "unlock") /\ Answers(u, "empty")
       \/ stqh_first # NULL /\ UserGoes(u, "locked", "pop") /\ Answers(u, "more")
    /\ UNCHANGED <<list, holder, entry, data>>

-----------------------------------------------------------------------------
(* myqueue_push. *)

\* malloc, and the value.
PushEntry(u) ==
    /\ UserGoes(u, "locked", "push_next")
    /\ \E e \in Entries \ allocated, v \in Values :
         /\ allocated' = allocated \cup {e} /\ entry' = [entry EXCEPT ![u] = e]
         /\ value' = [value EXCEPT ![e] = v] /\ data' = [data EXCEPT ![u] = v]
    /\ UNCHANGED <<stqh_first, stqh_last, next, holder, answer>>

PushNext(u) ==
    /\ UserGoes(u, "push_next", "push_link") /\ next' = [next EXCEPT ![entry[u]] = NULL]
    /\ UNCHANGED <<stqh_first, stqh_last, value, allocated, holder, entry, data, answer>>

\* *stqh_last = entry
PushLink(u) ==
    /\ UserGoes(u, "push_link", "push_last")
    /\ \/ stqh_last = Anchor /\ stqh_first' = entry[u] /\ UNCHANGED next
       \/ /\ stqh_last # Anchor /\ next' = [next EXCEPT ![stqh_last] = entry[u]]
          /\ UNCHANGED stqh_first
    /\ UNCHANGED <<stqh_last, value, allocated, holder, entry, data, answer>>

PushLast(u) ==
    /\ UserGoes(u, "push_last", "unlock") /\ stqh_last' = entry[u] /\ Answers(u, data[u])
    /\ UNCHANGED <<stqh_first, next, value, allocated, holder, entry, data>>

-----------------------------------------------------------------------------
(* myqueue_pop. *)

PopEntry(u) ==
    /\ UserGoes(u, "pop", "pop_first") /\ entry' = [entry EXCEPT ![u] = stqh_first]
    /\ data' = [data EXCEPT ![u] = value[stqh_first]] /\ UNCHANGED <<list, holder, answer>>

\* The condition of STAILQ_REMOVE_HEAD, which makes the assignment ...
PopFirst(u) ==
    /\ UserGoes(u, "pop_first", IF next[stqh_first] = NULL THEN "pop_last" ELSE "free")
    /\ stqh_first' = next[stqh_first]
    /\ UNCHANGED <<stqh_last, next, value, allocated, holder, entry, data, answer>>

\* Mutant of EmptyLast: stqh_last stays.
LastKept  == stqh_last
EmptyLast == Anchor

\* ... and its statement.
PopLast(u) ==
    /\ UserGoes(u, "pop_last", "free") /\ stqh_last' = EmptyLast
    /\ UNCHANGED <<stqh_first, next, value, allocated, holder, entry, data, answer>>

\* free, and return value.
FreeEntry(u) ==
    /\ UserGoes(u, "free", "unlock") /\ allocated' = allocated \ {entry[u]} /\ Answers(u, data[u])
    /\ UNCHANGED <<stqh_first, stqh_last, next, value, holder, entry, data>>

-----------------------------------------------------------------------------
Calls(u)  == BeginCall(u) \/ Glance(u) \/ LockList(u) \/ UnlockList(u) \/ TestEmpty(u)
Pushes(u) == PushEntry(u) \/ PushNext(u) \/ PushLink(u) \/ PushLast(u)
Pops(u)   == PopEntry(u) \/ PopFirst(u) \/ PopLast(u) \/ FreeEntry(u)

ListNext == \E u \in Users : Calls(u) \/ Pushes(u) \/ Pops(u)

ListSpec == ListInit /\ [][ListNext]_list_vars

-----------------------------------------------------------------------------
(* Properties. *)

ListTypeOK ==
    /\ stqh_first \in Entries \cup {NULL} /\ stqh_last \in Entries \cup {Anchor}
    /\ next \in [Entries -> Entries \cup {NULL}] /\ value \in [Entries -> Values]
    /\ allocated \subseteq Entries /\ holder \subseteq Users
    /\ upc \in [Users -> {"out", "call", "locked", "push_next", "push_link", "push_last",
                          "pop", "pop_first", "pop_last", "free", "unlock"}]
    /\ entry \in [Users -> Entries \cup {NULL}] /\ data \in [Users -> Values]
    /\ answer \in [Users -> Values \cup {"none", "empty", "more"}]

\* The entries that are reached from stqh_first, until a next that is NULL.
IsList(s) ==
    /\ stqh_first = IF s = <<>> THEN NULL ELSE s[1]
    /\ \A i \in DOMAIN s : next[s[i]] = IF i = Len(s) THEN NULL ELSE s[i + 1]
    /\ \A i, j \in DOMAIN s : s[i] = s[j] => i = j

Lists == UNION {[1..n -> Entries] : n \in 0..Room}
Order == CHOOSE s \in Lists : IsList(s)

\* pop's assertion holds, an entry is not used before malloc or after free, and between
\* the calls the entries in use are those of the list: none leaks and none of the list
\* has been freed (myqueue.h:28-40).
MemoryIsSound ==
    /\ \A u \in Users :
         /\ upc[u] \in {"pop", "pop_first"} => stqh_first # NULL
         /\ upc[u] \in {"push_next", "push_link", "push_last", "pop_first", "pop_last", "free"}
              => entry[u] \in allocated
    /\ holder = {} => allocated = {Order[i] : i \in DOMAIN Order}

\* A push takes effect when it is linked, a pop when the head has moved.
Contents == [i \in DOMAIN Order |-> value[Order[i]]]
Answered == [u \in Users |-> IF upc[u] \in {"push_last", "pop_last", "free"}
                             THEN data[u] ELSE answer[u]]

AQ == INSTANCE AtomicQueue WITH items <- Contents, answer <- Answered

\* The threads cannot tell the list from a queue whose calls are atomic, not even with
\* the test that is made without the mutex (task2.c:86).
ImplementsAtomicQueue == AQ!Spec
=============================================================================
