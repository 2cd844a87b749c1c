----------------------------- MODULE MCPrograms -----------------------------
(***************************************************************************)
(* Runs five programs: the beehive of exercise11/task3, the scheduler of   *)
(* exercise05/task1, the FIFO server of exercise04/task3, the address book *)
(* of exercise01/task1 and the chat server of the other author.  `program` *)
(* says which of them is running; the others stay in one of their initial  *)
(* states.                                                                 *)
(***************************************************************************)
EXTENDS Beehive, CondChat, Scheduler, FifoServer, AddressBook

VARIABLE program

\* Two tasks of one priority, one that fails, and one whose numbers are as far from
\* each other, and as big, as ints of this size are not.
MCTasks == {[prio |-> 1, numbers |-> <<3, -4, 1>>], [prio |-> 2, numbers |-> <<>>],
            [prio |-> 1, numbers |-> <<17, 2>>], [prio |-> 2, numbers |-> <<7, -8, 0>>]}

MCVars == <<program, vars, sched_vars, fifo_vars, book_vars, chat_vars>>

\* There are FIFOs of an earlier run only if the FIFO server runs, and something in the
\* memory that malloc returns only if the chat server does.
MCInit == /\ program \in {"beehive", "scheduler", "fifo", "book", "chat"}
          /\ Init /\ SchedInit /\ FifoInit /\ BookInit /\ CondChatInit
          /\ program # "fifo" => \A c \in Clients : ~fifo[c]
          /\ program # "chat" => \A s \in Slots : cfd[s] = None

InHive == /\ program = "beehive"
          /\ UNCHANGED <<program, sched_vars, fifo_vars, book_vars, chat_vars>>

MCNext == \/ InHive /\ Next
          \/ /\ program = "scheduler" /\ SchedNext
             /\ UNCHANGED <<program, vars, fifo_vars, book_vars, chat_vars>>
          \/ /\ program = "fifo" /\ FifoNext
             /\ UNCHANGED <<program, vars, sched_vars, book_vars, chat_vars>>
          \/ /\ program = "book" /\ BookNext
             /\ UNCHANGED <<program, vars, sched_vars, fifo_vars, chat_vars>>
          \/ /\ program = "chat" /\ CondChatNext
             /\ UNCHANGED <<program, vars, sched_vars, fifo_vars, book_vars>>

\* The fairness of the beehive, while it is the program that runs.
MCFairness == /\ WF_MCVars(InHive /\ MainStep) /\ WF_MCVars(InHive /\ Barrier)
              /\ \A b \in Bees : WF_MCVars(InHive /\ Bee(b))

MCSpec == MCInit /\ [][MCNext]_MCVars /\ MCFairness
=============================================================================
