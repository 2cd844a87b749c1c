----------------------------- MODULE MCThreads -----------------------------
(***************************************************************************)
(* Runs six programs: those of exercise05/task3, exercise06/task1,         *)
(* exercise07/task2 and exercise10/task1, whose threads or processes       *)
(* synchronize with semaphores, mutexes or a barrier, the chat server of   *)
(* exercise09/task1, and threads that share a queue of myqueue.h.          *)
(* `program` says which of them is running; the others stay in their       *)
(* initial states.                                                         *)
(***************************************************************************)
EXTENDS SemRing, Philosophers, CounterMutex, DiceGame, ChatServer, MyQueue

VARIABLE program

MCVars == <<vars, dining_vars, mutex_vars, dice_vars, chat_vars, list_vars, program>>

MCInit == /\ program \in {"ring", "philosophers", "counter", "dice", "chat", "list"}
          /\ Init /\ DiningInit /\ MutexInit /\ DiceInit /\ ChatInit /\ ListInit

InRing == /\ program = "ring"
          /\ UNCHANGED <<dining_vars, mutex_vars, dice_vars, chat_vars, list_vars, program>>
InDice == /\ program = "dice"
          /\ UNCHANGED <<vars, dining_vars, mutex_vars, chat_vars, list_vars, program>>
InChat == /\ program = "chat"
          /\ UNCHANGED <<vars, dining_vars, mutex_vars, dice_vars, list_vars, program>>

MCNext ==
    \/ InRing /\ Next
    \/ /\ program = "philosophers" /\ DiningNext
       /\ UNCHANGED <<vars, mutex_vars, dice_vars, chat_vars, list_vars, program>>
    \/ /\ program = "counter" /\ MutexNext
       /\ UNCHANGED <<vars, dining_vars, dice_vars, chat_vars, list_vars, program>>
    \/ InDice /\ DiceNext
    \/ InChat /\ ChatNext
    \/ /\ program = "list" /\ ListNext
       /\ UNCHANGED <<vars, dining_vars, mutex_vars, dice_vars, chat_vars, program>>

\* The fairness of each program, while it is the one that runs.
MCFairness ==
    /\ WF_MCVars(InRing /\ Parent) /\ WF_MCVars(InRing /\ ChildA) /\ WF_MCVars(InRing /\ ChildB)
    /\ WF_MCVars(InDice /\ \E p \in Players : SpawnThread(p))
    /\ WF_MCVars(InDice /\ JoinAll) /\ WF_MCVars(InDice /\ Barrier)
    /\ \A p \in Players : WF_MCVars(InDice /\ Thread(p))
    /\ WF_MCVars(InChat /\ MainStep) /\ WF_MCVars(InChat /\ ListenerStep)
    /\ SF_MCVars(InChat /\ Alive /\ ListenerFrame /\ ListenerLocks)
    /\ \A k \in Clients : /\ WF_MCVars(InChat /\ ClientStep(k))
                          /\ SF_MCVars(InChat /\ Alive /\ ClientFrame /\ Lock(k))

MCSpec == MCInit /\ [][MCNext]_MCVars /\ MCFairness
=============================================================================
