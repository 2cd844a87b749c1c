------------------------------ MODULE SemRing ------------------------------
(***************************************************************************)
(* exercise05/task3/task3.c: the program of exercise05/task2 with two      *)
(* counting semaphores in the shared memory.  sem_fd_1 counts the elements *)
(* B may read, sem_fd_2 the elements A may overwrite.                      *)
(***************************************************************************)
EXTENDS UnsyncRing

ASSUME SemRingAssumption == /\ N \in Nat
                            /\ K \in Nat \ {0}
                            /\ L \in Nat \ {0}
                            /\ W \in Nat \ {0}

VARIABLES sem_fd_1, sem_fd_2,
          ppc,       \* where the parent is
          apc, bpc,  \* where child A and child B are
          checksum   \* what the parent printed, or -1

vars == <<ring_vars, sem_fd_1, sem_fd_2, ppc, apc, bpc, checksum>>

\* Mutants of FreeElements: one element too many, and none.
OneMore == L + 1
NoneFree == 0

\* The value sem_fd_2 is initialized with.
FreeElements == L

Init == /\ RingInit
        /\ sem_fd_1 = 0 /\ sem_fd_2 = FreeElements
        /\ ppc = "fork_a" /\ apc = "none" /\ bpc = "none"
        /\ checksum = -1

-----------------------------------------------------------------------------
(* The parent. *)

\* A failed first fork is noticed only after the second one.
ForkA == /\ ppc = "fork_a"
         /\ ppc' = "fork_b"
         /\ apc' \in {"wait", "none"}
         /\ UNCHANGED <<ring_vars, sem_fd_1, sem_fd_2, bpc, checksum>>

ForkB == /\ ppc = "fork_b"
         /\ bpc' \in {"wait", "none"}
         /\ ppc' = IF apc = "none" \/ bpc' = "none" THEN "failed" ELSE "reap"
         /\ UNCHANGED <<ring_vars, sem_fd_1, sem_fd_2, apc, checksum>>

\* while (wait(NULL) > 0) ends when both children have ended.
Reaped    == apc = "done" /\ bpc = "done"

Validate == /\ ppc = "reap" /\ Reaped
            /\ checksum' = Checksum
            /\ ppc' = "exit"
            /\ UNCHANGED <<ring_vars, sem_fd_1, sem_fd_2, apc, bpc>>

-----------------------------------------------------------------------------
(* Child A. *)

\* Mutant of MayWrite and MayRead: sem_wait does not wait.
NoWait   == TRUE

MayWrite == sem_fd_2 > 0
MayRead  == sem_fd_1 > 0

WaitA == /\ apc = "wait" /\ MayWrite
         /\ sem_fd_2' = sem_fd_2 - 1
         /\ apc' = "write"
         /\ UNCHANGED <<ring_vars, sem_fd_1, ppc, bpc, checksum>>

WriteA == /\ apc = "write"
          /\ Write
          /\ apc' = "post"
          /\ UNCHANGED <<sem_fd_1, sem_fd_2, ppc, bpc, checksum>>

PostA == /\ apc = "post"
         /\ sem_fd_1' = sem_fd_1 + 1
         /\ apc' = IF written = K THEN "done" ELSE "wait"
         /\ UNCHANGED <<ring_vars, sem_fd_2, ppc, bpc, checksum>>

-----------------------------------------------------------------------------
(* Child B. *)

WaitB == /\ bpc = "wait" /\ MayRead
         /\ sem_fd_1' = sem_fd_1 - 1
         /\ bpc' = "read"
         /\ UNCHANGED <<ring_vars, sem_fd_2, ppc, apc, checksum>>

\* Mutant of ReadB: the iterations are counted from 0.
ReadBFromZero == /\ bpc = "read"
                 /\ result' = (result + buffer[summed % L]) % W
                 /\ summed' = summed + 1
                 /\ bpc' = "post"
                 /\ UNCHANGED <<buffer, written, sem_fd_1, sem_fd_2, ppc, apc, checksum>>

ReadB == /\ bpc = "read"
         /\ Sum
         /\ bpc' = "post"
         /\ UNCHANGED <<sem_fd_1, sem_fd_2, ppc, apc, checksum>>

PostB == /\ bpc = "post"
         /\ sem_fd_2' = sem_fd_2 + 1
         /\ bpc' = IF summed = K THEN "done" ELSE "wait"
         /\ UNCHANGED <<ring_vars, sem_fd_1, ppc, apc, checksum>>

-----------------------------------------------------------------------------
ChildA == WaitA \/ WriteA \/ PostA
ChildB == WaitB \/ ReadB \/ PostB
Parent == ForkA \/ ForkB \/ Validate

Next == Parent \/ ChildA \/ ChildB

\* The three processes are scheduled.
Fairness == WF_vars(Parent) /\ WF_vars(ChildA) /\ WF_vars(ChildB)

Spec == Init /\ [][Next]_vars /\ Fairness

-----------------------------------------------------------------------------
(* Properties. *)

\* Every variable has its type: the fields of the shared struct and the locals of
\* the three processes.
TypeOK == /\ buffer \in [0..(L - 1) -> 0..(W - 1)]
          /\ result \in 0..(W - 1)
          /\ written \in 0..K
          /\ summed \in 0..K
          /\ sem_fd_1 \in 0..L
          /\ sem_fd_2 \in 0..L
          /\ ppc \in {"fork_a", "fork_b", "reap", "exit", "failed"}
          /\ apc \in {"none", "wait", "write", "post", "done"}
          /\ bpc \in {"none", "wait", "read", "post", "done"}
          /\ checksum \in -1..(W - 1)

\* The element B is about to read holds the product A computed in the same
\* iteration: not one of an earlier or later round (task3.c:103 and 114).
ReadsOwnProduct == bpc = "read" => buffer[(summed + 1) % L] = Product(summed + 1)

\* A and B are never in the same element at a time, while they may well be in two
\* different ones (task3.c:102-104 and 113-115).
NoDataRace ==
    apc = "write" /\ bpc = "read" => (written + 1) % L # (summed + 1) % L

\* "Your program should now always compute the correct checksum"
\* (exercise05/README.md:182), when the parent prints one.
CorrectChecksum == ppc = "exit" => checksum = 0

\* Neither child waits for the other forever (task3.c:102 and 113): when both have
\* been created the parent reaps both and prints the checksum.
Finishes == (ppc = "reap") ~> (ppc = "exit")

\* "Implement the same program as in the previous task 2" (exercise05/README.md:178):
\* without its semaphores and its parent it is that program.
Task2 == INSTANCE UnsyncRing
ImplementsTask2 == Task2!RingSpec
=============================================================================
