------------------------------ MODULE Scheduler ------------------------------
(***************************************************************************)
(* exercise05/task1: services send tasks to a POSIX message queue, and a   *)
(* scheduler receives the one with the highest priority, sorts its numbers *)
(* and prints them.  SIGINT ends it; the queue stays, and may be opened    *)
(* again.  A task has a priority and what parse_numbers makes of its text. *)
(***************************************************************************)
EXTENDS Integers, Sequences, FiniteSets

CONSTANTS Tasks,      \* the tasks that are sent, each with its fields prio and numbers
          MAX_MSGS,
          HalfRange   \* an int goes from -HalfRange to HalfRange - 1; a long is wider

ASSUME SchedulerAssumption ==
    /\ IsFiniteSet(Tasks) /\ Tasks \subseteq [prio : Nat, numbers : Seq(Int)]
    /\ MAX_MSGS \in Nat \ {0} /\ HalfRange \in Nat \ {0}

VARIABLES mq,         \* the kernel's queue, in the order of arrival
          unsent,     \* the tasks nobody has sent yet
          scheduler, should_run, task, numbers,
          done        \* the tasks that have been sorted, or have failed, with
                      \* the numbers that were printed

sched_vars == <<mq, unsent, scheduler, should_run, task, numbers, done>>

NoTask == [prio |-> -1, numbers |-> <<>>]

SchedInit == /\ mq = <<>> /\ unsent = Tasks /\ scheduler = "off" /\ should_run = TRUE
             /\ task = NoTask /\ numbers = <<>> /\ done = {}

-----------------------------------------------------------------------------
(* The comparator, which reads ints where there are longs. *)

ToInt(x) == ((x + HalfRange) % (2 * HalfRange)) - HalfRange

Compare(a, b) == ToInt(ToInt(a) - ToInt(b))

\* Mutant of LessThan: the operands are exchanged.
GreaterThan(a, b) == Compare(b, a) < 0
LessThan(a, b) == Compare(a, b) < 0

\* What qsort may leave: if the comparator is not an order, any arrangement.
Arrangements(s) == {[j \in DOMAIN s |-> s[p[j]]] :
                       p \in {f \in [DOMAIN s -> DOMAIN s] : \A j, k \in DOMAIN s :
                                                                 f[j] = f[k] => j = k}}
InOrder(s) == \A j, k \in DOMAIN s : j < k => ~LessThan(s[k], s[j])

Sorted(s) == LET ordered == {a \in Arrangements(s) : InOrder(a)}
             IN  IF ordered # {} THEN ordered ELSE Arrangements(s)

-----------------------------------------------------------------------------
(* A service: its mq_send waits while the queue is full. *)

Send(t) == /\ t \in unsent /\ Len(mq) < MAX_MSGS
           /\ mq' = Append(mq, t) /\ unsent' = unsent \ {t}
           /\ UNCHANGED <<scheduler, should_run, task, numbers, done>>

-----------------------------------------------------------------------------
(* The scheduler. *)

\* Its queue may exist, with messages in it.
Start == /\ scheduler = "off" /\ scheduler' = "test" /\ should_run' = TRUE
         /\ UNCHANGED <<mq, unsent, task, numbers, done>>

TestRun == /\ scheduler = "test" /\ scheduler' = IF should_run THEN "receive" ELSE "cleanup"
           /\ UNCHANGED <<mq, unsent, should_run, task, numbers, done>>

\* The oldest message of those with the highest priority.
First(q) == CHOOSE j \in DOMAIN q :
               \A k \in DOMAIN q :
                   q[k].prio < q[j].prio \/ (q[k].prio = q[j].prio /\ j <= k)

Without(q, j) == SubSeq(q, 1, j - 1) \o SubSeq(q, j + 1, Len(q))

\* A task without numbers, or with something else, fails.
Receive == /\ scheduler = "receive" /\ mq # <<>>
           /\ task' = mq[First(mq)] /\ mq' = Without(mq, First(mq))
           /\ numbers' = task'.numbers
           /\ scheduler' = IF numbers' = <<>> THEN "clean" ELSE "sort"
           /\ UNCHANGED <<unsent, should_run, done>>

\* Mutant of NoMessage: a signal that comes late is tested after mq_receive, and the loop
\* goes on without the message.
MessageTaken == IF mq = <<>> THEN mq ELSE Without(mq, First(mq))
NoMessage    == mq

\* mq_receive fails, for a signal or otherwise: continue.
ReceiveFails == /\ scheduler = "receive" /\ scheduler' = "test" /\ mq' = NoMessage
                /\ UNCHANGED <<unsent, should_run, task, numbers, done>>

Sort == /\ scheduler = "sort" /\ scheduler' = "clean" /\ numbers' \in Sorted(numbers)
        /\ UNCHANGED <<mq, unsent, should_run, task, done>>

CleanBuffer == /\ scheduler = "clean" /\ scheduler' = "test"
               /\ done' = done \cup {[task |-> task, numbers |-> numbers]}
               /\ task' = NoTask /\ numbers' = <<>>
               /\ UNCHANGED <<mq, unsent, should_run>>

\* mq_unlink gets the name of the program, which is not that of the queue: the queue stays,
\* with the tasks in it that exercise05/README.md:27 and 68 want discarded.
Cleanup == /\ scheduler = "cleanup" /\ scheduler' = "off"
           /\ UNCHANGED <<mq, unsent, should_run, task, numbers, done>>

Handler == /\ scheduler # "off" /\ should_run' = FALSE
           /\ UNCHANGED <<mq, unsent, scheduler, task, numbers, done>>

-----------------------------------------------------------------------------
SchedNext == \/ \E t \in Tasks : Send(t)
             \/ Start \/ TestRun \/ Receive \/ ReceiveFails \/ Sort \/ CleanBuffer
             \/ Cleanup \/ Handler

SchedSpec == SchedInit /\ [][SchedNext]_sched_vars

-----------------------------------------------------------------------------
(* Properties. *)

\* The tasks that are unsent, in the queue, being worked on and done.
TasksHeld == Cardinality(unsent) + Len(mq) + Cardinality(done)
             + (IF task = NoTask THEN 0 ELSE 1)

\* Until it shuts down, the scheduler loses no task and works on none twice, whatever
\* interrupts it and however often it has been started (scheduler.c:98-132).  Only its
\* cleanup may discard tasks.
OnlyCleanupDiscards == [][scheduler = "cleanup" \/ TasksHeld' = TasksHeld]_sched_vars

InHalf(x) == 2 * x >= -HalfRange /\ 2 * x < HalfRange

\* What is printed for a task are its numbers, and numbers whose differences are ints
\* are in ascending order; others need not be, as ints are compared (scheduler.c:31).
SortsSmallNumbers ==
    \A d \in done :
        /\ d.numbers \in Arrangements(d.task.numbers)
        /\ (\A j \in DOMAIN d.numbers : InHalf(d.numbers[j])) =>
              \A j, k \in DOMAIN d.numbers : j < k => d.numbers[j] <= d.numbers[k]
=============================================================================
