------------------------------ MODULE Beehive ------------------------------
(***************************************************************************)
(* exercise11/task3/beehive.c with its myqueue.h: bees collect the nectar  *)
(* of a field.  A round of a bee is: take a food source from the shared    *)
(* queue, if there is one, harvest the flower and report its neighbours,   *)
(* and pass two barriers, between which one bee looks for a bear.          *)
(*                                                                         *)
(* The queue is the singly linked tail queue of <sys/queue.h>: a bee pops  *)
(* holding queue_mutex and pushes holding field_mutex, so a pop and a push *)
(* may interleave and their assignments are steps of their own.  An entry  *)
(* is named by the number of the push that allocated it.  A store to an    *)
(* entry that has been freed is lost (what malloc makes of the memory      *)
(* afterwards is not modelled).                                            *)
(***************************************************************************)
EXTENDS Integers, Sequences, FiniteSets

CONSTANTS Bees,            \* the bee threads
          width, height    \* of the field

Nobody == "nobody"    \* the owner of an unlocked mutex

ASSUME BeehiveAssumption ==
    /\ IsFiniteSet(Bees) /\ Bees # {} /\ Nobody \notin Bees
    /\ width \in Nat \ {0} /\ height \in Nat \ {0}

Positions == 0..(width * height - 1)
number_flowers == width * height

\* Every flower is reported at most once by each of its neighbours.
MaxEntries == 1 + 4 * number_flowers
Entries    == 1..MaxEntries
NULL       == 0
Anchor     == -1      \* &q->stqh_first, where stqh_last points in an empty queue

VARIABLES
    queue,            \* stqh_first; stqh_last, the entry whose next is the last
                      \* link, or Anchor; the entries allocated, their next and value
    queue_mutex, field_mutex,
    has_nectar,
    must_terminate, number_collected_flowers, beehive_destroyed,
    pc,               \* the bees
    entry, successor, \* what a bee is popping or pushing, and the next it has read
    pos,              \* where the bee flies
    report,           \* the positions it has still to push
    mpc               \* the main thread

field  == <<field_mutex, has_nectar, number_collected_flowers>>
flags  == <<must_terminate, beehive_destroyed>>
locals == <<entry, successor, pos, report>>
vars == <<queue, queue_mutex, field, flags, pc, locals, mpc>>

\* The first food source is pushed by main before there is any bee.
Init == /\ queue = [stqh_first |-> 1, stqh_last |-> 1, allocated |-> 1,
                    next |-> [e \in Entries |-> NULL],
                    value |-> [e \in Entries |-> IF e = 1 THEN (height * width) \div 2 ELSE 0]]
        /\ queue_mutex = Nobody /\ field_mutex = Nobody
        /\ has_nectar = [p \in Positions |-> TRUE]
        /\ must_terminate = FALSE /\ beehive_destroyed = FALSE
        /\ number_collected_flowers = 0 /\ pc = [b \in Bees |-> "new"]
        /\ entry = [b \in Bees |-> NULL] /\ successor = [b \in Bees |-> NULL]
        /\ pos = [b \in Bees |-> 0] /\ report = [b \in Bees |-> <<>>] /\ mpc = "spawn"

\* calculate_positions: top, bottom, left and right, inside the field; of these
\* check_nearby_flowers takes those with nectar.
WithNectar(p, nectar) ==
      (IF p >= width /\ nectar[p - width] THEN <<p - width>> ELSE <<>>)
   \o (IF p + width < width * height /\ nectar[p + width] THEN <<p + width>> ELSE <<>>)
   \o (IF p % width > 0 /\ nectar[p - 1] THEN <<p - 1>> ELSE <<>>)
   \o (IF p % width < width - 1 /\ nectar[p + 1] THEN <<p + 1>> ELSE <<>>)

Neighbours(p) == WithNectar(p, [q \in Positions |-> TRUE])

-----------------------------------------------------------------------------
(* The main thread. *)

MainFrame == UNCHANGED <<queue, queue_mutex, field, beehive_destroyed, locals>>
MainGoes(from, to) == mpc = from /\ mpc' = to

SpawnBee ==
    \E b \in Bees :
        /\ pc[b] = "new" /\ pc' = [pc EXCEPT ![b] = "check"]
        /\ MainGoes("spawn", IF \A c \in Bees \ {b} : pc[c] # "new" THEN "spin" ELSE "spawn")
        /\ UNCHANGED must_terminate

\* pthread_create fails: the process exits.
SpawnFails == MainGoes("spawn", "failed") /\ UNCHANGED <<pc, must_terminate>>

\* Mutant of Target: one flower less.
OneLess == number_flowers - 1

\* The loop without a body.
Target == number_flowers

SpinEnds ==
    /\ number_collected_flowers >= Target \/ beehive_destroyed
    /\ MainGoes("spin", "store") /\ UNCHANGED <<pc, must_terminate>>

StoreTerminate == MainGoes("store", "join") /\ must_terminate' = TRUE /\ UNCHANGED pc

JoinAll ==
    /\ MainGoes("join", "exit")
    /\ \A b \in Bees : pc[b] = "done"
    /\ UNCHANGED <<pc, must_terminate>>

-----------------------------------------------------------------------------
(* thread_func: the food source, with queue_mutex held. *)

QueueFrame == UNCHANGED <<field, flags, report, mpc>>
Goes(b, from, to) == pc[b] = from /\ pc' = [pc EXCEPT ![b] = to]

\* while (!atomic_load(must_terminate))
CheckTerminate(b) ==
    /\ Goes(b, "check", IF must_terminate THEN "done" ELSE "lock_queue")
    /\ UNCHANGED <<queue, queue_mutex, entry, successor, pos>>

LockQueue(b) ==
    /\ Goes(b, "lock_queue", "test") /\ queue_mutex = Nobody /\ queue_mutex' = b
    /\ UNCHANGED <<queue, entry, successor, pos>>

\* Nothing to do: work in the hive, and on to the barrier.
StayInHive(b) ==
    /\ queue.stqh_first = NULL /\ Goes(b, "test", "barrier1") /\ queue_mutex' = Nobody
    /\ UNCHANGED <<queue, entry, successor, pos>>

\* myqueue_pop: STAILQ_FIRST and the value, then the two assignments of
\* STAILQ_REMOVE_HEAD, the second only if the first stored NULL.
PopFirst(b) ==
    /\ queue.stqh_first # NULL /\ Goes(b, "test", "pop_next")
    /\ entry' = [entry EXCEPT ![b] = queue.stqh_first]
    /\ pos' = [pos EXCEPT ![b] = queue.value[queue.stqh_first]]
    /\ UNCHANGED <<queue, queue_mutex, successor>>

PopReadNext(b) ==
    /\ Goes(b, "pop_next", "pop_first")
    /\ successor' = [successor EXCEPT ![b] = queue.next[entry[b]]]
    /\ UNCHANGED <<queue, queue_mutex, entry, pos>>

PopSetFirst(b) ==
    /\ Goes(b, "pop_first", IF successor[b] = NULL THEN "pop_last" ELSE "unlock_queue")
    /\ queue' = [queue EXCEPT !.stqh_first = successor[b]]
    /\ UNCHANGED <<queue_mutex, entry, successor, pos>>

PopSetLast(b) ==
    /\ Goes(b, "pop_last", "unlock_queue")
    /\ queue' = [queue EXCEPT !.stqh_last = Anchor]
    /\ UNCHANGED <<queue_mutex, entry, successor, pos>>

UnlockQueue(b) ==
    /\ Goes(b, "unlock_queue", "lock_field") /\ queue_mutex' = Nobody
    /\ entry' = [entry EXCEPT ![b] = NULL]
    /\ successor' = [successor EXCEPT ![b] = NULL] /\ UNCHANGED <<queue, pos>>

-----------------------------------------------------------------------------
(* thread_func: the flower, with field_mutex held. *)

FieldFrame == UNCHANGED <<queue_mutex, flags, successor, pos, mpc>>

LockField(b) ==
    /\ Goes(b, "lock_field", "harvest") /\ field_mutex = Nobody /\ field_mutex' = b
    /\ UNCHANGED <<queue, has_nectar, number_collected_flowers, entry, report>>

AlreadyHarvested(b) ==
    /\ ~has_nectar[pos[b]] /\ Goes(b, "harvest", "unlock_field")
    /\ UNCHANGED <<queue, field, entry, report>>

\* Mutant of CanHarvest: whether there is nectar or not.
AnyFlower(b) == TRUE

CanHarvest(b) == has_nectar[pos[b]]

\* The neighbours to report are those that still have nectar.
Harvest(b) ==
    /\ CanHarvest(b) /\ Goes(b, "harvest", "report")
    /\ has_nectar' = [has_nectar EXCEPT ![pos[b]] = FALSE]
    /\ number_collected_flowers' = number_collected_flowers + 1
    /\ report' = [report EXCEPT ![b] = WithNectar(pos[b], has_nectar)]
    /\ UNCHANGED <<queue, field_mutex, entry>>

NotYetPushed(b) == Tail(report[b])

\* myqueue_push: STAILQ_INSERT_TAIL stores the new entry in *stqh_last ...
PushLink(b) ==
    LET new == queue.allocated + 1
        q   == [queue EXCEPT !.allocated = new, !.value[new] = report[b][1]]
    IN  /\ report[b] # <<>> /\ Goes(b, "report", "push_last")
        /\ queue' = IF q.stqh_last = Anchor THEN [q EXCEPT !.stqh_first = new]
                                            ELSE [q EXCEPT !.next[q.stqh_last] = new]
        /\ entry' = [entry EXCEPT ![b] = new]
        /\ report' = [report EXCEPT ![b] = NotYetPushed(b)] /\ UNCHANGED field

\* ... and lets stqh_last point to the entry's next.
PushSetLast(b) ==
    /\ Goes(b, "push_last", "report") /\ queue' = [queue EXCEPT !.stqh_last = entry[b]]
    /\ entry' = [entry EXCEPT ![b] = NULL] /\ UNCHANGED <<field, report>>

ReportDone(b) ==
    /\ report[b] = <<>> /\ Goes(b, "report", "unlock_field")
    /\ UNCHANGED <<queue, field, entry, report>>

UnlockField(b) ==
    /\ Goes(b, "unlock_field", "barrier1") /\ field_mutex' = Nobody
    /\ UNCHANGED <<queue, has_nectar, number_collected_flowers, entry, report>>

-----------------------------------------------------------------------------
(* thread_func: the barriers and the bear. *)

BearFrame == UNCHANGED <<queue, queue_mutex, field, locals, mpc>>
Barriers  == {"barrier1", "barrier2"}

\* Mutant of AfterFirst: without the second barrier.
NextRound == "check"

AfterFirst == "barrier2"

\* The barrier counts its callers, whichever of the two calls they make.
BarrierOpens ==
    /\ \A b \in Bees : pc[b] \in Barriers
    /\ \E serial \in Bees :
         pc' = [b \in Bees |-> CASE pc[b] = "barrier2" -> "check"
                                 [] pc[b] = "barrier1" /\ b = serial -> "bear"
                                 [] OTHER -> AfterFirst]
    /\ UNCHANGED flags

\* No bear, or one that is repelled.
NoBear(b) == Goes(b, "bear", "barrier2") /\ UNCHANGED flags

\* Mutant of BearTerminates: it leaves must_terminate to main.
LeftToMain == must_terminate

BearTerminates == TRUE

BearWins(b) ==
    Goes(b, "bear", "destroy") /\ must_terminate' = BearTerminates /\ UNCHANGED beehive_destroyed

Destroy(b) == Goes(b, "destroy", "barrier2") /\ beehive_destroyed' = TRUE /\ UNCHANGED must_terminate

-----------------------------------------------------------------------------
MainStep == MainFrame /\ (SpawnBee \/ SpinEnds \/ StoreTerminate \/ JoinAll)

Bee(b) ==
    /\ mpc # "failed"
    /\ \/ QueueFrame /\ (\/ CheckTerminate(b) \/ LockQueue(b) \/ StayInHive(b) \/ PopFirst(b)
                         \/ PopReadNext(b) \/ PopSetFirst(b) \/ PopSetLast(b) \/ UnlockQueue(b))
       \/ FieldFrame /\ (\/ LockField(b) \/ AlreadyHarvested(b) \/ Harvest(b) \/ PushLink(b)
                         \/ PushSetLast(b) \/ ReportDone(b) \/ UnlockField(b))
       \/ BearFrame /\ (NoBear(b) \/ BearWins(b) \/ Destroy(b))

Barrier == mpc # "failed" /\ BearFrame /\ BarrierOpens

Next == MainStep \/ (MainFrame /\ SpawnFails) \/ Barrier \/ \E b \in Bees : Bee(b)

(***************************************************************************)
(* Every thread is scheduled.  Weak fairness is enough for the mutexes:    *)
(* between two barriers a bee takes each of them once.  Nothing is said    *)
(* about the bear.                                                         *)
(***************************************************************************)
Fairness == /\ WF_vars(MainStep) /\ WF_vars(Barrier)
            /\ \A b \in Bees : WF_vars(Bee(b))

Spec == Init /\ [][Next]_vars /\ Fairness

-----------------------------------------------------------------------------
(* Properties. *)

Ends == {"exit", "failed"}

MainPcs == {"spawn", "spin", "store", "join"} \cup Ends
BeePcs  == Barriers \cup {"new", "check", "lock_queue", "test", "pop_next", "pop_first",
                          "pop_last", "unlock_queue", "lock_field", "harvest", "report",
                          "push_last", "unlock_field", "bear", "destroy", "done"}
Queues  == [stqh_first : Entries \cup {NULL}, stqh_last : Entries \cup {Anchor},
            allocated : Entries, next : [Entries -> Entries \cup {NULL}],
            value : [Entries -> Positions]]

\* Every variable has its type: the queue's fields, bee_data and the locals.
TypeOK ==
    /\ queue \in Queues
    /\ queue_mutex \in Bees \cup {Nobody} /\ field_mutex \in Bees \cup {Nobody}
    /\ has_nectar \in [Positions -> BOOLEAN]
    /\ must_terminate \in BOOLEAN /\ beehive_destroyed \in BOOLEAN
    /\ number_collected_flowers \in 0..number_flowers
    /\ pc \in [Bees -> BeePcs]
    /\ entry \in [Bees -> Entries \cup {NULL}]
    /\ successor \in [Bees -> Entries \cup {NULL}]
    /\ pos \in [Bees -> Positions]
    /\ report \in [Bees -> Seq(Positions)]
    /\ mpc \in MainPcs

\* "Each flower in the field can be harvested exactly once" (exercise11/README.md:75),
\* also when several bees fly to it: the number of collected flowers is the number
\* of flowers without nectar (beehive.c:149-159).
HarvestedOnce ==
    number_collected_flowers = Cardinality({p \in Positions : ~has_nectar[p]})

\* Bees "wait for each other" (exercise11/README.md:90): when the barrier opens all of
\* them wait at the same call, and no bee is working while another is at the bear
\* or has a round's second barrier before it (beehive.c:161-167).
WaitForEachOther ==
    \A b, c \in Bees :
        /\ (\A d \in Bees : pc[d] \in Barriers) => pc[b] = pc[c]
        /\ pc[b] \in {"bear", "destroy"} => b = c \/ pc[c] = "barrier2"

\* The summary at the end is about a finished simulation: no bee is running, and
\* all flowers were collected or the hive is destroyed (beehive.c:239-258).
SummaryIsFinal ==
    mpc = "exit" => /\ \A b \in Bees : pc[b] = "done"
                    /\ beehive_destroyed \/ number_collected_flowers = number_flowers

\* A bear that destroys the hive ends the program: the flag set between the two
\* barriers is seen by every bee in the same round (beehive.c:133, 161-167).
DestroyedEnds == beehive_destroyed ~> (mpc \in Ends)

\* "The program terminates once nectar from all flowers has been collected"
\* (exercise11/README.md:86); must_terminate is stored at any time (beehive.c:242).
TerminatesOnceCollected ==
    (number_collected_flowers = number_flowers) ~> (mpc \in Ends)

\* "All discovered harvestable flowers are added to the queue"
\* (exercise11/README.md:82): when nobody holds a mutex, a flower with nectar that
\* is next to a harvested one is in the queue or a bee is on its way to it.
QueueEntry[k \in 1..MaxEntries] ==
    IF k = 1 THEN queue.stqh_first
    ELSE IF QueueEntry[k - 1] = NULL THEN NULL ELSE queue.next[QueueEntry[k - 1]]
InQueue == {queue.value[e] : e \in {QueueEntry[k] : k \in 1..MaxEntries} \ {NULL}}
ReportsNotLost ==
    queue_mutex = Nobody /\ field_mutex = Nobody =>
        \A p \in Positions :
            has_nectar[p] /\ (\E q \in Positions : ~has_nectar[q] /\
                                \E i \in DOMAIN Neighbours(q) : Neighbours(q)[i] = p)
            => p \in InQueue \cup {pos[b] : b \in {c \in Bees : pc[c] = "lock_field"}}
=============================================================================
