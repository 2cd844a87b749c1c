--------------------------- MODULE Beehive_proofs ---------------------------
(***************************************************************************)
(* The theorems about Beehive (exercise11/task3), for a field of any size  *)
(* and any number of bees: types (which bound what is allocated), that no  *)
(* flower is counted twice, that the bees go through the barriers          *)
(* together, and that the summary is about a finished simulation.          *)
(***************************************************************************)
EXTENDS Beehive, FiniteSetTheorems, SequenceTheorems, TLAPS

USE DEF CanHarvest, NotYetPushed, AfterFirst, BearTerminates

-----------------------------------------------------------------------------
(* The field: calculate_positions never leaves it. *)

LEMMA FieldSize == number_flowers \in Nat \ {0} /\ Positions = 0..(number_flowers - 1)
<1>1. \A a, b \in Nat \ {0} : a * b \in Nat \ {0}
  OBVIOUS
<1>2. QED
  BY <1>1, BeehiveAssumption DEF number_flowers, Positions

\* The last flower is the last one of its row.
LEMMA LastFlower == (number_flowers - 1) % width = width - 1
<1> DEFINE w == width
           h == height
           q == (w * h - 1) \div w
           r == (w * h - 1) % w
<1>1. w \in Nat \ {0} /\ h \in Nat \ {0}
  BY BeehiveAssumption
<1>2. w * h - 1 \in Int
  BY <1>1
<1>3. q \in Int /\ r \in 0..(w - 1) /\ w * h - 1 = w * q + r
  <2>1. \A a \in Int, b \in Nat \ {0} :
           a \div b \in Int /\ a % b \in 0..(b - 1) /\ a = b * (a \div b) + (a % b)
    OBVIOUS
  <2>2. QED
    BY <1>1, <1>2, <2>1
<1> HIDE DEF q, r
<1>4. \A a \in Nat \ {0}, t \in Int : (t >= 1 => a * t >= a) /\ (t <= -1 => a * t <= -a)
  OBVIOUS
<1>5. w * (h - q) = r + 1
  <2>1. \A a, b, c \in Int : a * (b - c) = a * b - a * c
    OBVIOUS
  <2>2. w * (h - q) = w * h - w * q /\ w * h \in Int /\ w * q \in Int
    BY <1>1, <1>3, <2>1
  <2>3. QED
    BY <1>3, <2>2
<1>6. h - q >= 1
  BY <1>1, <1>3, <1>4, <1>5
<1>7. w * (h - q) >= w
  BY <1>1, <1>3, <1>4, <1>6
<1>8. r = w - 1
  BY <1>1, <1>3, <1>5, <1>7
<1>9. QED
  BY <1>8 DEF r, number_flowers

\* What a bee reports lies in the field and is at most four positions.
LEMMA ReportsInField ==
    ASSUME NEW p \in Positions, NEW nectar \in [Positions -> BOOLEAN]
    PROVE  WithNectar(p, nectar) \in Seq(Positions) /\ Len(WithNectar(p, nectar)) <= 4
<1> DEFINE Part(c, q) == IF c THEN <<q>> ELSE <<>>
           top    == Part(p >= width /\ nectar[p - width], p - width)
           bottom == Part(p + width < width * height /\ nectar[p + width], p + width)
           left   == Part(p % width > 0 /\ nectar[p - 1], p - 1)
           right  == Part(p % width < width - 1 /\ nectar[p + 1], p + 1)
<1>1. /\ width \in Nat \ {0} /\ p \in 0..(number_flowers - 1) /\ number_flowers \in Nat
      /\ Positions = 0..(number_flowers - 1) /\ width * height = number_flowers
  BY FieldSize, BeehiveAssumption DEF number_flowers
<1>2. ASSUME NEW c, NEW q, c => q \in Positions
      PROVE  Part(c, q) \in Seq(Positions) /\ Len(Part(c, q)) \in 0..1
  BY <1>2
<1>3. p >= width => p - width \in Positions
  BY <1>1
<1>4. p + width < width * height => p + width \in Positions
  BY <1>1
<1>5. p % width > 0 => p - 1 \in Positions
  <2>1. 0 % width = 0
    BY <1>1
  <2>2. QED
    BY <1>1, <2>1
<1>6. p % width < width - 1 => p + 1 \in Positions
  BY <1>1, LastFlower
<1> HIDE DEF Part
<1>7. /\ top \in Seq(Positions) /\ Len(top) \in 0..1
      /\ bottom \in Seq(Positions) /\ Len(bottom) \in 0..1
      /\ left \in Seq(Positions) /\ Len(left) \in 0..1
      /\ right \in Seq(Positions) /\ Len(right) \in 0..1
  BY <1>2, <1>3, <1>4, <1>5, <1>6
<1>8. WithNectar(p, nectar) = top \o bottom \o left \o right
  BY DEF WithNectar, Part
<1> HIDE DEF top, bottom, left, right
<1>9. top \o bottom \in Seq(Positions) /\ Len(top \o bottom) \in 0..2
  BY <1>7, ConcatProperties
<1>10. top \o bottom \o left \in Seq(Positions) /\ Len(top \o bottom \o left) \in 0..3
  BY <1>7, <1>9, ConcatProperties
<1>11. QED
  BY <1>7, <1>8, <1>10, ConcatProperties

-----------------------------------------------------------------------------
(* The inductive invariant. *)

\* The variables that are not typed by counting.
Typed == /\ queue_mutex \in Bees \cup {Nobody} /\ field_mutex \in Bees \cup {Nobody}
         /\ has_nectar \in [Positions -> BOOLEAN]
         /\ must_terminate \in BOOLEAN /\ beehive_destroyed \in BOOLEAN
         /\ number_collected_flowers \in Nat
         /\ pc \in [Bees -> BeePcs]
         /\ entry \in [Bees -> Entries \cup {NULL}]
         /\ successor \in [Bees -> Entries \cup {NULL}]
         /\ pos \in [Bees -> Positions]
         /\ report \in [Bees -> Seq(Positions)]
         /\ mpc \in MainPcs
         /\ queue \in Queues

\* The field is used by one bee at a time.
InField    == {"harvest", "report", "push_last", "unlock_field"}
FieldOwner == \A b \in Bees : pc[b] \in InField => field_mutex = b

\* A bee has an entry in hand while it pops or pushes one.
InHand == \A b \in Bees : pc[b] \in {"pop_next", "push_last"} => entry[b] \in Entries

\* Each collected flower has room for the four entries it may report.
Room == \A b \in Bees :
           /\ report[b] # <<>> => pc[b] \in {"report", "push_last"}
           /\ queue.allocated + Len(report[b]) <= 1 + 4 * number_collected_flowers

\* Either no bee is past the first barrier, or all are and at most one is at the bear.
AfterBarrier == {"bear", "destroy", "barrier2"}
Phases == \/ \A b \in Bees : pc[b] \notin AfterBarrier
          \/ /\ \A b \in Bees : pc[b] \in AfterBarrier
             /\ \A b, c \in Bees : pc[b] # "barrier2" /\ pc[c] # "barrier2" => b = c

\* Main goes on only when the flowers or the bees are at their end.
MainInv == /\ mpc \in {"store", "join", "exit"} =>
                 number_collected_flowers >= number_flowers \/ beehive_destroyed
           /\ mpc = "exit" => \A b \in Bees : pc[b] = "done"

IInv == Typed /\ FieldOwner /\ InHand /\ Room /\ HarvestedOnce /\ Phases /\ MainInv

\* No more flowers are collected than there are.
LEMMA CollectedBound ==
    ASSUME Typed, HarvestedOnce PROVE number_collected_flowers \in 0..number_flowers
<1> DEFINE Gone == {p \in Positions : ~has_nectar[p]}
<1>1. IsFiniteSet(Positions) /\ Cardinality(Positions) = number_flowers
  BY FieldSize, FS_Interval
<1>2. Gone \in SUBSET Positions
  OBVIOUS
<1>3. IsFiniteSet(Gone) /\ Cardinality(Gone) <= Cardinality(Positions)
  BY <1>1, <1>2, FS_Subset
<1>4. Cardinality(Gone) \in Nat
  BY <1>3, FS_CardinalityType
<1>5. QED
  BY <1>1, <1>3, <1>4, FieldSize DEF HarvestedOnce

LEMMA EntriesSize == MaxEntries = 1 + 4 * number_flowers /\ MaxEntries \in Nat
  BY FieldSize DEF MaxEntries

LEMMA Initially == Init => IInv
<1> SUFFICES ASSUME Init PROVE IInv
  OBVIOUS
<1>1. 1 \in Entries
  BY EntriesSize, FieldSize DEF Entries
<1>2. (height * width) \div 2 \in Positions
  <2>1. height * width = number_flowers
    <3>1. \A a, b \in Nat : a * b = b * a
      OBVIOUS
    <3>2. QED
      BY <3>1, BeehiveAssumption DEF number_flowers
  <2>2. QED
    BY <2>1, FieldSize
<1>3. 0 \in Positions
  BY FieldSize
<1>4. queue \in Queues
  BY <1>1, <1>2, <1>3 DEF Init, Queues
<1>5. Typed
  <2>1. report \in [Bees -> Seq(Positions)]
    <3>1. <<>> \in Seq(Positions)
      OBVIOUS
    <3>2. QED
      BY <3>1 DEF Init
  <2>2. /\ has_nectar \in [Positions -> BOOLEAN] /\ pos \in [Bees -> Positions]
        /\ pc \in [Bees -> BeePcs] /\ mpc \in MainPcs
    BY <1>3 DEF Init, BeePcs, MainPcs
  <2>3. QED
    BY <1>4, <2>1, <2>2 DEF Init, Typed
<1>6. FieldOwner /\ InHand /\ Room /\ Phases /\ MainInv
  BY DEF Init, FieldOwner, InField, InHand, Room, Phases, AfterBarrier, MainInv
<1>7. HarvestedOnce
  <2>1. {p \in Positions : ~has_nectar[p]} = {} /\ number_collected_flowers = 0
    BY DEF Init
  <2>2. QED
    BY <2>1, FS_EmptySet DEF HarvestedOnce
<1>8. QED
  BY <1>5, <1>6, <1>7 DEF IInv

-----------------------------------------------------------------------------
(* The steps of main and the barrier. *)

\* What leaves the field and the reports alone.
LEMMA FieldKept ==
    ASSUME HarvestedOnce, UNCHANGED <<has_nectar, number_collected_flowers>>
    PROVE  HarvestedOnce'
BY DEF HarvestedOnce

LEMMA MainSteps == ASSUME IInv, MainStep \/ (MainFrame /\ SpawnFails) PROVE IInv'
<1>a. Typed /\ FieldOwner /\ InHand /\ Room /\ HarvestedOnce /\ Phases /\ MainInv
  BY DEF IInv
<1>1. UNCHANGED <<queue, queue_mutex, field_mutex, has_nectar, number_collected_flowers,
                  beehive_destroyed, entry, successor, pos, report>>
  BY DEF MainStep, MainFrame, field, locals
<1>2. /\ mpc' \in MainPcs /\ must_terminate' \in BOOLEAN
      /\ pc' \in [Bees -> BeePcs]
      /\ \A b \in Bees : pc'[b] = pc[b] \/ (pc[b] = "new" /\ pc'[b] = "check" /\ mpc' # "exit")
      /\ mpc' = "exit" => \A b \in Bees : pc'[b] = "done"
      /\ mpc' \in {"store", "join", "exit"} =>
            \/ mpc \in {"store", "join", "exit"}
            \/ number_collected_flowers >= number_flowers \/ beehive_destroyed
  BY <1>a DEF MainStep, SpawnBee, SpawnFails, SpinEnds, StoreTerminate, JoinAll, MainGoes,
              Target, Typed, MainPcs, Ends, BeePcs
<1>3. Typed'
  BY <1>a, <1>1, <1>2 DEF Typed
<1>4. FieldOwner' /\ InHand' /\ Room'
  BY <1>a, <1>1, <1>2 DEF FieldOwner, InField, InHand, Room
<1>5. Phases'
  BY <1>a, <1>2 DEF Phases, AfterBarrier
<1>6. MainInv'
  BY <1>a, <1>1, <1>2 DEF MainInv
<1>7. QED
  BY <1>a, <1>1, <1>3, <1>4, <1>5, <1>6, FieldKept DEF IInv

\* The barrier opens: all bees go on to the same half of the round.
LEMMA BarrierStep == ASSUME IInv, Barrier PROVE IInv'
<1>a. Typed /\ FieldOwner /\ InHand /\ Room /\ HarvestedOnce /\ Phases /\ MainInv
  BY DEF IInv
<1>1. UNCHANGED <<queue, queue_mutex, field_mutex, has_nectar, number_collected_flowers,
                  must_terminate, beehive_destroyed, entry, successor, pos, report, mpc>>
  BY DEF Barrier, BearFrame, BarrierOpens, field, locals, flags
<1>2. PICK serial \in Bees :
         pc' = [b \in Bees |-> CASE pc[b] = "barrier2" -> "check"
                                 [] pc[b] = "barrier1" /\ b = serial -> "bear"
                                 [] OTHER -> "barrier2"]
  BY DEF Barrier, BarrierOpens
<1>3. \A b \in Bees : pc[b] \in {"barrier1", "barrier2"}
  BY DEF Barrier, BarrierOpens, Barriers
<1>4. \/ /\ \A b \in Bees : pc[b] = "barrier1"
         /\ \A b \in Bees : pc'[b] = IF b = serial THEN "bear" ELSE "barrier2"
      \/ \A b \in Bees : pc[b] = "barrier2" /\ pc'[b] = "check"
  BY <1>a, <1>2, <1>3 DEF Phases, AfterBarrier
<1>5. Typed'
  <2>1. pc' \in [Bees -> BeePcs]
    BY <1>2 DEF BeePcs, Barriers
  <2>2. QED
    BY <1>a, <1>1, <2>1 DEF Typed
<1>6. FieldOwner' /\ InHand' /\ Room'
  BY <1>a, <1>1, <1>3, <1>4 DEF FieldOwner, InField, InHand, Room
<1>7. Phases'
  BY <1>4 DEF Phases, AfterBarrier
<1>8. MainInv'
  BY <1>a, <1>1, <1>3, BeehiveAssumption DEF MainInv
<1>9. QED
  BY <1>a, <1>1, <1>5, <1>6, <1>7, <1>8, FieldKept DEF IInv

-----------------------------------------------------------------------------
(* The steps of a bee on the queue. *)

AtQueue == {"check", "lock_queue", "test", "pop_next", "pop_first", "pop_last", "unlock_queue"}

\* A bee outside the field goes on to a place outside it, before the barrier.
LEMMA QueueGoOn ==
    ASSUME IInv, NEW b \in Bees, QueueFrame, pc[b] \in AtQueue,
           NEW to \in (AtQueue \ {"check"}) \cup {"done", "barrier1", "lock_field"},
           pc' = [pc EXCEPT ![b] = to],
           queue' \in Queues, queue'.allocated = queue.allocated,
           queue_mutex' \in Bees \cup {Nobody},
           NEW e \in Entries \cup {NULL}, entry' = [entry EXCEPT ![b] = e],
           to = "pop_next" => e \in Entries,
           successor' \in [Bees -> Entries \cup {NULL}], pos' \in [Bees -> Positions]
    PROVE  IInv'
<1>a. Typed /\ FieldOwner /\ InHand /\ Room /\ HarvestedOnce /\ Phases /\ MainInv
  BY DEF IInv
<1>1. UNCHANGED <<field_mutex, has_nectar, number_collected_flowers, must_terminate,
                  beehive_destroyed, report, mpc>>
  BY DEF QueueFrame, field, flags
<1>2. to \in BeePcs /\ to \notin InField /\ to \notin AfterBarrier /\ to # "push_last"
  BY DEF AtQueue, BeePcs, Barriers, InField, AfterBarrier
<1>3. pc[b] \notin InField /\ pc[b] \notin AfterBarrier /\ pc[b] # "done"
  BY DEF AtQueue, InField, AfterBarrier
<1>4. Typed'
  BY <1>a, <1>1, <1>2 DEF Typed
<1>5. FieldOwner' /\ InHand'
  BY <1>a, <1>1, <1>2 DEF FieldOwner, InHand, Typed
<1>6. Room'
  BY <1>a, <1>1, <1>3 DEF Room, Typed, InField
<1>7. Phases'
  BY <1>a, <1>2, <1>3 DEF Phases, Typed
<1>8. MainInv'
  BY <1>a, <1>1, <1>3 DEF MainInv
<1>9. QED
  BY <1>a, <1>1, <1>4, <1>5, <1>6, <1>7, <1>8, FieldKept DEF IInv

LEMMA QueueSteps ==
    ASSUME IInv, NEW b \in Bees, QueueFrame,
           \/ CheckTerminate(b) \/ LockQueue(b) \/ StayInHive(b) \/ PopFirst(b)
           \/ PopReadNext(b) \/ PopSetFirst(b) \/ PopSetLast(b) \/ UnlockQueue(b)
    PROVE  IInv'
<1>a. Typed /\ InHand
  BY DEF IInv
<1>b. /\ queue \in Queues /\ queue_mutex \in Bees \cup {Nobody}
      /\ entry \in [Bees -> Entries \cup {NULL}] /\ entry[b] \in Entries \cup {NULL}
      /\ entry = [entry EXCEPT ![b] = entry[b]]
      /\ successor \in [Bees -> Entries \cup {NULL}] /\ pos \in [Bees -> Positions]
  BY <1>a DEF Typed
<1>1. CASE CheckTerminate(b)
  <2>1. PICK to \in {"done", "lock_queue"} : pc' = [pc EXCEPT ![b] = to]
    BY <1>1 DEF CheckTerminate, Goes
  <2>2. /\ pc[b] \in AtQueue /\ to \in (AtQueue \ {"check"}) \cup {"done", "barrier1", "lock_field"}
        /\ to # "pop_next" /\ UNCHANGED <<queue, queue_mutex, entry, successor, pos>>
    BY <1>1 DEF CheckTerminate, Goes, AtQueue
  <2>3. QED
    BY <1>b, <2>1, <2>2, QueueGoOn
<1>2. CASE LockQueue(b) \/ StayInHive(b)
  <2>1. PICK to \in {"test", "barrier1"} : pc' = [pc EXCEPT ![b] = to]
    BY <1>2 DEF LockQueue, StayInHive, Goes
  <2>2. /\ pc[b] \in AtQueue /\ to \in (AtQueue \ {"check"}) \cup {"done", "barrier1", "lock_field"}
        /\ to # "pop_next" /\ UNCHANGED <<queue, entry, successor, pos>>
        /\ queue_mutex' \in Bees \cup {Nobody}
    BY <1>2 DEF LockQueue, StayInHive, Goes, AtQueue
  <2>3. QED
    BY <1>b, <2>1, <2>2, QueueGoOn
<1>3. CASE PopFirst(b)
  <2>1. queue.stqh_first \in Entries /\ queue.value[queue.stqh_first] \in Positions
    BY <1>b, <1>3 DEF PopFirst, Queues
  <2>2. /\ pc[b] \in AtQueue /\ pc' = [pc EXCEPT ![b] = "pop_next"]
        /\ "pop_next" \in (AtQueue \ {"check"}) \cup {"done", "barrier1", "lock_field"}
        /\ entry' = [entry EXCEPT ![b] = queue.stqh_first]
        /\ UNCHANGED <<queue, queue_mutex, successor>>
    BY <1>3 DEF PopFirst, Goes, AtQueue
  <2>3. pos' \in [Bees -> Positions]
    BY <1>b, <1>3, <2>1 DEF PopFirst
  <2>4. QED
    BY <1>b, <2>1, <2>2, <2>3, QueueGoOn
<1>4. CASE PopReadNext(b)
  <2>1. entry[b] \in Entries
    BY <1>a, <1>4 DEF PopReadNext, Goes, InHand
  <2>2. queue.next[entry[b]] \in Entries \cup {NULL}
    BY <1>b, <2>1 DEF Queues
  <2>3. /\ pc[b] \in AtQueue /\ pc' = [pc EXCEPT ![b] = "pop_first"]
        /\ "pop_first" \in (AtQueue \ {"check"}) \cup {"done", "barrier1", "lock_field"}
        /\ UNCHANGED <<queue, queue_mutex, entry, pos>>
    BY <1>4 DEF PopReadNext, Goes, AtQueue
  <2>4. successor' \in [Bees -> Entries \cup {NULL}]
    BY <1>b, <1>4, <2>2 DEF PopReadNext
  <2>5. QED
    BY <1>b, <2>1, <2>3, <2>4, QueueGoOn
<1>5. CASE PopSetFirst(b) \/ PopSetLast(b)
  <2>1. PICK to \in {"pop_last", "unlock_queue"} : pc' = [pc EXCEPT ![b] = to]
    BY <1>5 DEF PopSetFirst, PopSetLast, Goes
  <2>2. /\ pc[b] \in AtQueue /\ to \in (AtQueue \ {"check"}) \cup {"done", "barrier1", "lock_field"}
        /\ to # "pop_next" /\ UNCHANGED <<queue_mutex, entry, successor, pos>>
    BY <1>5 DEF PopSetFirst, PopSetLast, Goes, AtQueue
  <2>3. queue' \in Queues /\ queue'.allocated = queue.allocated
    <3>1. successor[b] \in Entries \cup {NULL}
      BY <1>b
    <3>2. \/ queue' = [queue EXCEPT !.stqh_first = successor[b]]
          \/ queue' = [queue EXCEPT !.stqh_last = Anchor]
      BY <1>5 DEF PopSetFirst, PopSetLast
    <3>3. QED
      BY <1>b, <3>1, <3>2 DEF Queues
  <2>4. QED
    BY <1>b, <2>1, <2>2, <2>3, QueueGoOn
<1>6. CASE UnlockQueue(b)
  <2>1. /\ pc[b] \in AtQueue /\ pc' = [pc EXCEPT ![b] = "lock_field"]
        /\ "lock_field" \in (AtQueue \ {"check"}) \cup {"done", "barrier1", "lock_field"}
        /\ entry' = [entry EXCEPT ![b] = NULL] /\ NULL \in Entries \cup {NULL}
        /\ UNCHANGED <<queue, pos>> /\ queue_mutex' \in Bees \cup {Nobody}
    BY <1>6 DEF UnlockQueue, Goes, AtQueue
  <2>2. successor' \in [Bees -> Entries \cup {NULL}]
    BY <1>b, <1>6 DEF UnlockQueue
  <2>3. QED
    BY <1>b, <2>1, <2>2, QueueGoOn
<1>7. QED
  BY <1>1, <1>2, <1>3, <1>4, <1>5, <1>6

-----------------------------------------------------------------------------
(* The steps of a bee in the field. *)

\* What every step in the field keeps, whatever it does to the queue and the flower.
LEMMA FieldGoOn ==
    ASSUME IInv, NEW b \in Bees, FieldFrame,
           pc[b] \in InField \cup {"lock_field"}, NEW to \in InField \cup {"barrier1"},
           pc' = [pc EXCEPT ![b] = to],
           \/ pc[b] = "lock_field" /\ field_mutex = Nobody /\ field_mutex' = b
           \/ pc[b] \in InField /\ to \in InField /\ field_mutex' = field_mutex
           \/ pc[b] = "unlock_field" /\ to = "barrier1" /\ field_mutex' = Nobody,
           NEW e \in Entries \cup {NULL}, entry' = [entry EXCEPT ![b] = e],
           to = "push_last" => e \in Entries,
           number_collected_flowers' \in {number_collected_flowers, number_collected_flowers + 1}
    PROVE  FieldOwner' /\ InHand' /\ Phases' /\ MainInv' /\ pc' \in [Bees -> BeePcs]
           /\ field_mutex' \in Bees \cup {Nobody} /\ entry' \in [Bees -> Entries \cup {NULL}]
<1>a. Typed /\ FieldOwner /\ InHand /\ Phases /\ MainInv
  BY DEF IInv
<1>1. UNCHANGED <<queue_mutex, must_terminate, beehive_destroyed, successor, pos, mpc>>
  BY DEF FieldFrame, flags
<1>2. to \in BeePcs /\ to \notin AfterBarrier /\ to # "pop_next"
  BY DEF InField, BeePcs, Barriers, AfterBarrier
<1>3. pc[b] \notin AfterBarrier /\ pc[b] # "done"
  BY DEF InField, AfterBarrier
<1>4. FieldOwner'
  <2>1. \A c \in Bees : pc[c] \in InField => field_mutex = c
    BY <1>a DEF FieldOwner
  <2>2. pc \in [Bees -> BeePcs] /\ "barrier1" \notin InField /\ Nobody \notin Bees
        /\ "unlock_field" \in InField
    BY <1>a, BeehiveAssumption DEF Typed, InField
  <2>3. QED
    BY <2>1, <2>2 DEF FieldOwner
<1>5. InHand'
  BY <1>a, <1>2 DEF InHand, Typed
<1>6. Phases'
  BY <1>a, <1>2, <1>3 DEF Phases, Typed
<1>7. MainInv'
  <2>1. number_collected_flowers' >= number_collected_flowers
    BY <1>a DEF Typed
  <2>2. \A m \in Nat, l, k \in Nat : l >= m /\ k >= l => k >= m
    OBVIOUS
  <2>3. number_collected_flowers \in Nat /\ number_collected_flowers' \in Nat /\ number_flowers \in Nat
    BY <1>a, FieldSize DEF Typed
  <2>4. number_collected_flowers >= number_flowers => number_collected_flowers' >= number_flowers
    BY <2>1, <2>2, <2>3
  <2>5. mpc # "exit"
    BY <1>a, <1>3 DEF MainInv
  <2>6. QED
    BY <1>a, <1>1, <2>4, <2>5 DEF MainInv
<1>8. pc' \in [Bees -> BeePcs] /\ field_mutex' \in Bees \cup {Nobody}
      /\ entry' \in [Bees -> Entries \cup {NULL}]
  BY <1>a, <1>2 DEF Typed
<1>9. QED
  BY <1>4, <1>5, <1>6, <1>7, <1>8

\* The steps that change neither the flower nor the queue's entries.
LEMMA FieldMoves ==
    ASSUME IInv, NEW b \in Bees, FieldFrame,
           LockField(b) \/ AlreadyHarvested(b) \/ ReportDone(b) \/ UnlockField(b)
    PROVE  IInv'
<1>a. Typed /\ Room /\ HarvestedOnce
  BY DEF IInv
<1>1. UNCHANGED <<queue, has_nectar, number_collected_flowers, entry, report, queue_mutex,
                  must_terminate, beehive_destroyed, successor, pos, mpc>>
  BY DEF FieldFrame, flags, field, LockField, AlreadyHarvested, ReportDone, UnlockField
<1>2. PICK to \in InField \cup {"barrier1"} :
        /\ pc' = [pc EXCEPT ![b] = to] /\ to # "push_last"
        /\ \/ pc[b] = "lock_field" /\ field_mutex = Nobody /\ field_mutex' = b
           \/ pc[b] \in InField /\ to \in InField /\ field_mutex' = field_mutex
           \/ pc[b] = "unlock_field" /\ to = "barrier1" /\ field_mutex' = Nobody
        /\ pc[b] \in {"report", "push_last"} => report[b] = <<>>
  BY DEF LockField, AlreadyHarvested, ReportDone, UnlockField, Goes, InField, field
<1>3. pc[b] \in InField \cup {"lock_field"}
  BY <1>2 DEF InField
<1>4. entry' = [entry EXCEPT ![b] = entry[b]] /\ entry[b] \in Entries \cup {NULL}
  BY <1>a, <1>1 DEF Typed
<1>5. FieldOwner' /\ InHand' /\ Phases' /\ MainInv' /\ pc' \in [Bees -> BeePcs]
      /\ field_mutex' \in Bees \cup {Nobody}
  BY <1>1, <1>2, <1>3, <1>4, FieldGoOn
<1>6. Typed'
  BY <1>a, <1>1, <1>5 DEF Typed
<1>7. Room'
  BY <1>a, <1>1, <1>2 DEF Room, Typed
<1>8. QED
  BY <1>a, <1>1, <1>5, <1>6, <1>7, FieldKept DEF IInv

\* A flower with nectar is harvested: it counts, and what it reports has room.
LEMMA HarvestStep == ASSUME IInv, NEW b \in Bees, FieldFrame, Harvest(b) PROVE IInv'
<1>a. Typed /\ Room /\ HarvestedOnce /\ FieldOwner
  BY DEF IInv
<1> DEFINE found == WithNectar(pos[b], has_nectar)
           Gone  == {p \in Positions : ~has_nectar[p]}
<1>1. UNCHANGED <<queue, field_mutex, entry, queue_mutex, must_terminate, beehive_destroyed,
                  successor, pos, mpc>>
  BY DEF FieldFrame, flags, Harvest
<1>2. /\ pc[b] = "harvest" /\ pc' = [pc EXCEPT ![b] = "report"]
      /\ has_nectar[pos[b]] /\ pos[b] \in Positions
      /\ has_nectar' = [has_nectar EXCEPT ![pos[b]] = FALSE]
      /\ number_collected_flowers' = number_collected_flowers + 1
      /\ report' = [report EXCEPT ![b] = found]
  BY <1>a DEF Harvest, Goes, Typed
<1>3. found \in Seq(Positions) /\ Len(found) <= 4 /\ Len(found) \in Nat
  <2>1. has_nectar \in [Positions -> BOOLEAN]
    BY <1>a DEF Typed
  <2>2. found \in Seq(Positions) /\ Len(found) <= 4
    BY <1>2, <2>1, ReportsInField
  <2> HIDE DEF found
  <2>3. QED
    BY <2>2
<1> HIDE DEF found
<1>4. FieldOwner' /\ InHand' /\ Phases' /\ MainInv' /\ pc' \in [Bees -> BeePcs]
  <2>1. /\ pc[b] \in InField \cup {"lock_field"} /\ "report" \in InField \cup {"barrier1"}
        /\ pc[b] \in InField /\ "report" \in InField
    BY <1>2 DEF InField
  <2>2. entry' = [entry EXCEPT ![b] = entry[b]] /\ entry[b] \in Entries \cup {NULL}
    BY <1>a, <1>1 DEF Typed
  <2>3. number_collected_flowers' \in {number_collected_flowers, number_collected_flowers + 1}
    BY <1>2
  <2>4. field_mutex' = field_mutex /\ pc' = [pc EXCEPT ![b] = "report"]
    BY <1>1, <1>2
  <2>5. QED
    BY <2>1, <2>2, <2>3, <2>4, FieldGoOn
<1>5. Typed'
  <2>1. has_nectar' \in [Positions -> BOOLEAN]
    BY <1>a, <1>2 DEF Typed
  <2>2. report' \in [Bees -> Seq(Positions)] /\ number_collected_flowers' \in Nat
    BY <1>a, <1>2, <1>3 DEF Typed
  <2>3. QED
    BY <1>a, <1>1, <1>4, <2>1, <2>2 DEF Typed
<1>6. Room'
  <2>1. field_mutex = b
    BY <1>a, <1>2 DEF FieldOwner, InField
  <2>2. \A c \in Bees : report[c] = <<>>
    BY <1>a, <1>2, <2>1 DEF FieldOwner, InField, Room
  <2>3. queue.allocated <= 1 + 4 * number_collected_flowers /\ queue.allocated \in Int
        /\ number_collected_flowers \in Nat
    <3>1. queue.allocated \in Entries /\ number_collected_flowers \in Nat
      BY <1>a DEF Typed, Queues
    <3>2. queue.allocated + Len(report[b]) <= 1 + 4 * number_collected_flowers /\ Len(report[b]) = 0
      BY <1>a, <2>2 DEF Room
    <3>3. QED
      BY <3>1, <3>2 DEF Entries
  <2>4. \A c \in Bees : report'[c] = IF c = b THEN found ELSE <<>>
    BY <1>a, <1>2, <2>2 DEF Typed
  <2>5. \A c \in Bees : Len(report'[c]) \in 0..4
    <3>1. Len(<<>>) = 0
      OBVIOUS
    <3>2. ASSUME NEW c \in Bees PROVE Len(report'[c]) \in 0..4
      <4>1. CASE c = b
        <5>1. report'[c] = found
          BY <2>4, <4>1
        <5>2. Len(report'[c]) = Len(found)
          BY <5>1, Zenon
        <5>3. Len(found) \in 0..4
          <6>1. \A l \in Nat : l <= 4 => l \in 0..4
            OBVIOUS
          <6>2. QED
            BY <1>3, <6>1, Zenon
        <5>4. QED
          BY <5>2, <5>3, Zenon
      <4>2. CASE c # b
        BY <2>4, <3>1, <4>2
      <4>3. QED
        BY <4>1, <4>2
    <3>3. QED
      BY <3>2
  <2>6. ASSUME NEW c \in Bees
        PROVE  queue.allocated + Len(report'[c]) <= 1 + 4 * (number_collected_flowers + 1)
    <3>1. Len(report'[c]) \in 0..4
      BY <2>5
    <3>2. \A a \in Int, l \in 0..4, m \in Nat : a <= 1 + 4 * m => a + l <= 1 + 4 * (m + 1)
      OBVIOUS
    <3>3. QED
      BY <2>3, <3>1, <3>2
  <2>7. pc'[b] = "report"
    BY <1>a, <1>2 DEF Typed
  <2>8. QED
    BY <1>1, <1>2, <2>4, <2>6, <2>7 DEF Room
<1>7. HarvestedOnce'
  <2>1. IsFiniteSet(Gone)
    <3>1. IsFiniteSet(Positions) /\ Gone \in SUBSET Positions
      BY FieldSize, FS_Interval
    <3>2. QED
      BY <3>1, FS_Subset
  <2>2. Gone' = Gone \cup {pos[b]} /\ pos[b] \notin Gone
    BY <1>a, <1>2 DEF Typed
  <2>3. Cardinality(Gone') = Cardinality(Gone) + 1
    BY <2>1, <2>2, FS_AddElement
  <2>4. QED
    BY <1>a, <1>2, <2>3 DEF HarvestedOnce
<1>8. QED
  BY <1>4, <1>5, <1>6, <1>7 DEF IInv

\* A reported position gets an entry of its own, linked to the last one.
LEMMA PushLinkStep == ASSUME IInv, NEW b \in Bees, FieldFrame, PushLink(b) PROVE IInv'
<1>a. Typed /\ Room /\ HarvestedOnce
  BY DEF IInv
<1> DEFINE new == queue.allocated + 1
           q   == [queue EXCEPT !.allocated = new, !.value[new] = report[b][1]]
<1>1. UNCHANGED <<field_mutex, has_nectar, number_collected_flowers, queue_mutex,
                  must_terminate, beehive_destroyed, successor, pos, mpc>>
  BY DEF FieldFrame, flags, PushLink, field
<1>2. /\ pc[b] = "report" /\ pc' = [pc EXCEPT ![b] = "push_last"] /\ report[b] # <<>>
      /\ entry' = [entry EXCEPT ![b] = new] /\ report' = [report EXCEPT ![b] = Tail(report[b])]
      /\ queue' = IF q.stqh_last = Anchor THEN [q EXCEPT !.stqh_first = new]
                                          ELSE [q EXCEPT !.next[q.stqh_last] = new]
  BY DEF PushLink, Goes
<1>3. /\ report[b] \in Seq(Positions) /\ report[b][1] \in Positions
      /\ Tail(report[b]) \in Seq(Positions) /\ Len(Tail(report[b])) = Len(report[b]) - 1
      /\ Len(report[b]) \in Nat \ {0}
  <2>1. report[b] \in Seq(Positions)
    BY <1>a DEF Typed
  <2>2. QED
    BY <1>2, <2>1
<1>4. new \in Entries
  <2>1. number_collected_flowers \in 0..number_flowers
    BY <1>a, CollectedBound
  <2>2. queue.allocated + Len(report[b]) <= 1 + 4 * number_collected_flowers
    BY <1>a DEF Room
  <2>3. queue.allocated \in Nat \ {0}
    BY <1>a, EntriesSize DEF Typed, Queues, Entries
  <2>4. QED
    BY <1>3, <2>1, <2>2, <2>3, EntriesSize, FieldSize DEF Entries
<1>5. queue \in Queues
  BY <1>a DEF Typed
<1>6. queue' \in Queues /\ queue'.allocated = new
  <2> HIDE DEF new
  <2>1. q \in Queues /\ q.allocated = new
    BY <1>3, <1>4, <1>5 DEF Queues
  <2> HIDE DEF q
  <2>2. QED
    BY <1>2, <1>4, <2>1 DEF Queues
<1> HIDE DEF q
<1>7. FieldOwner' /\ InHand' /\ Phases' /\ MainInv' /\ pc' \in [Bees -> BeePcs]
      /\ entry' \in [Bees -> Entries \cup {NULL}]
  <2>1. /\ pc[b] \in InField \cup {"lock_field"} /\ "push_last" \in InField \cup {"barrier1"}
        /\ pc[b] \in InField /\ "push_last" \in InField
    BY <1>2 DEF InField
  <2>2. number_collected_flowers' \in {number_collected_flowers, number_collected_flowers + 1}
    BY <1>1
  <2>3. QED
    BY <1>1, <1>2, <1>4, <2>1, <2>2, FieldGoOn
<1>8. Typed'
  BY <1>a, <1>1, <1>2, <1>3, <1>6, <1>7 DEF Typed
<1>9. Room'
  <2>1. FieldOwner
    BY DEF IInv
  <2>2. \A c \in Bees \ {b} : report[c] = <<>>
    BY <1>a, <1>2, <2>1 DEF FieldOwner, InField, Room
  <2>3. \A c \in Bees : report'[c] = IF c = b THEN Tail(report[b]) ELSE <<>>
    BY <1>a, <1>2, <2>2 DEF Typed
  <2>4. /\ queue.allocated \in Int /\ number_collected_flowers \in Nat
        /\ queue.allocated + Len(report[b]) <= 1 + 4 * number_collected_flowers
    BY <1>a DEF Typed, Queues, Entries, Room
  <2>5. \A c \in Bees : new + Len(report'[c]) <= 1 + 4 * number_collected_flowers
    <3>1. Len(<<>>) = 0
      OBVIOUS
    <3>2. ASSUME NEW c \in Bees PROVE Len(report'[c]) \in {Len(report[b]) - 1, 0}
      BY <1>3, <2>3, <3>1
    <3>3. QED
      BY <1>3, <2>4, <3>2
  <2>6. pc'[b] = "push_last"
    BY <1>a, <1>2 DEF Typed
  <2>7. QED
    BY <1>1, <1>6, <2>3, <2>5, <2>6 DEF Room
<1>10. QED
  BY <1>a, <1>1, <1>7, <1>8, <1>9, FieldKept DEF IInv

\* stqh_last follows.
LEMMA PushSetLastStep == ASSUME IInv, NEW b \in Bees, FieldFrame, PushSetLast(b) PROVE IInv'
<1>a. Typed /\ Room /\ HarvestedOnce /\ InHand
  BY DEF IInv
<1>1. UNCHANGED <<field_mutex, has_nectar, number_collected_flowers, report, queue_mutex,
                  must_terminate, beehive_destroyed, successor, pos, mpc>>
  BY DEF FieldFrame, flags, PushSetLast, field
<1>2. /\ pc[b] = "push_last" /\ pc' = [pc EXCEPT ![b] = "report"]
      /\ queue' = [queue EXCEPT !.stqh_last = entry[b]] /\ entry' = [entry EXCEPT ![b] = NULL]
      /\ entry[b] \in Entries
  BY <1>a DEF PushSetLast, Goes, InHand
<1>3. queue' \in Queues /\ queue'.allocated = queue.allocated
  BY <1>a, <1>2 DEF Typed, Queues
<1>4. FieldOwner' /\ InHand' /\ Phases' /\ MainInv' /\ pc' \in [Bees -> BeePcs]
      /\ entry' \in [Bees -> Entries \cup {NULL}]
  <2>1. /\ pc[b] \in InField \cup {"lock_field"} /\ "report" \in InField \cup {"barrier1"}
        /\ pc[b] \in InField /\ "report" \in InField /\ NULL \in Entries \cup {NULL}
    BY <1>2 DEF InField
  <2>2. number_collected_flowers' \in {number_collected_flowers, number_collected_flowers + 1}
    BY <1>1
  <2>3. QED
    BY <1>1, <1>2, <2>1, <2>2, FieldGoOn
<1>5. Typed'
  BY <1>a, <1>1, <1>3, <1>4 DEF Typed
<1>6. Room'
  BY <1>a, <1>1, <1>2, <1>3 DEF Room, Typed
<1>7. QED
  BY <1>a, <1>1, <1>4, <1>5, <1>6, FieldKept DEF IInv

-----------------------------------------------------------------------------
(* The bear, and all steps together. *)

LEMMA BearSteps ==
    ASSUME IInv, NEW b \in Bees, BearFrame, NoBear(b) \/ BearWins(b) \/ Destroy(b)
    PROVE  IInv'
<1>a. Typed /\ FieldOwner /\ InHand /\ Room /\ HarvestedOnce /\ Phases /\ MainInv
  BY DEF IInv
<1>1. UNCHANGED <<queue, queue_mutex, field_mutex, has_nectar, number_collected_flowers, entry,
                  successor, pos, report, mpc>>
  BY DEF BearFrame, field, locals
<1>2. /\ must_terminate' \in {must_terminate, TRUE}
      /\ beehive_destroyed' \in {beehive_destroyed, TRUE}
  BY DEF NoBear, BearWins, Destroy, flags
<1>3. PICK to \in {"barrier2", "destroy"} :
        /\ pc' = [pc EXCEPT ![b] = to] /\ pc[b] \in {"bear", "destroy"}
  BY DEF NoBear, BearWins, Destroy, Goes
<1>4. Typed'
  BY <1>a, <1>1, <1>2, <1>3 DEF Typed, BeePcs, Barriers
<1>5. FieldOwner' /\ InHand' /\ Room'
  BY <1>a, <1>1, <1>3 DEF FieldOwner, InField, InHand, Room, Typed
<1>6. Phases'
  BY <1>a, <1>3 DEF Phases, AfterBarrier, Typed
<1>7. MainInv'
  <2>1. beehive_destroyed => beehive_destroyed'
    BY <1>2, Zenon
  <2>2. mpc # "exit" /\ mpc' = mpc /\ number_collected_flowers' = number_collected_flowers
    BY <1>a, <1>1, <1>3 DEF MainInv
  <2>3. QED
    BY <1>a, <2>1, <2>2 DEF MainInv
<1>8. QED
  BY <1>a, <1>1, <1>4, <1>5, <1>6, <1>7, FieldKept DEF IInv

LEMMA Preserved == ASSUME IInv, [Next]_vars PROVE IInv'
<1>1. ASSUME NEW b \in Bees, Bee(b) PROVE IInv'
  BY <1>1, QueueSteps, FieldMoves, HarvestStep, PushLinkStep, PushSetLastStep, BearSteps DEF Bee
<1>2. CASE UNCHANGED vars
  <2>1. UNCHANGED <<queue, queue_mutex, field_mutex, has_nectar, number_collected_flowers,
                    must_terminate, beehive_destroyed, pc, entry, successor, pos, report, mpc>>
    BY <1>2 DEF vars, field, flags, locals
  <2>2. QED
    BY <2>1, FieldKept DEF IInv, Typed, FieldOwner, InHand, Room, Phases, MainInv
<1>3. QED
  BY <1>1, <1>2, MainSteps, BarrierStep DEF Next

THEOREM Invariance == Spec => []IInv
<1>1. IInv /\ [Next]_vars => IInv'
  BY Preserved
<1>2. QED
  BY <1>1, Initially, PTL DEF Spec

-----------------------------------------------------------------------------
(* The theorems. *)

\* The queue, bee_data and the locals keep their types; in particular each position a
\* bee flies to lies in the field, and no more entries are allocated than the
\* flowers have neighbours (beehive.c:57-86, 145-154).
THEOREM TypeCorrect == Spec => []TypeOK
<1>1. IInv => TypeOK
  BY CollectedBound DEF IInv, Typed, TypeOK
<1>2. QED
  BY <1>1, Invariance, PTL

\* The number of collected flowers is the number of flowers without nectar: no flower
\* is counted twice (beehive.c:149-159).
THEOREM NoFlowerTwice == Spec => []HarvestedOnce
<1>1. IInv => HarvestedOnce
  BY DEF IInv
<1>2. QED
  BY <1>1, Invariance, PTL

\* When the barrier opens, all bees are at the same of its two calls, and nobody works
\* while one bee is at the bear (beehive.c:161-167).
THEOREM RoundsTogether == Spec => []WaitForEachOther
<1>1. IInv => WaitForEachOther
  <2>1. SUFFICES ASSUME IInv, NEW b \in Bees, NEW c \in Bees
                 PROVE  /\ (\A d \in Bees : pc[d] \in Barriers) => pc[b] = pc[c]
                        /\ pc[b] \in {"bear", "destroy"} => b = c \/ pc[c] = "barrier2"
    BY DEF WaitForEachOther
  <2>2. QED
    BY <2>1 DEF IInv, Phases, AfterBarrier, Barriers
<1>2. QED
  BY <1>1, Invariance, PTL

\* When main has returned no bee is running, and all flowers have been collected or the
\* hive is destroyed (beehive.c:239-258).
THEOREM FinishedSimulation == Spec => []SummaryIsFinal
<1>1. IInv => SummaryIsFinal
  <2>1. SUFFICES ASSUME IInv, mpc = "exit"
                 PROVE  /\ \A b \in Bees : pc[b] = "done"
                        /\ beehive_destroyed \/ number_collected_flowers = number_flowers
    BY DEF SummaryIsFinal
  <2>2. number_collected_flowers \in 0..number_flowers
    BY <2>1, CollectedBound DEF IInv
  <2>3. QED
    BY <2>1, <2>2, FieldSize DEF IInv, MainInv
<1>2. QED
  BY <1>1, Invariance, PTL
=============================================================================
