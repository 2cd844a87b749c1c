--------------------------- MODULE Mutexes_proofs ---------------------------
(***************************************************************************)
(* The theorems about programs whose threads only use mutexes.  The        *)
(* counter (exercise06/task1) with a mutex implements the one with an      *)
(* atomic counter, for every set of threads, number of iterations and      *)
(* modulus, and both print the sum of all additions.  The philosophers     *)
(* (exercise07/task2) do not deadlock, for every number of them from two   *)
(* on and every number of iterations.  The linked list of myqueue.h, with  *)
(* a mutex, implements an atomic queue, for all threads and values and any *)
(* number of addresses that malloc uses again and again.                   *)
(***************************************************************************)
EXTENDS CounterMutex, Philosophers, MyQueue, FiniteSetTheorems, WellFoundedInduction, TLAPS

-----------------------------------------------------------------------------
(* The counter with a mutex. *)

\* A thread in an iteration is the only one that has locked the mutex, and what it
\* has loaded is still the counter.
Holds == \A t \in Threads :
            /\ at[t] # "lock" => owner = {t}
            /\ at[t] \in {"load", "store"} => i[t] \in 0..(ITERATIONS - 1)
            /\ at[t] = "store" => loaded[t] = counter

CounterInv == MutexTypeOK /\ Holds

LEMMA CounterInitially == MutexInit => CounterInv
  BY CounterAssumption DEF MutexInit, CountInit, CounterInv, MutexTypeOK, Holds

\* An addition modulo Modulus is again a value of the counter.
LEMMA PlusInRange ==
  ASSUME NEW c \in 0..(Modulus - 1), NEW k \in Int
  PROVE  Plus(c, k) \in 0..(Modulus - 1)
  <1>1. (IF k % 2 = 0 THEN EVEN_INCREASE ELSE ODD_INCREASE) \in Int
    BY DEF EVEN_INCREASE, ODD_INCREASE
  <1>. DEFINE s == c + IF k % 2 = 0 THEN EVEN_INCREASE ELSE ODD_INCREASE
  <1>2. s \in Int
    BY <1>1, CounterAssumption
  <1>3. s % Modulus \in 0..(Modulus - 1)
    <2>. HIDE DEF s
    <2>. QED  BY <1>2, CounterAssumption
  <1>. QED  BY <1>3 DEF Plus

LEMMA CounterMainStep ==
  ASSUME CounterInv, MutexMain
  PROVE  CounterInv'
  <1>1. CASE PrintCounter
    BY <1>1, CounterAssumption
       DEF CounterInv, MutexTypeOK, Holds, MutexMain, PrintCounter
  <1>2. ASSUME NEW t \in Threads, CreateThread(t)  PROVE CounterInv'
    BY <1>2, CounterAssumption
       DEF CounterInv, MutexTypeOK, Holds, MutexMain, CreateThread
  <1>3. ASSUME NEW t \in Threads, CreateFails(t)  PROVE CounterInv'
    BY <1>3, CounterAssumption
       DEF CounterInv, MutexTypeOK, Holds, MutexMain, CreateFails
  <1>. QED  BY <1>1, <1>2, <1>3 DEF MutexMain

LEMMA CounterThreadStep ==
  ASSUME CounterInv, NEW t \in Threads, MutexThread(t)
  PROVE  CounterInv'
  <1>. USE DEF CounterInv, MutexTypeOK, Holds, count_vars
  <1>1. CASE LockCounter(t)
    BY <1>1 DEF LockCounter, MutexFree
  <1>2. CASE Load(t)
    BY <1>2 DEF Load
  <1>3. CASE Store(t)
    <2>1. counter' \in 0..(Modulus - 1)
      BY <1>3, PlusInRange DEF Store
    <2>2. i' \in [Threads -> -1..ITERATIONS]
      BY <1>3, CounterAssumption DEF Store
    <2>3. Holds'
      BY <1>3 DEF Store
    <2>. QED  BY <1>3, <2>1, <2>2, <2>3 DEF Store
  <1>4. CASE UnlockCounter(t)
    BY <1>4 DEF UnlockCounter
  <1>. QED  BY <1>1, <1>2, <1>3, <1>4 DEF MutexThread

\* CounterInv is an invariant of the program.
THEOREM CounterInvariance == MutexSpec => []CounterInv
  <1>1. CounterInv /\ [MutexNext]_mutex_vars => CounterInv'
    <2>. SUFFICES ASSUME CounterInv, [MutexNext]_mutex_vars  PROVE CounterInv'
      OBVIOUS
    <2>1. CASE UNCHANGED mutex_vars
      BY <2>1 DEF mutex_vars, count_vars, CounterInv, MutexTypeOK, Holds
    <2>. QED  BY <2>1, CounterMainStep, CounterThreadStep DEF MutexNext
  <1>. QED  BY <1>1, CounterInitially, PTL DEF MutexSpec

\* The types of the variables of exercise06/task1/task1_mutex.c.
THEOREM CounterTypeCorrect == MutexSpec => []MutexTypeOK
  BY CounterInvariance, PTL DEF CounterInv

\* Line 47 is a FetchAdd; what else a thread does is not seen, and main does the same.
LEMMA CounterStep ==
  ASSUME CounterInv, [MutexNext]_mutex_vars
  PROVE  [CountNext]_count_vars
  <1>1. CASE UNCHANGED mutex_vars
    BY <1>1 DEF mutex_vars
  <1>2. CASE MutexMain
    BY <1>2 DEF MutexMain, CountNext
  <1>3. ASSUME NEW t \in Threads, Store(t)  PROVE FetchAdd(t)
    BY <1>3 DEF Store, FetchAdd, CounterInv, Holds
  <1>4. ASSUME NEW t \in Threads, LockCounter(t) \/ Load(t) \/ UnlockCounter(t)
        PROVE  UNCHANGED count_vars
    BY <1>4 DEF LockCounter, Load, UnlockCounter
  <1>. QED  BY <1>1, <1>2, <1>3, <1>4 DEF MutexNext, MutexThread, CountNext

\* The program with the mutex implements the one with the atomic counter.
THEOREM Implements == MutexSpec => ImplementsAtomic
  <1>1. MutexInit => CountInit
    BY DEF MutexInit
  <1>. QED
    BY <1>1, CounterInvariance, CounterStep, PTL DEF MutexSpec, CountSpec, ImplementsAtomic

-----------------------------------------------------------------------------
(* The sum that is printed: of the program with the atomic counter, and so   *)
(* of the one that implements it.                                            *)

\* The additions made so far with loop variables of remainder r.
Made(r) == {a \in Threads \X (0..(ITERATIONS - 1)) : a[2] < i[a[1]] /\ a[2] % 2 = r}

Added == Cardinality(Made(0)) * EVEN_INCREASE + Cardinality(Made(1)) * ODD_INCREASE

SumInv == /\ i \in [Threads -> -1..ITERATIONS]
          /\ counter = Added % Modulus
          /\ printed >= 0 => printed = counter /\ \A t \in Threads : i[t] = ITERATIONS

\* A remainder that is taken in between does not change the remainder of a sum.
LEMMA RemainderOfSum ==
    ASSUME NEW a \in Int, NEW k \in Int, NEW m \in Nat \ {0}
    PROVE  ((a % m) + k) % m = (a + k) % m
<1> DEFINE r == a % m
           p == a \div m
           q == (r + k) \div m
           s == (r + k) % m
           u == (a + k) \div m
           v == (a + k) % m
<1>1. /\ r \in Int /\ p \in Int /\ a = (m * p) + r
  OBVIOUS
<1>2. /\ q \in Int /\ s \in 0..(m - 1) /\ r + k = (m * q) + s
  <2>1. r + k \in Int
    BY <1>1
  <2> HIDE DEF r
  <2>2. QED
    BY <2>1
<1>3. /\ u \in Int /\ v \in 0..(m - 1) /\ a + k = (m * u) + v
  <2>1. a + k \in Int
    OBVIOUS
  <2>2. QED
    BY <2>1
<1> HIDE DEF r, p, q, s, u, v
<1>4. m * (u - p - q) = s - v
  BY <1>1, <1>2, <1>3
<1>5. u - p - q \in Int /\ s - v \in Int
  BY <1>1, <1>2, <1>3
<1>6. CASE u - p - q >= 1
  <2>1. m * (u - p - q) >= m
    BY <1>5, <1>6
  <2>2. QED
    BY <1>2, <1>3, <1>4, <2>1
<1>7. CASE u - p - q <= -1
  <2>1. m * (u - p - q) <= -m
    BY <1>5, <1>7
  <2>2. QED
    BY <1>2, <1>3, <1>4, <2>1
<1>8. CASE u - p - q = 0
  <2>1. s = v
    BY <1>2, <1>3, <1>4, <1>8
  <2>2. QED
    BY <2>1 DEF r, s, v
<1>9. QED
  BY <1>5, <1>6, <1>7, <1>8

LEMMA MadeIsFinite == ASSUME NEW r \in {0, 1} PROVE IsFiniteSet(Made(r))
<1>1. IsFiniteSet(0..(ITERATIONS - 1))
  BY CounterAssumption, FS_Interval
<1>2. IsFiniteSet(Threads \X (0..(ITERATIONS - 1)))
  BY <1>1, CounterAssumption, FS_Product
<1>3. Made(r) \in SUBSET (Threads \X (0..(ITERATIONS - 1)))
  BY DEF Made
<1>4. QED
  BY <1>2, <1>3, FS_Subset

\* An addition is a new one, and it adds what the loop variable says.
LEMMA AdditionCounts ==
    ASSUME SumInv, NEW t \in Threads, FetchAdd(t) PROVE SumInv'
<1>1. PICK k \in 0..(ITERATIONS - 1) : k = i[t]
  BY DEF FetchAdd
<1>2. /\ k \in Int /\ k % 2 \in {0, 1} /\ printed = -1 /\ printed' = -1
      /\ counter' = Plus(counter, k) /\ i' = [i EXCEPT ![t] = k + 1]
  BY <1>1, CounterAssumption DEF FetchAdd, Running
<1>3. i' \in [Threads -> -1..ITERATIONS]
  BY <1>2, CounterAssumption DEF SumInv
<1>4. ASSUME NEW r \in {0, 1}
      PROVE  /\ k % 2 = r => Made(r)' = Made(r) \cup {<<t, k>>} /\ <<t, k>> \notin Made(r)
             /\ k % 2 # r => Made(r)' = Made(r)
  <2>1. ASSUME NEW a \in Threads \X (0..(ITERATIONS - 1))
        PROVE  a[2] < i'[a[1]] <=> a[2] < i[a[1]] \/ a = <<t, k>>
    <3>1. PICK u \in Threads, j \in 0..(ITERATIONS - 1) : a = <<u, j>>
      OBVIOUS
    <3>2. j < i'[u] <=> j < i[u] \/ (u = t /\ j = k)
      BY <1>1, <1>2, CounterAssumption DEF SumInv
    <3>3. QED
      BY <3>1, <3>2
  <2>2. <<t, k>> \in Threads \X (0..(ITERATIONS - 1)) /\ <<t, k>>[2] = k /\ <<t, k>>[1] = t
        /\ ~(k < i[t])
    BY <1>1, <1>2
  <2>3. QED
    BY <2>1, <2>2, Zenon DEF Made
<1>5. ASSUME NEW r \in {0, 1}
      PROVE  /\ Cardinality(Made(r)) \in Nat
             /\ Cardinality(Made(r)') = Cardinality(Made(r)) + IF k % 2 = r THEN 1 ELSE 0
  <2>1. IsFiniteSet(Made(r)) /\ Cardinality(Made(r)) \in Nat
    BY MadeIsFinite, FS_CardinalityType
  <2>2. CASE k % 2 = r
    <3>1. Cardinality(Made(r) \cup {<<t, k>>}) = Cardinality(Made(r)) + 1
      BY <1>4, <2>1, <2>2, FS_AddElement
    <3>2. QED
      BY <1>4, <2>1, <2>2, <3>1
  <2>3. CASE k % 2 # r
    BY <1>4, <2>1, <2>3
  <2>4. QED
    BY <2>2, <2>3
<1>6. Added \in Int /\ Added' = Added + IF k % 2 = 0 THEN EVEN_INCREASE ELSE ODD_INCREASE
  BY <1>2, <1>5 DEF Added, EVEN_INCREASE, ODD_INCREASE
<1>7. counter' = Added' % Modulus
  <2>1. (IF k % 2 = 0 THEN EVEN_INCREASE ELSE ODD_INCREASE) \in Int
    BY DEF EVEN_INCREASE, ODD_INCREASE
  <2>2. counter = Added % Modulus
    BY DEF SumInv
  <2>3. QED
    BY <1>2, <1>6, <2>1, <2>2, RemainderOfSum, CounterAssumption DEF Plus
<1>8. QED
  BY <1>2, <1>3, <1>7 DEF SumInv

\* Nobody has added anything, and -1 means that nothing is printed.
LEMMA NothingAdded == CountInit => SumInv
<1> SUFFICES ASSUME CountInit PROVE SumInv
  OBVIOUS
<1>1. ASSUME NEW r \in {0, 1} PROVE Cardinality(Made(r)) = 0
  <2>1. Made(r) = {}
    BY CounterAssumption DEF CountInit, Made
  <2>2. QED
    BY <2>1, FS_EmptySet
<1>2. Added = 0
  BY <1>1 DEF Added, EVEN_INCREASE, ODD_INCREASE
<1>3. QED
  BY <1>2, CounterAssumption DEF CountInit, SumInv

LEMMA SumKept == ASSUME SumInv, [CountNext]_count_vars PROVE SumInv'
<1>1. CASE PrintCounter
  BY <1>1 DEF PrintCounter, SumInv, Added, Made
<1>2. ASSUME NEW t \in Threads, CreateThread(t) PROVE SumInv'
  <2>1. i' = [i EXCEPT ![t] = 0] /\ i[t] = -1 /\ UNCHANGED <<counter, printed>> /\ printed = -1
    BY <1>2 DEF CreateThread, Running
  <2>2. i' \in [Threads -> -1..ITERATIONS]
    BY <2>1, CounterAssumption DEF SumInv
  <2>3. ASSUME NEW r \in {0, 1} PROVE Made(r)' = Made(r)
    BY <2>1, CounterAssumption DEF Made, SumInv
  <2>4. QED
    BY <2>1, <2>2, <2>3 DEF SumInv, Added
<1>3. ASSUME NEW t \in Threads, CreateFails(t) PROVE SumInv'
  BY <1>3 DEF CreateFails, SumInv, Added, Made
<1>4. CASE UNCHANGED count_vars
  BY <1>4 DEF count_vars, SumInv, Added, Made
<1>5. QED
  BY <1>1, <1>2, <1>3, <1>4, AdditionCounts DEF CountNext

\* A one-to-one correspondence gives sets of the same size.
LEMMA SameSize ==
    ASSUME NEW S, NEW T, IsFiniteSet(S), NEW f \in [S -> T],
           \A a, b \in S : f[a] = f[b] => a = b, \A t \in T : \E a \in S : f[a] = t
    PROVE  IsFiniteSet(T) /\ Cardinality(T) = Cardinality(S)
<1>1. f \in Bijection(S, T)
  BY DEF Bijection, Injection, Surjection, IsInjective
<1>2. QED
  BY <1>1, FS_Bijection DEF ExistsBijection

\* How many numbers below ITERATIONS are even, and how many are odd.
LEMMA HalfOfThem ==
    ASSUME NEW r \in {0, 1}
    PROVE  LET S == {k \in 0..(ITERATIONS - 1) : k % 2 = r}
           IN  IsFiniteSet(S) /\ Cardinality(S) = (ITERATIONS + 1 - r) \div 2
<1> DEFINE S == {k \in 0..(ITERATIONS - 1) : k % 2 = r}
           n == (ITERATIONS + 1 - r) \div 2
           f == [j \in 0..(n - 1) |-> 2 * j + r]
<1>1. n \in Nat /\ ITERATIONS \in Nat
  BY CounterAssumption
<1>2. f \in [0..(n - 1) -> S]
  BY <1>1
<1>3. \A a, b \in 0..(n - 1) : f[a] = f[b] => a = b
  BY <1>1
<1>4. ASSUME NEW k \in S PROVE \E j \in 0..(n - 1) : f[j] = k
  <2>1. k \div 2 \in 0..(n - 1) /\ 2 * (k \div 2) + r = k
    BY <1>1
  <2>2. QED
    BY <2>1
<1>5. IsFiniteSet(0..(n - 1)) /\ Cardinality(0..(n - 1)) = n
  BY <1>1, FS_Interval
<1> HIDE DEF S, f, n
<1>6. IsFiniteSet(S) /\ Cardinality(S) = n
  <2>1. \A k \in S : \E j \in 0..(n - 1) : f[j] = k
    BY <1>4
  <2>2. IsFiniteSet(S) /\ Cardinality(S) = Cardinality(0..(n - 1))
    BY <1>2, <1>3, <1>5, <2>1, SameSize, Zenon
  <2>3. QED
    BY <1>5, <2>2
<1>7. QED
  BY <1>6 DEF S, n

\* When all threads are through, everyone has made all its additions.
LEMMA SumOfAll == SumInv => FinalCount
<1> SUFFICES ASSUME SumInv, printed >= 0 PROVE FinalCount
  BY DEF FinalCount
<1> DEFINE T == Cardinality(Threads)
           S(r) == {k \in 0..(ITERATIONS - 1) : k % 2 = r}
           h(r) == (ITERATIONS + 1 - r) \div 2
<1>1. \A t \in Threads : i[t] = ITERATIONS
  BY DEF SumInv
<1>2. T \in Nat
  BY CounterAssumption, FS_CardinalityType
<1>3. ASSUME NEW r \in {0, 1} PROVE Cardinality(Made(r)) = T * h(r) /\ h(r) \in Int
  <2>1. IsFiniteSet(S(r)) /\ Cardinality(S(r)) = h(r)
    BY HalfOfThem
  <2>2. Made(r) = Threads \X S(r)
    BY <1>1, CounterAssumption DEF Made
  <2>3. h(r) \in Int
    BY CounterAssumption
  <2> HIDE DEF S, h
  <2>4. Cardinality(Threads \X S(r)) = T * h(r)
    BY <2>1, CounterAssumption, FS_Product
  <2>5. QED
    BY <2>2, <2>3, <2>4
<1>4. h(1) = ITERATIONS \div 2 /\ h(0) = (ITERATIONS + 1) \div 2
  BY CounterAssumption
<1> HIDE DEF T, h
<1>5. Added = T * (h(0) * EVEN_INCREASE + h(1) * ODD_INCREASE)
  BY <1>2, <1>3 DEF Added, EVEN_INCREASE, ODD_INCREASE
<1>6. printed = Added % Modulus
  BY DEF SumInv
<1>7. QED
  BY <1>4, <1>5, <1>6 DEF FinalCount, T

\* What main prints with the atomic counter is the sum of all additions (task1_atomic.c:32).
THEOREM AtomicTotal == CountSpec => []FinalCount
<1>1. SumInv /\ [CountNext]_count_vars => SumInv'
  BY SumKept
<1>2. QED
  BY <1>1, NothingAdded, SumOfAll, PTL DEF CountSpec

\* So is what it prints with the mutex, which nobody can tell from it (task1_mutex.c:32).
THEOREM MutexTotal == MutexSpec => []FinalCount
  BY Implements, AtomicTotal, PTL DEF ImplementsAtomic

-----------------------------------------------------------------------------
(* The philosophers. *)

\* The chopsticks that a philosopher holds in each place of dine.
Has(p) == CASE seat[p] = "waiting" -> {First(p)}
            [] seat[p] = "eating"  -> {First(p), Second(p)}
            [] seat[p] = "full"    -> {Right(p)}
            [] OTHER               -> {}

Holding == \A p, c \in Philosopher : chopstick[c] = p <=> c \in Has(p)

Seated == \A p \in Philosopher :
             /\ seat[p] = "new" <=> p >= created
             /\ seat[p] = "new" => meals[p] = 0
             /\ ~Finished(p) => meals[p] < EAT_ITERATIONS

DiningInv == DiningTypeOK /\ Holding /\ Seated

-----------------------------------------------------------------------------
\* Each philosopher takes the chopstick with the lower number first.
LEMMA LowerFirst ==
  ASSUME NEW p \in Philosopher
  PROVE  /\ First(p) \in Philosopher /\ Second(p) \in Philosopher
         /\ First(p) < Second(p)
         /\ {First(p), Second(p)} = {Left(p), Right(p)}
         /\ Left(p) # Right(p)
  <1>1. CASE p = NUM_PHILOSOPHER - 1
    <2>1. (p + 1) % NUM_PHILOSOPHER = 0
      BY <1>1, DiningAssumption
    <2>. QED
      BY <1>1, <2>1, DiningAssumption
         DEF First, Second, TakesRightFirst, Left, Right, Philosopher
  <1>2. CASE p # NUM_PHILOSOPHER - 1
    <2>1. p + 1 \in 0..(NUM_PHILOSOPHER - 1)
      BY <1>2, DiningAssumption DEF Philosopher
    <2>2. (p + 1) % NUM_PHILOSOPHER = p + 1
      BY <2>1, DiningAssumption
    <2>. QED
      BY <1>2, <2>1, <2>2, DiningAssumption
         DEF First, Second, TakesRightFirst, Left, Right, Philosopher
  <1>. QED  BY <1>1, <1>2

LEMMA DiningInitially == DiningInit => DiningInv
  BY DiningAssumption
     DEF DiningInit, DiningInv, DiningTypeOK, Holding, Has, Seated, Finished, Philosopher,
         Table

LEMMA HostStep ==
  ASSUME DiningInv, Create \/ JoinNext
  PROVE  DiningInv'
  <1>. USE DiningAssumption DEF DiningInv, DiningTypeOK, Philosopher
  <1>1. CASE Create
    <2>1. seat[created] = "new" /\ created \in Philosopher
      BY <1>1 DEF Create, Seated
    <2>2. \A p \in Philosopher : Has(p)' = Has(p)
      BY <1>1, <2>1 DEF Create, Has, First, Second, TakesRightFirst, NextSeat
    <2>3. Holding'
      BY <1>1, <2>2 DEF Holding, Create
    <2>4. Seated'
      BY <1>1, <2>1 DEF Seated, Create, NextSeat, Finished, DiningInit
    <2>5. DiningTypeOK'
      BY <1>1 DEF Create, NextSeat
    <2>. QED  BY <2>3, <2>4, <2>5
  <1>2. CASE JoinNext
    BY <1>2 DEF JoinNext, Holding, Has, Seated, Finished
  <1>. QED  BY <1>1, <1>2

\* A chopstick goes from the table to a philosopher or back.
LEMMA HoldingKept ==
  ASSUME DiningTypeOK, Holding, NEW p \in Philosopher, NEW x \in Philosopher,
         NEW v \in {p, Table}, chopstick[x] \in {p, Table},
         chopstick' = [chopstick EXCEPT ![x] = v],
         \A q \in Philosopher \ {p} : Has(q)' = Has(q),
         \A c \in Philosopher : c \in Has(p)' <=> IF c = x THEN v = p ELSE c \in Has(p)
  PROVE  Holding'
  <1>. SUFFICES ASSUME NEW q \in Philosopher, NEW c \in Philosopher
                PROVE  chopstick'[c] = q <=> c \in Has(q)'
    BY DEF Holding
  <1>1. chopstick'[c] = IF c = x THEN v ELSE chopstick[c]
    BY DEF DiningTypeOK
  <1>2. Table \notin Philosopher
    BY DiningAssumption DEF Table, Philosopher
  <1>3. chopstick[c] = q <=> c \in Has(q)
    BY DEF Holding
  <1>. QED  BY <1>1, <1>2, <1>3

LEMMA DineStep ==
  ASSUME DiningInv, NEW p \in Philosopher, Dine(p)
  PROVE  DiningInv'
  <1>. USE DEF DiningInv
  <1>0. /\ First(p) \in Philosopher /\ Second(p) \in Philosopher
        /\ Left(p) \in Philosopher /\ Right(p) \in Philosopher
    BY LowerFirst
  <1>1. meals[p] < EAT_ITERATIONS /\ seat[p] # "new"
    BY DEF Dine, TakeFirst, TakeSecond, PutLeft, PutRight, Take, Finished, Seated
  <1>2. \A q \in Philosopher \ {p} : Has(q)' = Has(q)
    BY DEF DiningTypeOK, Has, Dine, TakeFirst, TakeSecond, PutLeft, PutRight, Take
  <1>3. p \in 0..NUM_PHILOSOPHER /\ Table \in 0..NUM_PHILOSOPHER
    BY DiningAssumption DEF Philosopher, Table
  <1>4. CASE TakeFirst(p)
    <2>1. DiningTypeOK'
      BY <1>0, <1>3, <1>4 DEF DiningTypeOK, TakeFirst, Take
    <2>2. Seated'
      BY <1>1, <1>4 DEF DiningTypeOK, TakeFirst, Take, Seated, Finished
    <2>3. Has(p) = {} /\ Has(p)' = {First(p)}
      BY <1>4 DEF TakeFirst, Take, Has, DiningTypeOK
    <2>4. Holding'
      BY <1>0, <1>2, <1>4, <2>3, HoldingKept DEF TakeFirst, Take
    <2>. QED  BY <2>1, <2>2, <2>4
  <1>5. CASE TakeSecond(p)
    <2>1. DiningTypeOK'
      BY <1>0, <1>3, <1>5 DEF DiningTypeOK, TakeSecond, Take
    <2>2. Seated'
      BY <1>1, <1>5 DEF DiningTypeOK, TakeSecond, Take, Seated, Finished
    <2>3. Has(p) = {First(p)} /\ Has(p)' = {First(p), Second(p)}
      BY <1>5 DEF TakeSecond, Take, Has, DiningTypeOK
    <2>4. Holding'
      BY <1>0, <1>2, <1>5, <2>3, HoldingKept DEF TakeSecond, Take
    <2>. QED  BY <2>1, <2>2, <2>4
  <1>6. CASE PutLeft(p)
    <2>1. DiningTypeOK'
      BY <1>0, <1>3, <1>6 DEF DiningTypeOK, PutLeft
    <2>2. Seated'
      BY <1>1, <1>6 DEF DiningTypeOK, PutLeft, Seated, Finished
    <2>3. Has(p) = {Left(p), Right(p)} /\ Has(p)' = {Right(p)}
      BY <1>6, LowerFirst DEF PutLeft, Has, DiningTypeOK
    <2>4. chopstick[Left(p)] = p
      BY <1>0, <2>3 DEF Holding
    <2>5. p # Table /\ Left(p) # Right(p)
      BY LowerFirst, DiningAssumption DEF Philosopher, Table
    <2>6. Holding'
      BY <1>0, <1>2, <1>6, <2>3, <2>4, <2>5, HoldingKept DEF PutLeft
    <2>. QED  BY <2>1, <2>2, <2>6
  <1>7. CASE PutRight(p)
    <2>1. DiningTypeOK'
      BY <1>0, <1>1, <1>3, <1>7, DiningAssumption DEF DiningTypeOK, PutRight, NextSeat
    <2>2. Seated'
      BY <1>1, <1>7, DiningAssumption
         DEF DiningTypeOK, PutRight, NextSeat, Seated, Finished
    <2>3. Has(p) = {Right(p)} /\ Has(p)' = {}
      BY <1>7 DEF PutRight, Has, DiningTypeOK, NextSeat
    <2>4. chopstick[Right(p)] = p
      BY <1>0, <2>3 DEF Holding
    <2>5. p # Table
      BY DiningAssumption DEF Philosopher, Table
    <2>6. Holding'
      BY <1>0, <1>2, <1>7, <2>3, <2>4, <2>5, HoldingKept DEF PutRight
    <2>. QED  BY <2>1, <2>2, <2>6
  <1>. QED  BY <1>4, <1>5, <1>6, <1>7 DEF Dine

\* DiningInv is an invariant of the program.
THEOREM DiningInvariance == DiningSpec => []DiningInv
  <1>1. DiningInv /\ [DiningNext]_dining_vars => DiningInv'
    <2>. SUFFICES ASSUME DiningInv, [DiningNext]_dining_vars  PROVE DiningInv'
      OBVIOUS
    <2>1. CASE UNCHANGED dining_vars
      BY <2>1 DEF dining_vars, DiningInv, DiningTypeOK, Holding, Has, Seated, Finished
    <2>. QED  BY <2>1, HostStep, DineStep DEF DiningNext
  <1>. QED  BY <1>1, DiningInitially, PTL DEF DiningSpec

\* The types of the variables of exercise07/task2/task2.c.
THEOREM DiningTypeCorrect == DiningSpec => []DiningTypeOK
  BY DiningInvariance, PTL DEF DiningInv

-----------------------------------------------------------------------------
\* Of the chopsticks that are taken one has the highest number.
LEMMA HighestTaken ==
  ASSUME NEW T \in SUBSET Philosopher, T # {}
  PROVE  \E c \in T : \A d \in T : d <= c
  <1>. DEFINE below == {m \in Nat : NUM_PHILOSOPHER - m \in T}
  <1>1. below \subseteq Nat
    OBVIOUS
  <1>2. below # {}
    <2>1. PICK c \in T : TRUE
      OBVIOUS
    <2>2. NUM_PHILOSOPHER - c \in below
      BY <2>1, DiningAssumption DEF Philosopher
    <2>. QED  BY <2>2
  <1>3. PICK m \in below : \A k \in below : ~(<<k, m>> \in OpToRel(<, Nat))
    BY <1>1, <1>2, NatLessThanWellFounded, WFMin, Zenon
  <1>4. \A d \in T : NUM_PHILOSOPHER - d \in below
    BY DiningAssumption DEF Philosopher
  <1>5. \A d \in T : ~(NUM_PHILOSOPHER - d < m)
    BY <1>3, <1>4, Zenon DEF OpToRel
  <1>6. m \in Nat /\ NUM_PHILOSOPHER - m \in T
    OBVIOUS
  <1>7. \A d \in T : d <= NUM_PHILOSOPHER - m
    BY <1>5, <1>6, DiningAssumption DEF Philosopher
  <1>. QED  BY <1>6, <1>7

\* The one who holds the highest chopstick is not blocked: what he waits for has a
\* higher number still.
LEMMA SomebodyGoesOn ==
  ASSUME DiningInv
  PROVE  NoDeadlock
  <1>. SUFFICES ASSUME NEW p \in Philosopher, ~Finished(p),
                       \A q \in Philosopher : Finished(q) \/ Blocked(q)
                PROVE  FALSE
    BY DEF NoDeadlock
  <1>. DEFINE taken == {c \in Philosopher : chopstick[c] # Table}
  <1>1. taken # {}
    BY LowerFirst DEF Blocked
  <1>2. PICK c \in taken : \A d \in taken : d <= c
    <2>. HIDE DEF taken
    <2>1. taken \in SUBSET Philosopher
      BY DEF taken
    <2>. QED  BY <1>1, <2>1, HighestTaken
  <1>. DEFINE h == chopstick[c]
  <1>3. h \in Philosopher
    BY <1>2, DiningAssumption DEF DiningInv, DiningTypeOK, Table, Philosopher
  <1>4. c \in Has(h)
    BY <1>2, <1>3 DEF DiningInv, Holding
  <1>5. ~Finished(h)
    BY <1>4 DEF Has, Finished
  <1>6. seat[h] = "waiting" /\ chopstick[Second(h)] # Table
    BY <1>3, <1>4, <1>5 DEF Blocked, Has
  <1>7. c = First(h)
    BY <1>4, <1>6 DEF Has
  <1>8. Second(h) \in taken
    BY <1>3, <1>6, LowerFirst
  <1>. QED
    BY <1>2, <1>3, <1>7, <1>8, LowerFirst DEF Philosopher

\* Some philosopher who has not finished can always go on (task2.c:19-25).
THEOREM DeadlockFree == DiningSpec => []NoDeadlock
  BY DiningInvariance, SomebodyGoesOn, PTL

-----------------------------------------------------------------------------
(* The linked list of myqueue.h.  First that the pointers determine the    *)
(* sequence of its entries.                                                *)

LEMMA ListIsSequence == ASSUME NEW s \in Lists  PROVE s \in Seq(Entries)
  BY DEF Lists

\* A sequence that contains no entry twice is no longer than there are entries.
LEMMA SequenceIsList ==
  ASSUME NEW s \in Seq(Entries), \A k, j \in DOMAIN s : s[k] = s[j] => k = j
  PROVE  s \in Lists
  <1>1. Len(s) \in Nat /\ DOMAIN s = 1..Len(s) /\ s \in [1..Len(s) -> Entries]
    OBVIOUS
  <1>2. IsFiniteSet(Entries) /\ Cardinality(Entries) = Room
    BY FS_Interval, MyQueueAssumption DEF Entries
  <1>3. s \in Injection(1..Len(s), Entries)
    BY <1>1 DEF Injection, IsInjective
  <1>4. Cardinality(1..Len(s)) <= Room
    BY <1>2, <1>3, FS_Injection
  <1>5. Len(s) \in 0..Room
    BY <1>1, <1>4, FS_Interval, MyQueueAssumption
  <1>. QED  BY <1>1, <1>5 DEF Lists

LEMMA LeastOf ==
  ASSUME NEW S \in SUBSET Nat, S # {}
  PROVE  \E m \in S : \A k \in S : m <= k
  <1>1. PICK m \in S : \A k \in S : <<k, m>> \notin OpToRel(<, Nat)
    BY WFMin, NatLessThanWellFounded, Zenon
  <1>2. \A k \in S : ~(k < m)
    BY <1>1, Zenon DEF OpToRel
  <1>. QED  BY <1>2

\* Two sequences that both follow the links agree as far as the first one goes.
LEMMA ListsAgree ==
  ASSUME NEW s \in Seq(Entries), NEW t \in Seq(Entries), IsList(s), IsList(t)
  PROVE  \A k \in DOMAIN s : k \in DOMAIN t /\ t[k] = s[k]
  <1>. DEFINE Bad == {k \in DOMAIN s : ~(k \in DOMAIN t /\ t[k] = s[k])}
  <1>1. SUFFICES ASSUME Bad # {}  PROVE FALSE
    OBVIOUS
  <1>2. /\ Len(s) \in Nat /\ DOMAIN s = 1..Len(s) /\ \A k \in DOMAIN s : s[k] \in Entries
        /\ Len(t) \in Nat /\ DOMAIN t = 1..Len(t) /\ \A k \in DOMAIN t : t[k] \in Entries
        /\ NULL \notin Entries
    <2>1. NULL \notin Entries
      BY MyQueueAssumption DEF Entries, NULL
    <2>2. /\ Len(s) \in Nat /\ DOMAIN s = 1..Len(s) /\ \A k \in DOMAIN s : s[k] \in Entries
          /\ Len(t) \in Nat /\ DOMAIN t = 1..Len(t) /\ \A k \in DOMAIN t : t[k] \in Entries
      <3>. HIDE DEF Entries
      <3>. QED  OBVIOUS
    <2>. QED  BY <2>1, <2>2
  <1>3. PICK m \in Bad : \A k \in Bad : m <= k
    <2>1. Bad \in SUBSET Nat
      BY <1>2
    <2>. HIDE DEF Bad
    <2>. QED  BY <1>1, <2>1, LeastOf, Zenon
  <1>4. CASE m = 1
    BY <1>2, <1>3, <1>4 DEF IsList
  <1>5. CASE m # 1
    <2>1. m - 1 \in DOMAIN s /\ m - 1 \notin Bad /\ m \in DOMAIN s
      BY <1>2, <1>3, <1>5
    <2>2. m - 1 \in DOMAIN t /\ t[m - 1] = s[m - 1]
      BY <2>1
    <2>3. next[s[m - 1]] = s[m]
      BY <1>2, <2>1 DEF IsList
    <2>4. s[m] # NULL
      BY <1>2, <2>1
    <2>5. m - 1 # Len(t)
      BY <2>2, <2>3, <2>4 DEF IsList
    <2>6. m \in DOMAIN t /\ next[t[m - 1]] = t[m]
      BY <1>2, <2>1, <2>2, <2>5 DEF IsList
    <2>. QED  BY <1>3, <2>2, <2>3, <2>6
  <1>. QED  BY <1>4, <1>5

OrderIsList == \A s \in Lists : IsList(s) => Order = s

LEMMA OrderIs == OrderIsList
  <1>1. SUFFICES ASSUME NEW s \in Lists, IsList(s)  PROVE Order = s
    BY DEF OrderIsList
  <1>2. Order \in Lists /\ IsList(Order)
    BY <1>1 DEF Order
  <1>. DEFINE t == Order
  <1>3. s \in Seq(Entries) /\ t \in Seq(Entries)
    BY <1>2, ListIsSequence
  <1>4. IsList(t)
    BY <1>2
  <1>. HIDE DEF t
  <1>5. /\ \A k \in DOMAIN s : k \in DOMAIN t /\ t[k] = s[k]
        /\ \A k \in DOMAIN t : k \in DOMAIN s /\ s[k] = t[k]
    BY <1>1, <1>3, <1>4, ListsAgree
  <1>6. t = s
    <2>1. Len(s) \in Nat /\ DOMAIN s = 1..Len(s) /\ Len(t) \in Nat /\ DOMAIN t = 1..Len(t)
      BY <1>3
    <2>2. Len(s) = Len(t)
      <3>1. Len(s) > 0 => Len(s) \in 1..Len(t)
        BY <1>5, <2>1
      <3>2. Len(t) > 0 => Len(t) \in 1..Len(s)
        BY <1>5, <2>1
      <3>3. \A a, b \in Nat : (a > 0 => a \in 1..b) /\ (b > 0 => b \in 1..a) => a = b
        OBVIOUS
      <3>. QED  BY <2>1, <3>1, <3>2, <3>3, Zenon
    <2>. QED  BY <1>3, <1>5, <2>1, <2>2
  <1>. QED  BY <1>6 DEF t

\* The inductive invariant.  One thread at most is between lock and unlock, and how
\* far it has come says what the pointers are, and which entry is not in the list.
Inside == {"locked", "push_next", "push_link", "push_last", "pop", "pop_first",
           "pop_last", "free", "unlock"}

Exclusive == /\ \A u \in Users : u \in holder <=> upc[u] \in Inside
             /\ \A u, w \in holder : u = w

Linked(s) == {s[k] : k \in DOMAIN s}
LastOf(s) == IF s = <<>> THEN Anchor ELSE s[Len(s)]
Whole(s)  == stqh_last = LastOf(s) /\ allocated = Linked(s)

Beside(u, s) == /\ entry[u] \in Entries \ Linked(s)
                /\ allocated = Linked(s) \cup {entry[u]}

Stage(u, s) ==
    /\ upc[u] \in {"locked", "pop", "pop_first", "unlock"} => Whole(s)
    /\ upc[u] \in {"pop", "pop_first"} => s # <<>>
    /\ upc[u] = "pop_first" => entry[u] = s[1] /\ data[u] = value[s[1]]
    /\ upc[u] \in {"push_next", "push_link"} =>
         Beside(u, s) /\ stqh_last = LastOf(s) /\ value[entry[u]] = data[u]
    /\ upc[u] = "push_link" => next[entry[u]] = NULL
    /\ upc[u] = "push_last" => s # <<>> /\ entry[u] = s[Len(s)] /\ allocated = Linked(s)
    /\ upc[u] = "pop_last" => s = <<>> /\ Beside(u, s)
    /\ upc[u] = "free" => Beside(u, s) /\ stqh_last = LastOf(s)

Stages(s) == IsList(s) /\ (holder = {} => Whole(s)) /\ \A u \in Users : Stage(u, s)

ListInv == ListTypeOK /\ Exclusive /\ \E s \in Seq(Entries) : Stages(s)

LEMMA ListInitially == ListInit => ListInv
  <1>1. SUFFICES ASSUME ListInit  PROVE ListInv
    OBVIOUS
  <1>2. (CHOOSE v \in Values : TRUE) \in Values
    BY MyQueueAssumption
  <1>3. ListTypeOK /\ Exclusive
    BY <1>1, <1>2 DEF ListInit, ListTypeOK, Exclusive, Inside, NULL, Anchor
  <1>4. <<>> \in Seq(Entries) /\ Stages(<<>>)
    BY <1>1 DEF ListInit, Stages, Stage, IsList, Whole, Linked, LastOf
  <1>. QED  BY <1>3, <1>4 DEF ListInv

-----------------------------------------------------------------------------
(* What the steps of the thread that has the mutex do to the list. *)

\* The steps that keep the sequence.
Quiet(u) == \/ TestEmpty(u) \/ PushEntry(u) \/ PushNext(u) \/ PushLast(u)
            \/ PopEntry(u) \/ PopLast(u) \/ FreeEntry(u)

LEMMA QuietKeeps ==
  ASSUME ListTypeOK, NEW u \in Users, NEW s \in Seq(Entries), IsList(s), Stage(u, s), Quiet(u)
  PROVE  IsList(s)' /\ Stage(u, s)' /\ \A e \in Linked(s) : value'[e] = value[e]
  <1>1. /\ \A k \in DOMAIN s : s[k] \in Linked(s) /\ s[k] \in Entries
        /\ s # <<>> => 1 \in DOMAIN s /\ Len(s) \in DOMAIN s /\ s[1] = stqh_first
        /\ s # <<>> <=> stqh_first # NULL
        /\ Linked(s) \subseteq Entries
    <2>1. NULL \notin Entries
      BY MyQueueAssumption DEF Entries, NULL
    <2>. HIDE DEF Entries
    <2>. QED  BY <2>1 DEF Linked, IsList
  \* The links of the list's entries, and its head, decide.
  <1>2. ASSUME stqh_first' = stqh_first, \A e \in Linked(s) : next'[e] = next[e]
        PROVE  IsList(s)'
    BY <1>1, <1>2 DEF IsList
  <1>. USE DEF UserGoes, Answers, list
  <1>3. CASE TestEmpty(u)
    BY <1>1, <1>2, <1>3 DEF TestEmpty, ListTypeOK, Stage, Whole
  <1>4. CASE PushEntry(u)
    <2>1. PICK e \in Entries \ allocated, v \in Values :
             /\ upc[u] = "locked" /\ upc' = [upc EXCEPT ![u] = "push_next"]
             /\ allocated' = allocated \cup {e} /\ entry' = [entry EXCEPT ![u] = e]
             /\ value' = [value EXCEPT ![e] = v] /\ data' = [data EXCEPT ![u] = v]
             /\ UNCHANGED <<stqh_first, stqh_last, next>>
      BY <1>4 DEF PushEntry
    <2>2. Whole(s)
      BY <2>1 DEF Stage
    <2>3. /\ upc'[u] = "push_next" /\ entry'[u] = e /\ data'[u] = v /\ value'[e] = v
          /\ \A d \in Entries \ {e} : value'[d] = value[d]
      BY <2>1 DEF ListTypeOK
    <2>4. e \notin Linked(s)
      BY <2>2 DEF Whole
    <2>5. Stage(u, s)'
      BY <2>1, <2>2, <2>3, <2>4 DEF Stage, Whole, Beside
    <2>. QED  BY <1>1, <1>2, <2>1, <2>3, <2>4, <2>5
  <1>5. CASE PushNext(u)
    <2>1. /\ upc[u] = "push_next" /\ upc' = [upc EXCEPT ![u] = "push_link"]
          /\ next' = [next EXCEPT ![entry[u]] = NULL]
          /\ UNCHANGED <<stqh_first, stqh_last, value, allocated, entry, data>>
      BY <1>5 DEF PushNext
    <2>2. /\ Beside(u, s) /\ stqh_last = LastOf(s) /\ value[entry[u]] = data[u]
      BY <2>1 DEF Stage
    <2>3. /\ upc'[u] = "push_link" /\ next'[entry[u]] = NULL
          /\ \A d \in Linked(s) : next'[d] = next[d]
      BY <1>1, <2>1, <2>2 DEF ListTypeOK, Beside
    <2>4. Stage(u, s)'
      BY <2>1, <2>2, <2>3 DEF Stage, Beside
    <2>. QED  BY <1>2, <2>1, <2>3, <2>4
  <1>6. CASE PushLast(u)
    <2>1. /\ upc[u] = "push_last" /\ upc' = [upc EXCEPT ![u] = "unlock"]
          /\ stqh_last' = entry[u]
          /\ UNCHANGED <<stqh_first, next, value, allocated, entry, data>>
      BY <1>6 DEF PushLast
    <2>2. s # <<>> /\ entry[u] = s[Len(s)] /\ allocated = Linked(s)
      BY <2>1 DEF Stage
    <2>3. upc'[u] = "unlock" /\ Whole(s)'
      BY <2>1, <2>2 DEF ListTypeOK, Whole, LastOf
    <2>. QED  BY <1>2, <2>1, <2>3 DEF Stage
  <1>7. CASE PopEntry(u)
    <2>1. /\ upc[u] = "pop" /\ upc' = [upc EXCEPT ![u] = "pop_first"]
          /\ entry' = [entry EXCEPT ![u] = stqh_first]
          /\ data' = [data EXCEPT ![u] = value[stqh_first]]
          /\ UNCHANGED <<stqh_first, stqh_last, next, value, allocated>>
      BY <1>7 DEF PopEntry
    <2>2. s # <<>> /\ Whole(s)
      BY <2>1 DEF Stage
    <2>3. upc'[u] = "pop_first" /\ entry'[u] = s[1] /\ data'[u] = value'[s[1]] /\ Whole(s)'
      BY <1>1, <2>1, <2>2 DEF ListTypeOK, Whole
    <2>. QED  BY <1>2, <2>1, <2>2, <2>3 DEF Stage
  <1>8. CASE PopLast(u)
    <2>1. /\ upc[u] = "pop_last" /\ upc' = [upc EXCEPT ![u] = "free"]
          /\ stqh_last' = Anchor
          /\ UNCHANGED <<stqh_first, next, value, allocated, entry, data>>
      BY <1>8 DEF PopLast, EmptyLast
    <2>2. s = <<>> /\ Beside(u, s)
      BY <2>1 DEF Stage
    <2>3. upc'[u] = "free" /\ Beside(u, s)' /\ stqh_last' = LastOf(s)
      BY <2>1, <2>2 DEF ListTypeOK, Beside, LastOf
    <2>. QED  BY <1>2, <2>1, <2>3 DEF Stage
  <1>9. CASE FreeEntry(u)
    <2>1. /\ upc[u] = "free" /\ upc' = [upc EXCEPT ![u] = "unlock"]
          /\ allocated' = allocated \ {entry[u]}
          /\ UNCHANGED <<stqh_first, stqh_last, next, value, entry, data>>
      BY <1>9 DEF FreeEntry
    <2>2. Beside(u, s) /\ stqh_last = LastOf(s)
      BY <2>1 DEF Stage
    <2>3. upc'[u] = "unlock" /\ Whole(s)'
      BY <2>1, <2>2 DEF ListTypeOK, Beside, Whole
    <2>. QED  BY <1>2, <2>1, <2>3 DEF Stage
  <1>. QED  BY <1>3, <1>4, <1>5, <1>6, <1>7, <1>8, <1>9 DEF Quiet

\* The assignment of the push that takes effect.
LEMMA LinkAppends ==
  ASSUME ListTypeOK, NEW u \in Users, NEW s \in Seq(Entries), IsList(s), Stage(u, s),
         PushLink(u), NEW e, e = entry[u]
  PROVE  /\ Append(s, e) \in Seq(Entries) /\ IsList(Append(s, e))'
         /\ Stage(u, Append(s, e))' /\ value[e] = data[u]
  <1>1. /\ upc[u] = "push_link" /\ upc' = [upc EXCEPT ![u] = "push_last"]
        /\ UNCHANGED <<value, allocated, entry, data>>
        /\ \/ stqh_last = Anchor /\ stqh_first' = e /\ UNCHANGED next
           \/ /\ stqh_last # Anchor /\ next' = [next EXCEPT ![stqh_last] = e]
              /\ UNCHANGED stqh_first
    BY DEF PushLink, UserGoes
  <1>2. /\ Beside(u, s) /\ stqh_last = LastOf(s) /\ value[e] = data[u] /\ next[e] = NULL
    BY <1>1 DEF Stage
  <1>3. e \in Entries \ Linked(s) /\ allocated = Linked(s) \cup {e}
    BY <1>2 DEF Beside
  <1>. DEFINE t == Append(s, e)
  <1>4. /\ t \in Seq(Entries) /\ Len(t) = Len(s) + 1 /\ Len(s) \in Nat
        /\ DOMAIN s = 1..Len(s) /\ DOMAIN t = 1..(Len(s) + 1)
        /\ \A k \in DOMAIN s : t[k] = s[k] /\ s[k] \in Linked(s) /\ s[k] \in Entries
        /\ t[Len(s) + 1] = e /\ t # <<>>
    <2>. HIDE DEF Entries
    <2>. QED  BY <1>3 DEF Linked
  <1>. HIDE DEF t
  <1>5. Linked(t) = Linked(s) \cup {e}
    BY <1>4 DEF Linked
  <1>6. \A k, j \in DOMAIN t : t[k] = t[j] => k = j
    <2>1. \A k, j \in DOMAIN s : s[k] = s[j] => k = j
      BY DEF IsList
    <2>2. \A k \in DOMAIN t : k \in DOMAIN s \/ k = Len(s) + 1
      BY <1>4
    <2>. QED  BY <1>3, <1>4, <2>1, <2>2
  <1>7. IsList(t)'
    <2>1. stqh_first' = t[1]
      <3>1. CASE s = <<>>
        BY <1>1, <1>2, <1>4, <3>1 DEF LastOf
      <3>2. CASE s # <<>>
        <4>1. Len(s) \in DOMAIN s /\ 1 \in DOMAIN s /\ Anchor \notin Entries
          BY <1>4, <3>2, MyQueueAssumption DEF Anchor, Entries
        <4>. QED  BY <1>1, <1>2, <1>4, <3>2, <4>1 DEF LastOf, IsList
      <3>. QED  BY <3>1, <3>2
    <2>2. ASSUME NEW k \in DOMAIN t
          PROVE  next'[t[k]] = IF k = Len(t) THEN NULL ELSE t[k + 1]
      <3>1. CASE k = Len(s) + 1
        <4>1. next'[e] = next[e]
          <5>1. stqh_last # e
            <6>1. CASE s = <<>>
              BY <1>2, <1>3, <6>1, MyQueueAssumption DEF LastOf, Anchor, Entries
            <6>2. CASE s # <<>>
              <7>1. Len(s) \in DOMAIN s
                BY <1>4, <6>2
              <7>. QED  BY <1>2, <1>3, <1>4, <6>2, <7>1 DEF LastOf
            <6>. QED  BY <6>1, <6>2
          <5>. QED  BY <1>1, <1>3, <5>1 DEF ListTypeOK
        <4>. QED  BY <1>2, <1>4, <3>1, <4>1
      <3>2. CASE k = Len(s) /\ k \in DOMAIN s
        <4>1. s # <<>> /\ stqh_last = s[k] /\ s[k] \in Entries /\ Anchor \notin Entries
          BY <1>2, <1>4, <3>2, MyQueueAssumption DEF LastOf, Anchor, Entries
        <4>2. next'[s[k]] = e
          BY <1>1, <4>1 DEF ListTypeOK
        <4>3. k # Len(t) /\ k + 1 = Len(s) + 1
          <5>1. \A n \in Nat : n # n + 1
            OBVIOUS
          <5>. QED  BY <1>4, <3>2, <5>1, Zenon
        <4>4. t[k] = s[k] /\ t[k + 1] = e
          BY <1>4, <3>2, <4>3, Zenon
        <4>. QED  BY <4>2, <4>3, <4>4, Zenon
      <3>3. CASE k # Len(s) /\ k \in DOMAIN s
        <4>1. s # <<>> /\ Len(s) \in DOMAIN s /\ s[k] # s[Len(s)] /\ k + 1 \in DOMAIN s
          BY <1>4, <3>3 DEF IsList
        <4>2. next'[s[k]] = next[s[k]]
          BY <1>1, <1>2, <1>4, <3>3, <4>1 DEF ListTypeOK, LastOf
        <4>3. next[s[k]] = s[k + 1]
          BY <3>3 DEF IsList
        <4>4. k # Len(t)
          BY <1>4, <3>3
        <4>5. t[k] = s[k] /\ t[k + 1] = s[k + 1]
          BY <1>4, <3>3, <4>1, Zenon
        <4>. QED  BY <4>2, <4>3, <4>4, <4>5, Zenon
      <3>. QED  BY <1>4, <3>1, <3>2, <3>3
    <2>. QED  BY <1>4, <1>6, <2>1, <2>2 DEF IsList
  <1>8. Stage(u, t)'
    BY <1>1, <1>3, <1>4, <1>5 DEF Stage, ListTypeOK
  <1>. QED  BY <1>2, <1>4, <1>7, <1>8 DEF t

\* The assignment of the pop that takes effect.
LEMMA FirstBecomesTail ==
  ASSUME ListTypeOK, NEW u \in Users, NEW s \in Seq(Entries), IsList(s), Stage(u, s), PopFirst(u)
  PROVE  /\ s # <<>> /\ Tail(s) \in Seq(Entries) /\ IsList(Tail(s))'
         /\ Stage(u, Tail(s))' /\ data[u] = value[s[1]]
  <1>1. /\ upc[u] = "pop_first"
        /\ upc' = [upc EXCEPT ![u] = IF next[stqh_first] = NULL THEN "pop_last" ELSE "free"]
        /\ stqh_first' = next[stqh_first]
        /\ UNCHANGED <<stqh_last, next, value, allocated, entry, data>>
    BY DEF PopFirst, UserGoes
  <1>2. s # <<>> /\ Whole(s) /\ entry[u] = s[1] /\ data[u] = value[s[1]] /\ stqh_first = s[1]
    BY <1>1 DEF Stage, IsList
  <1>. DEFINE t == Tail(s)
  <1>3. /\ t \in Seq(Entries) /\ Len(s) = Len(t) + 1 /\ Len(t) \in Nat
        /\ DOMAIN s = 1..(Len(t) + 1) /\ DOMAIN t = 1..Len(t)
        /\ \A k \in DOMAIN t : t[k] = s[k + 1]
        /\ \A k \in DOMAIN s : s[k] \in Entries
        /\ t = <<>> <=> Len(t) = 0
    <2>. HIDE DEF Entries
    <2>1. Len(s) \in Nat \ {0} /\ DOMAIN s = 1..Len(s)
      BY <1>2
    <2>2. /\ t \in Seq(Entries) /\ Len(t) = Len(s) - 1 /\ DOMAIN t = 1..Len(t)
          /\ \A k \in 1..Len(t) : t[k] = s[k + 1]
      BY <1>2, <2>1
    <2>3. \A k \in DOMAIN s : s[k] \in Entries
      OBVIOUS
    <2>. HIDE DEF t
    <2>4. t = <<>> <=> Len(t) = 0
      BY <2>2
    <2>5. Len(s) = Len(t) + 1 /\ Len(t) \in Nat
      BY <2>1, <2>2
    <2>. QED  BY <2>1, <2>2, <2>3, <2>4, <2>5
  <1>. HIDE DEF t
  <1>4. /\ 1 \in DOMAIN s
        /\ \A k \in DOMAIN t : k + 1 \in DOMAIN s /\ k + 1 # 1 /\ k \in Int
        /\ \A k \in DOMAIN s : k = 1 \/ (k - 1 \in DOMAIN t /\ (k - 1) + 1 = k)
    BY <1>3
  <1>5. Linked(s) = Linked(t) \cup {s[1]} /\ s[1] \notin Linked(t)
    <2>1. \A k \in DOMAIN t : t[k] \in Linked(s) /\ t[k] # s[1]
      BY <1>3, <1>4 DEF Linked, IsList
    <2>2. \A k \in DOMAIN s : s[k] = s[1] \/ s[k] = t[k - 1]
      BY <1>3, <1>4
    <2>3. s[1] \in Linked(s)
      BY <1>4 DEF Linked
    <2>. QED  BY <1>4, <2>1, <2>2, <2>3 DEF Linked
  <1>6. next[s[1]] = IF t = <<>> THEN NULL ELSE t[1]
    <2>1. next[s[1]] = IF 1 = Len(s) THEN NULL ELSE s[2]
      <3>1. next[s[1]] = IF 1 = Len(s) THEN NULL ELSE s[1 + 1]
        BY <1>4, Zenon DEF IsList
      <3>2. 1 + 1 = 2
        OBVIOUS
      <3>. QED  BY <3>1, <3>2, Zenon
    <2>2. 1 = Len(s) <=> t = <<>>
      BY <1>3
    <2>3. t # <<>> => t[1] = s[2]
      BY <1>3
    <2>. QED  BY <2>1, <2>2, <2>3
  <1>7. IsList(t)'
    <2>1. ASSUME NEW k \in DOMAIN t
          PROVE  next[t[k]] = IF k = Len(t) THEN NULL ELSE t[k + 1]
      <3>1. next[s[k + 1]] = IF k + 1 = Len(s) THEN NULL ELSE s[(k + 1) + 1]
        BY <1>4 DEF IsList
      <3>2. k + 1 = Len(s) <=> k = Len(t)
        BY <1>3, <1>4
      <3>3. k # Len(t) => t[k + 1] = s[(k + 1) + 1]
        BY <1>3
      <3>. QED  BY <1>3, <3>1, <3>2, <3>3
    <2>2. \A k, j \in DOMAIN t : t[k] = t[j] => k = j
      <3>1. SUFFICES ASSUME NEW k \in DOMAIN t, NEW j \in DOMAIN t, t[k] = t[j]
                     PROVE  k = j
        OBVIOUS
      <3>2. k + 1 = j + 1
        BY <1>3, <1>4, <3>1 DEF IsList
      <3>. QED  BY <1>4, <3>2
    <2>. QED  BY <1>1, <1>2, <1>6, <2>1, <2>2 DEF IsList
  <1>8. s[1] \in Entries /\ LastOf(s) = IF t = <<>> THEN s[1] ELSE LastOf(t)
    <2>1. t = <<>> => Len(s) = 1
      BY <1>3
    <2>2. t # <<>> => Len(t) \in DOMAIN t
      BY <1>3
    <2>. QED  BY <1>2, <1>3, <1>4, <2>1, <2>2 DEF LastOf
  <1>9. Stage(u, t)'
    <2>1. upc'[u] = IF t = <<>> THEN "pop_last" ELSE "free"
      <3>1. t # <<>> => t[1] # NULL
        <4>1. t # <<>> => 1 \in DOMAIN t /\ 2 \in DOMAIN s
          BY <1>3
        <4>2. t # <<>> => t[1] \in Entries
          BY <1>3, <4>1
        <4>. QED  BY <4>2, MyQueueAssumption DEF Entries, NULL
      <3>. QED  BY <1>1, <1>2, <1>6, <3>1 DEF ListTypeOK
    <2>2. Beside(u, t)'
      BY <1>1, <1>2, <1>5, <1>8 DEF Beside, Whole
    <2>3. t # <<>> => stqh_last' = LastOf(t)
      BY <1>1, <1>2, <1>8 DEF Whole
    <2>. QED  BY <2>1, <2>2, <2>3 DEF Stage
  <1>. QED  BY <1>2, <1>3, <1>7, <1>9 DEF t

-----------------------------------------------------------------------------
(* The invariant is preserved. *)

\* The pointers that the thread with the mutex follows are entries.
LEMMA PointersAreEntries ==
  ASSUME ListInv, NEW u \in Users
  PROVE  /\ upc[u] \in {"pop", "pop_first"} => stqh_first \in Entries
         /\ upc[u] \in {"push_next", "push_link", "push_last", "pop_first", "pop_last", "free"}
              => entry[u] \in Entries /\ entry[u] \in allocated
  <1>1. PICK s \in Seq(Entries) : Stages(s)
    BY DEF ListInv
  <1>2. IsList(s) /\ Stage(u, s)
    BY <1>1 DEF Stages
  <1>3. s # <<>> => /\ 1 \in DOMAIN s /\ Len(s) \in DOMAIN s
                    /\ s[1] \in Entries /\ s[Len(s)] \in Entries
    <2>. HIDE DEF Entries
    <2>. QED  OBVIOUS
  <1>4. upc[u] \in {"pop", "pop_first"} => stqh_first \in Entries
    BY <1>2, <1>3 DEF Stage, IsList
  <1>5. upc[u] = "push_last" => entry[u] \in Entries /\ entry[u] \in allocated
    BY <1>2, <1>3 DEF Stage, Linked
  <1>6. upc[u] \in {"push_next", "push_link", "pop_last", "free"}
          => entry[u] \in Entries /\ entry[u] \in allocated
    BY <1>2 DEF Stage, Beside
  <1>7. upc[u] = "pop_first" => entry[u] \in Entries /\ entry[u] \in allocated
    BY <1>2, <1>3 DEF Stage, Whole, Linked
  <1>. QED  BY <1>4, <1>5, <1>6, <1>7

LEMMA ListTypes ==
  ASSUME ListInv, NEW u \in Users, Calls(u) \/ Pushes(u) \/ Pops(u)
  PROVE  ListTypeOK'
  <1>1. ListTypeOK
    BY DEF ListInv
  <1>. USE DEF ListTypeOK, UserGoes, Answers, list
  <1>2. CASE Calls(u)
    BY <1>1, <1>2 DEF Calls, BeginCall, Glance, LockList, UnlockList, TestEmpty
  <1>3. CASE PushEntry(u)
    <2>1. PICK e \in Entries \ allocated, v \in Values :
             /\ allocated' = allocated \cup {e} /\ entry' = [entry EXCEPT ![u] = e]
             /\ value' = [value EXCEPT ![e] = v] /\ data' = [data EXCEPT ![u] = v]
      BY <1>3 DEF PushEntry
    <2>. QED  BY <1>1, <1>3, <2>1 DEF PushEntry
  <1>4. CASE PushNext(u) \/ PushLink(u)
    BY <1>1, <1>4 DEF PushNext, PushLink
  <1>5. CASE PushLast(u)
    BY <1>1, <1>5, PointersAreEntries DEF PushLast
  <1>6. CASE PopEntry(u) \/ PopFirst(u)
    BY <1>1, <1>6, PointersAreEntries DEF PopEntry, PopFirst
  <1>7. CASE PopLast(u) \/ FreeEntry(u)
    BY <1>1, <1>7 DEF PopLast, FreeEntry, EmptyLast
  <1>. QED  BY <1>2, <1>3, <1>4, <1>5, <1>6, <1>7 DEF Pushes, Pops

\* The mutex: who is inside stays inside until he unlocks it, and nobody else gets in.
LEMMA ExclusiveKept ==
  ASSUME ListInv, NEW u \in Users, Calls(u) \/ Pushes(u) \/ Pops(u)
  PROVE  /\ Exclusive'
         /\ \A w \in Users \ {u} : /\ UNCHANGED <<upc[w], entry[w], data[w]>>
                                   /\ upc[u] \in Inside => upc[w] \notin Inside
  <1>1. ListTypeOK /\ Exclusive
    BY DEF ListInv
  <1>2. \A w \in Users \ {u} : /\ UNCHANGED <<upc[w], entry[w], data[w]>>
                               /\ upc[u] \in Inside => upc[w] \notin Inside
    BY <1>1 DEF Exclusive, ListTypeOK, UserGoes, Calls, BeginCall, Glance, LockList, UnlockList,
                TestEmpty, Pushes, PushEntry, PushNext, PushLink, PushLast, Pops, PopEntry,
                PopFirst, PopLast, FreeEntry
  <1>3. CASE LockList(u)
    BY <1>1, <1>3 DEF LockList, ListFree, UserGoes, Exclusive, ListTypeOK, Inside
  <1>4. CASE UnlockList(u)
    BY <1>1, <1>4 DEF UnlockList, UserGoes, Exclusive, ListTypeOK, Inside
  <1>5. CASE BeginCall(u) \/ Glance(u)
    BY <1>1, <1>5 DEF BeginCall, Glance, UserGoes, Exclusive, ListTypeOK, Inside
  <1>6. CASE TestEmpty(u) \/ Pushes(u) \/ Pops(u)
    <2>1. upc[u] \in Inside /\ upc'[u] \in Inside /\ holder' = holder
      BY <1>1, <1>6 DEF TestEmpty, Pushes, Pops, PushEntry, PushNext, PushLink, PushLast,
           PopEntry, PopFirst, PopLast, FreeEntry, UserGoes, ListTypeOK, Inside
    <2>. QED  BY <1>1, <1>2, <2>1 DEF Exclusive
  <1>. QED  BY <1>2, <1>3, <1>4, <1>5, <1>6 DEF Calls

\* A step as its effect on the sequence: one entry more at the end, the first one less,
\* or none.
Step(u, s, t) ==
    \/ PushLink(u) /\ t = Append(s, entry[u]) /\ value[entry[u]] = data[u]
    \/ PopFirst(u) /\ s # <<>> /\ t = Tail(s) /\ data[u] = value[s[1]]
    \/ /\ Quiet(u) \/ BeginCall(u) \/ Glance(u) \/ LockList(u) \/ UnlockList(u)
       /\ t = s /\ \A e \in Linked(s) : value'[e] = value[e]

\* From a step of the thread that has the mutex, and has it afterwards.
LEMMA FromStage ==
  ASSUME ListInv, NEW u \in Users, Calls(u) \/ Pushes(u) \/ Pops(u),
         upc[u] \in Inside, holder' = holder, NEW t \in Seq(Entries),
         IsList(t)', Stage(u, t)'
  PROVE  Stages(t)'
  <1>1. holder' # {}
    BY DEF ListInv, Exclusive
  <1>2. ASSUME NEW w \in Users \ {u}  PROVE Stage(w, t)'
    <2>1. upc'[w] \notin Inside
      BY <1>2, ExclusiveKept
    <2>. QED  BY <2>1 DEF Stage, Inside
  <1>. QED  BY <1>1, <1>2 DEF Stages

LEMMA EveryStep ==
  ASSUME ListInv, NEW u \in Users, Calls(u) \/ Pushes(u) \/ Pops(u),
         NEW s \in Seq(Entries), Stages(s)
  PROVE  \E t \in Seq(Entries) : Stages(t)' /\ Step(u, s, t)
  <1>1. ListTypeOK /\ Exclusive /\ IsList(s) /\ Stage(u, s)
    BY DEF ListInv, Stages
  <1>2. CASE Quiet(u)
    <2>1. upc[u] \in Inside /\ holder' = holder
      BY <1>2 DEF Quiet, TestEmpty, PushEntry, PushNext, PushLast, PopEntry, PopLast, FreeEntry,
                  UserGoes, Inside, list
    <2>2. IsList(s)' /\ Stage(u, s)' /\ \A e \in Linked(s) : value'[e] = value[e]
      BY <1>1, <1>2, QuietKeeps
    <2>. QED  BY <1>2, <2>1, <2>2, FromStage DEF Step
  <1>3. CASE PushLink(u)
    <2>1. upc[u] \in Inside /\ holder' = holder
      BY <1>3 DEF PushLink, UserGoes, Inside
    <2>2. PICK d : d = entry[u]
      OBVIOUS
    <2>3. /\ Append(s, d) \in Seq(Entries) /\ IsList(Append(s, d))'
          /\ Stage(u, Append(s, d))' /\ value[d] = data[u]
      BY <1>1, <1>3, <2>2, LinkAppends
    <2>4. Stages(Append(s, d))'
      BY <2>1, <2>3, FromStage
    <2>. QED  BY <1>3, <2>2, <2>3, <2>4 DEF Step
  <1>4. CASE PopFirst(u)
    <2>1. upc[u] \in Inside /\ holder' = holder
      BY <1>4 DEF PopFirst, UserGoes, Inside
    <2>2. /\ s # <<>> /\ Tail(s) \in Seq(Entries) /\ IsList(Tail(s))'
          /\ Stage(u, Tail(s))' /\ data[u] = value[s[1]]
      BY <1>1, <1>4, FirstBecomesTail
    <2>3. Stages(Tail(s))'
      BY <2>1, <2>2, FromStage
    <2>. QED  BY <1>4, <2>2, <2>3 DEF Step
  <1>5. CASE BeginCall(u) \/ Glance(u) \/ LockList(u) \/ UnlockList(u)
    <2>1. UNCHANGED <<stqh_first, stqh_last, next, value, allocated, entry, data>>
      BY <1>5 DEF BeginCall, Glance, LockList, UnlockList, list
    <2>2. IsList(s)'
      BY <1>1, <2>1 DEF IsList
    <2>3. ASSUME NEW w \in Users  PROVE Stage(w, s)'
      <3>1. Stage(w, s)
        BY DEF Stages
      <3>2. CASE w # u
        <4>1. upc'[w] = upc[w]
          BY <3>2, ExclusiveKept
        <4>. QED  BY <2>1, <3>1, <4>1 DEF Stage, Whole, Beside
      <3>3. CASE w = u
        <4>1. upc'[u] \in {"out", "call", "locked"} /\ (upc'[u] = "locked" => holder = {})
          BY <1>1, <1>5 DEF BeginCall, Glance, LockList, UnlockList, ListFree, UserGoes, ListTypeOK
        <4>2. holder = {} => Whole(s)
          BY DEF Stages
        <4>. QED  BY <2>1, <3>3, <4>1, <4>2 DEF Stage, Whole
      <3>. QED  BY <3>2, <3>3
    <2>4. holder' = {} => Whole(s)'
      <3>1. CASE UnlockList(u)
        BY <1>1, <2>1, <3>1 DEF UnlockList, UserGoes, Stage, Whole
      <3>2. CASE BeginCall(u) \/ Glance(u) \/ LockList(u)
        <4>1. holder' = {} => holder = {}
          BY <3>2 DEF BeginCall, Glance, LockList
        <4>. QED  BY <2>1, <4>1 DEF Stages, Whole
      <3>. QED  BY <1>5, <3>1, <3>2
    <2>5. Stages(s)'
      BY <2>2, <2>3, <2>4 DEF Stages
    <2>. QED  BY <1>5, <2>1, <2>5 DEF Step
  <1>. QED  BY <1>2, <1>3, <1>4, <1>5 DEF Calls, Pushes, Pops, Quiet

LEMMA ListPreserved == ASSUME ListInv, [ListNext]_list_vars PROVE ListInv'
  <1>1. CASE ListNext
    <2>1. PICK u \in Users : Calls(u) \/ Pushes(u) \/ Pops(u)
      BY <1>1 DEF ListNext
    <2>2. \E t \in Seq(Entries) : Stages(t)'
      BY <2>1, EveryStep DEF ListInv
    <2>. QED  BY <2>1, <2>2, ListTypes, ExclusiveKept DEF ListInv
  <1>2. CASE UNCHANGED list_vars
    BY <1>2 DEF list_vars, list, ListInv, ListTypeOK, Exclusive, Stages, Stage, IsList,
                Whole, Beside
  <1>. QED  BY <1>1, <1>2

THEOREM ListInvariance == ListSpec => []ListInv
  <1>1. ListInv /\ [ListNext]_list_vars => ListInv'
    BY ListPreserved
  <1>. QED  BY <1>1, ListInitially, PTL DEF ListSpec

\* Every variable of the list and of the threads has its type.
THEOREM ListTypeCorrect == ListSpec => []ListTypeOK
  <1>1. ListInv => ListTypeOK
    BY DEF ListInv
  <1>. QED  BY <1>1, ListInvariance, PTL

\* The sequence of the invariant is the one that the pointers determine.
LEMMA OrderStages == ASSUME ListInv PROVE Stages(Order) /\ Order \in Seq(Entries)
  <1>1. PICK s \in Seq(Entries) : Stages(s)
    BY DEF ListInv
  <1>2. s \in Lists
    BY <1>1, SequenceIsList DEF Stages, IsList
  <1>. QED  BY <1>1, <1>2, OrderIs DEF Stages, OrderIsList

\* pop's assertion holds, no entry is used before malloc or after free, and between the
\* calls the entries in use are those of the list (myqueue.h:28-40).
THEOREM ListMemory == ListSpec => []MemoryIsSound
  <1>1. ASSUME ListInv  PROVE MemoryIsSound
    <2>1. \A u \in Users :
            /\ upc[u] \in {"pop", "pop_first"} => stqh_first # NULL
            /\ upc[u] \in {"push_next", "push_link", "push_last", "pop_first", "pop_last", "free"}
                 => entry[u] \in allocated
      <3>1. NULL \notin Entries
        BY MyQueueAssumption DEF NULL, Entries
      <3>. QED  BY <1>1, <3>1, PointersAreEntries
    <2>2. holder = {} => allocated = Linked(Order)
      BY <1>1, OrderStages DEF Stages, Whole
    <2>. QED  BY <2>1, <2>2 DEF MemoryIsSound, Linked
  <1>. QED  BY <1>1, ListInvariance, PTL

-----------------------------------------------------------------------------
(* The refinement of the atomic queue. *)

LEMMA AtomicInitially == ListInit => AQ!Init
  <1>1. SUFFICES ASSUME ListInit  PROVE AQ!Init
    OBVIOUS
  <1>2. Order = <<>>
    <2>1. <<>> \in Seq(Entries) /\ IsList(<<>>)
      BY <1>1 DEF ListInit, IsList
    <2>2. <<>> \in Lists
      <3>1. PICK s \in Seq(Entries) : s = <<>>
        BY <2>1
      <3>2. \A k, j \in DOMAIN s : s[k] = s[j] => k = j
        BY <3>1
      <3>. QED  BY <3>1, <3>2, SequenceIsList
    <2>. QED  BY <2>1, <2>2, OrderIs DEF OrderIsList
  <1>3. Contents = <<>>
    BY <1>2 DEF Contents
  <1>4. Answered = [u \in Users |-> "none"]
    BY <1>1 DEF ListInit, Answered
  <1>. QED  BY <1>3, <1>4 DEF AQ!Init

\* The values of the sequence, before and after a step.
LEMMA ContentsOf ==
  ASSUME ListInv, NEW u \in Users, Calls(u) \/ Pushes(u) \/ Pops(u)
  PROVE  \E s, t \in Seq(Entries) :
            /\ Step(u, s, t) /\ Stages(s)
            /\ Contents = [k \in DOMAIN s |-> value[s[k]]]
            /\ Contents' = [k \in DOMAIN t |-> value'[t[k]]]
  <1>1. Stages(Order) /\ Order \in Seq(Entries)
    BY OrderStages
  <1>2. PICK s \in Seq(Entries) : s = Order /\ Stages(s)
    BY <1>1
  <1>3. PICK t \in Seq(Entries) : Stages(t)' /\ Step(u, s, t)
    BY <1>2, EveryStep
  <1>4. IsList(t)'
    BY <1>3 DEF Stages
  <1>5. t \in Lists
    BY <1>4, SequenceIsList DEF IsList
  <1>6. OrderIsList'
    BY OrderIs, PTL
  <1>7. Order' = t
    BY <1>4, <1>5, <1>6 DEF OrderIsList
  <1>. QED  BY <1>2, <1>3, <1>7 DEF Contents

\* The answers: a step changes at most the one of its thread.
LEMMA AnsweredIs ==
  ASSUME ListTypeOK, ListTypeOK', NEW u \in Users, NEW a,
         \A w \in Users \ {u} : UNCHANGED <<upc[w], data[w], answer[w]>>,
         a = IF upc'[u] \in {"push_last", "pop_last", "free"} THEN data'[u] ELSE answer'[u]
  PROVE  Answered' = [Answered EXCEPT ![u] = a]
  BY DEF Answered, ListTypeOK

LEMMA OthersAnswers ==
  ASSUME ListInv, NEW u \in Users, Calls(u) \/ Pushes(u) \/ Pops(u)
  PROVE  \A w \in Users \ {u} : UNCHANGED <<upc[w], data[w], answer[w]>>
  <1>1. \A w \in Users \ {u} : answer'[w] = answer[w]
    BY DEF ListInv, ListTypeOK, Answers, list, Calls, BeginCall, Glance, LockList, UnlockList,
           TestEmpty, Pushes, PushEntry, PushNext, PushLink, PushLast, Pops, PopEntry,
           PopFirst, PopLast, FreeEntry
  <1>. QED  BY <1>1, ExclusiveKept

LEMMA AtomicStep == ASSUME ListInv, [ListNext]_list_vars PROVE [AQ!Next]_(AQ!vars)
  <1>1. CASE UNCHANGED list_vars
    BY <1>1 DEF list_vars, list, AQ!vars, Contents, Answered, Order, IsList
  <1>2. ASSUME NEW u \in Users, Calls(u) \/ Pushes(u) \/ Pops(u)
        PROVE  [AQ!Next]_(AQ!vars)
    <2>1. PICK s \in Seq(Entries), t \in Seq(Entries) :
             /\ Step(u, s, t) /\ Stages(s)
             /\ Contents = [k \in DOMAIN s |-> value[s[k]]]
             /\ Contents' = [k \in DOMAIN t |-> value'[t[k]]]
      BY <1>2, ContentsOf
    <2>2. /\ ListTypeOK /\ ListTypeOK'
          /\ \A w \in Users \ {u} : UNCHANGED <<upc[w], data[w], answer[w]>>
      BY <1>2, ListTypes, OthersAnswers DEF ListInv
    <2>3. Answered[u] = IF upc[u] \in {"push_last", "pop_last", "free"} THEN data[u] ELSE answer[u]
      BY DEF Answered
    <2>4. ASSUME t = s, \A e \in Linked(s) : value'[e] = value[e]  PROVE Contents' = Contents
      BY <2>1, <2>4 DEF Linked
    <2>5. stqh_first = NULL <=> Contents = <<>>
      <3>1. stqh_first = NULL <=> s = <<>>
        <4>1. s # <<>> => s[1] \in Entries
          <5>. HIDE DEF Entries
          <5>. QED  OBVIOUS
        <4>2. NULL \notin Entries
          BY MyQueueAssumption DEF Entries, NULL
        <4>. QED  BY <2>1, <4>1, <4>2 DEF Stages, IsList
      <3>2. s = <<>> <=> DOMAIN s = {}
        OBVIOUS
      <3>. QED  BY <2>1, <3>1, <3>2
    <2>6. ASSUME ~PushLink(u), ~PopFirst(u)  PROVE Contents' = Contents
      BY <2>1, <2>4, <2>6 DEF Step
    <2>7. ASSUME NEW x, x = IF upc'[u] \in {"push_last", "pop_last", "free"}
                            THEN data'[u] ELSE answer'[u]
          PROVE  Answered' = [Answered EXCEPT ![u] = x]
      BY <2>2, <2>7, AnsweredIs
    <2>8. CASE BeginCall(u)
      <3>1. Answered' = [Answered EXCEPT ![u] = "none"]
        BY <2>2, <2>7, <2>8 DEF BeginCall, UserGoes, Answers, ListTypeOK
      <3>2. Contents' = Contents
        BY <2>6, <2>8 DEF BeginCall, UserGoes, PushLink, PopFirst
      <3>. QED  BY <3>1, <3>2 DEF AQ!Next, AQ!Begin, AQ!Answers
    <2>9. CASE Glance(u) \/ TestEmpty(u)
      <3>1. Answered' = [Answered EXCEPT ![u] = IF stqh_first = NULL THEN "empty" ELSE "more"]
        BY <2>2, <2>7, <2>9 DEF Glance, TestEmpty, UserGoes, Answers, ListTypeOK
      <3>2. Contents' = Contents
        BY <2>6, <2>9 DEF Glance, TestEmpty, UserGoes, PushLink, PopFirst
      <3>. QED  BY <2>5, <3>1, <3>2 DEF AQ!Next, AQ!IsEmpty, AQ!Answers
    <2>10. CASE PushLink(u)
      <3>1. Answered' = [Answered EXCEPT ![u] = data[u]]
        BY <2>2, <2>7, <2>10 DEF PushLink, UserGoes, ListTypeOK
      <3>2. /\ t = Append(s, entry[u]) /\ value[entry[u]] = data[u] /\ value' = value
            /\ entry[u] \in Entries
        BY <1>2, <2>1, <2>10, PointersAreEntries
           DEF Step, Quiet, PushLink, PopFirst, UserGoes, BeginCall, Glance, LockList, UnlockList,
               TestEmpty, PushEntry, PushNext, PushLast, PopEntry, PopLast, FreeEntry
      <3>3. Contents' = Append(Contents, data[u])
        BY <2>1, <3>2
      <3>4. data[u] \in Values
        BY <2>2 DEF ListTypeOK
      <3>. QED  BY <3>1, <3>3, <3>4 DEF AQ!Next, AQ!Push, AQ!Answers
    <2>11. CASE PopFirst(u)
      <3>1. Answered' = [Answered EXCEPT ![u] = data[u]]
        BY <2>2, <2>7, <2>11 DEF PopFirst, UserGoes, ListTypeOK
      <3>2. s # <<>> /\ t = Tail(s) /\ data[u] = value[s[1]] /\ value' = value
        BY <2>1, <2>11
           DEF Step, Quiet, PushLink, PopFirst, UserGoes, BeginCall, Glance, LockList, UnlockList,
               TestEmpty, PushEntry, PushNext, PushLast, PopEntry, PopLast, FreeEntry
      <3>3. Contents # <<>> /\ Head(Contents) = data[u] /\ Contents' = Tail(Contents)
        BY <2>1, <3>2
      <3>. QED  BY <3>1, <3>3 DEF AQ!Next, AQ!Pop, AQ!Answers
    <2>12. CASE \/ LockList(u) \/ UnlockList(u) \/ PushEntry(u) \/ PushNext(u)
                \/ PushLast(u) \/ PopEntry(u) \/ PopLast(u) \/ FreeEntry(u)
      <3>1. Answered' = [Answered EXCEPT ![u] = Answered[u]]
        <4>1. Answered[u] = IF upc'[u] \in {"push_last", "pop_last", "free"}
                            THEN data'[u] ELSE answer'[u]
          BY <2>2, <2>3, <2>12 DEF LockList, UnlockList, PushEntry, PushNext, PushLast, PopEntry,
             PopLast, FreeEntry, UserGoes, Answers, ListTypeOK
        <4>. QED  BY <2>7, <4>1
      <3>2. Answered' = Answered
        BY <3>1 DEF Answered
      <3>3. Contents' = Contents
        BY <2>6, <2>12 DEF LockList, UnlockList, PushEntry, PushNext, PushLast, PopEntry,
           PopLast, FreeEntry, UserGoes, PushLink, PopFirst
      <3>. QED  BY <3>2, <3>3 DEF AQ!vars
    <2>. QED  BY <1>2, <2>8, <2>9, <2>10, <2>11, <2>12 DEF Calls, Pushes, Pops
  <1>. QED  BY <1>1, <1>2 DEF ListNext

\* No thread can tell the list under its mutex from a queue with atomic calls, not even
\* with the test that is made without the mutex (task2.c:86).
THEOREM ListImplementsQueue == ListSpec => ImplementsAtomicQueue
  <1>1. ListInv /\ [ListNext]_list_vars => [AQ!Next]_(AQ!vars)
    BY AtomicStep
  <1>. QED  BY <1>1, AtomicInitially, ListInvariance, PTL
            DEF ListSpec, ImplementsAtomicQueue, AQ!Spec
=============================================================================
