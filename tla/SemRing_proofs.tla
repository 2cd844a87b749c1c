--------------------------- MODULE SemRing_proofs ---------------------------
(***************************************************************************)
(* The theorems about SemRing: its type invariant, the absence of races    *)
(* and of stale reads, and the checksum, for every N, K, L and W.          *)
(***************************************************************************)
EXTENDS SemRing, WellFoundedInduction, TLAPS

USE SemRingAssumption DEF FreeElements, MayWrite, MayRead, Reaped

-----------------------------------------------------------------------------
(* Arithmetic. *)

\* Every non-empty set of natural numbers has a least element.
LEMMA LeastElement ==
    ASSUME NEW S \in SUBSET Nat, S # {}
    PROVE  \E m \in S : \A k \in S : m <= k
<1>1. PICK m \in S : \A k \in S : <<k, m>> \notin OpToRel(<, Nat)
  BY WFMin, NatLessThanWellFounded, Zenon
<1>2. \A k \in S : ~(k < m)
  BY <1>1, Zenon DEF OpToRel
<1>3. QED
  BY <1>2

\* A remainder is in the range of the divisor.
LEMMA RemainderRange ==
    ASSUME NEW a \in Int, NEW b \in Nat \ {0}
    PROVE  a % b \in 0..(b - 1)
OBVIOUS

\* Two numbers that are less than b apart have different remainders.
LEMMA RemaindersDiffer ==
    ASSUME NEW b \in Nat \ {0}, NEW i \in Nat, NEW j \in Nat, i < j, j - i < b
    PROVE  i % b # j % b
<1> DEFINE p == i \div b
           q == j \div b
<1>1. /\ p \in Int /\ q \in Int
      /\ i = (b * p) + (i % b)
      /\ j = (b * q) + (j % b)
  OBVIOUS
<1>2. SUFFICES ASSUME i % b = j % b PROVE FALSE
  OBVIOUS
<1>3. j - i = b * (q - p)
  BY <1>1, <1>2
<1> HIDE DEF p, q
<1>4. CASE q - p >= 1
  BY <1>1, <1>3, <1>4
<1>5. CASE q - p <= 0
  BY <1>1, <1>3, <1>5
<1>6. QED
  BY <1>1, <1>4, <1>5

-----------------------------------------------------------------------------
(* What validate_result subtracts. *)

\* A sum of uint64_t values wraps around into their range.
LEMMA SumRange ==
    ASSUME NEW a \in Nat, NEW b \in Nat PROVE (a + b) % W \in 0..(W - 1)
<1>1. a + b \in Int
  OBVIOUS
<1>2. QED
  BY <1>1, RemainderRange

\* So does what A stores.
LEMMA ProductRange == \A i \in Nat : Product(i) \in 0..(W - 1)
BY RemainderRange DEF Product

\* The recursive definition of Expected has a solution, and therefore is one: the
\* least m without a solution on 0..m would have one that extends that on 0..(m - 1).
LEMMA ExpectedEquation ==
    Expected = [k \in 0..K |-> IF k = 0 THEN 0 ELSE (Expected[k - 1] + Product(k)) % W]
<1> DEFINE Solves(g, m) == /\ g \in [0..m -> 0..(W - 1)]
                           /\ g[0] = 0
                           /\ \A k \in 1..m : g[k] = (g[k - 1] + Product(k)) % W
           Unsolved == {m \in Nat : ~ \E g : Solves(g, m)}
<1>1. Unsolved = {}
  <2>1. SUFFICES ASSUME Unsolved # {} PROVE FALSE
    OBVIOUS
  <2>2. PICK m \in Unsolved : \A k \in Unsolved : m <= k
    BY <2>1, LeastElement
  <2>3. m # 0
    <3>1. Solves([k \in 0..0 |-> 0], 0)
      OBVIOUS
    <3>2. QED
      BY <2>2, <3>1
  <2>4. PICK g : Solves(g, m - 1)
    <3>1. m - 1 \in Nat /\ ~(m <= m - 1)
      BY <2>2, <2>3
    <3>2. m - 1 \notin Unsolved
      BY <2>2, <3>1, Zenon
    <3>3. QED
      BY <3>1, <3>2
  <2>5. Solves([k \in 0..m |-> IF k = m THEN (g[m - 1] + Product(m)) % W ELSE g[k]], m)
    <3> DEFINE h == [k \in 0..m |-> IF k = m THEN (g[m - 1] + Product(m)) % W ELSE g[k]]
    <3>1. (g[m - 1] + Product(m)) % W \in 0..(W - 1)
      <4>1. Product(m) \in Nat
        BY <2>2, ProductRange
      <4>2. g[m - 1] \in Nat
        BY <2>2, <2>3, <2>4
      <4>3. QED
        BY <4>1, <4>2, SumRange
    <3>2. h \in [0..m -> 0..(W - 1)]
      BY <2>3, <2>4, <3>1
    <3>3. h[0] = 0
      BY <2>3, <2>4
    <3>4. ASSUME NEW k \in 1..m PROVE h[k] = (h[k - 1] + Product(k)) % W
      BY <2>3, <2>4
    <3>5. QED
      BY <3>2, <3>3, <3>4
  <2>6. QED
    BY <2>2, <2>5
<1>2. PICK g : Solves(g, K)
  BY <1>1
<1>3. g = [k \in 0..K |-> IF k = 0 THEN 0 ELSE (g[k - 1] + Product(k)) % W]
  BY <1>2
<1>4. QED
  BY <1>3 DEF Expected

\* The two cases of Expected, one loop iteration of validate_result each.
LEMMA ExpectedSteps == /\ Expected[0] = 0
                       /\ \A k \in 1..K : Expected[k] = (Expected[k - 1] + Product(k)) % W
BY ExpectedEquation

\* Its values are uint64_t values: a smallest index with another value has a
\* predecessor, and from that the equation leads back into the range.
LEMMA ExpectedRange == \A k \in 0..K : Expected[k] \in 0..(W - 1)
<1> DEFINE Outside == {k \in 0..K : Expected[k] \notin 0..(W - 1)}
<1>1. SUFFICES ASSUME Outside # {} PROVE FALSE
  OBVIOUS
<1>2. PICK m \in Outside : \A k \in Outside : m <= k
  <2>1. Outside \in SUBSET Nat
    OBVIOUS
  <2>2. QED
    BY <1>1, <2>1, LeastElement, Zenon
<1>3. m # 0
  BY <1>2, ExpectedSteps
<1>4. Expected[m - 1] \in 0..(W - 1)
  BY <1>2, <1>3
<1>5. Expected[m] \in 0..(W - 1)
  <2>1. m \in 1..K /\ Product(m) \in 0..(W - 1)
    BY <1>2, <1>3, ProductRange
  <2>2. (Expected[m - 1] + Product(m)) % W \in 0..(W - 1)
    <3>1. Expected[m - 1] \in Nat /\ Product(m) \in Nat
      BY <1>4, <2>1
    <3>2. QED
      BY <3>1, SumRange
  <2>3. QED
    BY <2>1, <2>2, ExpectedSteps
<1>6. QED
  BY <1>2, <1>5

-----------------------------------------------------------------------------
(* The inductive invariant. *)

One(b) == IF b THEN 1 ELSE 0

\* A semaphore counts what the one child has posted less what the other has taken.
Counters == /\ sem_fd_1 = written - One(apc = "post") - summed - One(bpc = "read")
            /\ sem_fd_2 = L + summed - One(bpc = "post") - written - One(apc = "write")

\* How far the processes are.
Progress == /\ ppc = "fork_a" => apc = "none"
            /\ ppc \in {"fork_a", "fork_b"} => bpc = "none"
            /\ apc = "none" => written = 0
            /\ bpc = "none" => summed = 0
            /\ apc \in {"wait", "write"} => written < K
            /\ bpc \in {"wait", "read"} => summed < K
            /\ bpc = "done" => summed = K

\* What B has still to read is what A has written there last.
Unread == \A i \in (summed + 1)..written : buffer[i % L] = Product(i)

Summed == /\ result = Expected[summed]
          /\ ppc = "exit" => checksum = 0

\* The inductive invariant of the five parts.
IInv == TypeOK /\ Counters /\ Progress /\ Unread /\ Summed

\* While A writes and B may be reading, the elements that are full, and the one A
\* writes, are less than L apart.
LEMMA Distance ==
    ASSUME TypeOK, Counters
    PROVE  /\ summed <= written /\ written - summed <= L
           /\ apc = "write" => written - summed < L
           /\ bpc = "read" => summed < written
BY DEF TypeOK, Counters, One

\* It holds when the parent has set up the shared memory (task3.c:73-79).
LEMMA Initially == Init => IInv
<1> SUFFICES ASSUME Init PROVE IInv
  OBVIOUS
<1>1. TypeOK
  BY DEF Init, RingInit, TypeOK
<1>2. Counters /\ Progress /\ Unread
  BY DEF Init, RingInit, Counters, Progress, Unread, One
<1>3. Summed
  BY ExpectedSteps DEF Init, RingInit, Summed
<1>4. QED
  BY <1>1, <1>2, <1>3 DEF IInv

\* The steps of the parent and those on the semaphores leave the buffer alone.
LEMMA OtherSteps ==
    ASSUME IInv, ForkA \/ ForkB \/ WaitA \/ PostA \/ WaitB \/ PostB
    PROVE  IInv'
<1> USE DEF IInv
<1>1. Unread' /\ Summed'
  BY DEF TypeOK, Unread, Summed, ForkA, ForkB, WaitA, PostA, WaitB, PostB, ring_vars
<1>2. CASE ForkA
  BY <1>1, <1>2 DEF TypeOK, Counters, Progress, One, ForkA, ring_vars
<1>3. CASE ForkB
  BY <1>1, <1>3 DEF TypeOK, Counters, Progress, One, ForkB, ring_vars
<1>4. CASE WaitA
  <2>1. Counters'
    BY <1>4 DEF TypeOK, Counters, One, WaitA, ring_vars
  <2>2. TypeOK' /\ Progress'
    BY <1>4, Distance DEF TypeOK, Counters, Progress, One, WaitA, ring_vars
  <2>3. QED
    BY <1>1, <2>1, <2>2
<1>5. CASE PostA
  <2>1. Counters'
    BY <1>5 DEF TypeOK, Counters, One, PostA, ring_vars
  <2>2. TypeOK' /\ Progress'
    BY <1>5, Distance DEF TypeOK, Counters, Progress, One, PostA, ring_vars
  <2>3. QED
    BY <1>1, <2>1, <2>2
<1>6. CASE WaitB
  <2>1. Counters'
    BY <1>6 DEF TypeOK, Counters, One, WaitB, ring_vars
  <2>2. TypeOK' /\ Progress'
    BY <1>6, Distance DEF TypeOK, Counters, Progress, One, WaitB, ring_vars
  <2>3. QED
    BY <1>1, <2>1, <2>2
<1>7. CASE PostB
  <2>1. Counters'
    BY <1>7 DEF TypeOK, Counters, One, PostB, ring_vars
  <2>2. TypeOK' /\ Progress'
    BY <1>7, Distance DEF TypeOK, Counters, Progress, One, PostB, ring_vars
  <2>3. QED
    BY <1>1, <2>1, <2>2
<1>8. QED
  BY <1>2, <1>3, <1>4, <1>5, <1>6, <1>7

\* A's store: it overwrites no element that B has still to read (task3.c:114).
LEMMA WriteStep == ASSUME IInv, WriteA PROVE IInv'
<1> USE DEF IInv
<1> DEFINE i == written + 1
<1>1. /\ i \in 1..K /\ i % L \in 0..(L - 1)
      /\ Product(i) \in 0..(W - 1)
      /\ buffer' = [buffer EXCEPT ![i % L] = Product(i)]
      /\ written' = i /\ apc = "write" /\ apc' = "post"
      /\ UNCHANGED <<result, summed, sem_fd_1, sem_fd_2, ppc, bpc, checksum>>
  <2>1. i \in 1..K /\ i \in Nat /\ i \in Int
    BY DEF TypeOK, WriteA, Write
  <2>2. i % L \in 0..(L - 1) /\ Product(i) \in 0..(W - 1)
    BY <2>1, ProductRange, RemainderRange
  <2>3. QED
    BY <2>1, <2>2 DEF WriteA, Write
<1> HIDE DEF i
<1>2. TypeOK'
  BY <1>1 DEF TypeOK
<1>3. Counters' /\ Progress'
  BY <1>1 DEF TypeOK, Counters, Progress, One, i
<1>4. Unread'
  <2>1. SUFFICES ASSUME NEW j \in (summed + 1)..i PROVE buffer'[j % L] = Product(j)
    BY <1>1 DEF Unread
  <2>2. CASE j = i
    BY <1>1, <2>2 DEF TypeOK
  <2>3. CASE j # i
    <3>1. j \in Nat /\ i \in Nat /\ j < i /\ i - j < L /\ j \in (summed + 1)..written
      BY <1>1, <2>3, Distance DEF TypeOK, i
    <3>2. j % L # i % L
      BY <3>1, RemaindersDiffer
    <3>3. j % L \in 0..(L - 1)
      BY <3>1, RemainderRange
    <3>4. QED
      BY <1>1, <3>1, <3>2, <3>3 DEF TypeOK, Unread
  <2>4. QED
    BY <2>2, <2>3
<1>5. Summed'
  BY <1>1 DEF Summed
<1>6. QED
  BY <1>2, <1>3, <1>4, <1>5

\* B's addition keeps result the sum of the first products (task3.c:103).
LEMMA ReadStep == ASSUME IInv, ReadB PROVE IInv'
<1> USE DEF IInv
<1> DEFINE i == summed + 1
<1>1. /\ i \in 1..K /\ i \in (summed + 1)..written
      /\ result' = (result + buffer[i % L]) % W
      /\ summed' = i /\ bpc = "read" /\ bpc' = "post"
      /\ UNCHANGED <<buffer, written, sem_fd_1, sem_fd_2, ppc, apc, checksum>>
  BY Distance DEF TypeOK, ReadB, Sum
<1>2. result' = Expected[i]
  <2>1. buffer[i % L] = Product(i) /\ result = Expected[i - 1]
    BY <1>1 DEF TypeOK, Unread, Summed
  <2>2. QED
    BY <1>1, <2>1, ExpectedSteps
<1> HIDE DEF i
<1>3. TypeOK'
  BY <1>1, <1>2, ExpectedRange DEF TypeOK
<1>4. Counters' /\ Progress'
  BY <1>1 DEF TypeOK, Counters, Progress, One, i
<1>5. Unread'
  <2>1. SUFFICES ASSUME NEW j \in (i + 1)..written PROVE buffer[j % L] = Product(j)
    BY <1>1 DEF Unread
  <2>2. j \in (summed + 1)..written
    BY DEF TypeOK, i
  <2>3. QED
    BY <2>2 DEF Unread
<1>6. Summed'
  BY <1>1, <1>2 DEF TypeOK, Summed, Progress, i
<1>7. QED
  BY <1>3, <1>4, <1>5, <1>6

\* The parent subtracts the sum that B has computed (task3.c:96, 129-134).
LEMMA ValidateStep == ASSUME IInv, Validate PROVE IInv'
<1> USE DEF IInv
<1>1. result = Expected[K] /\ Expected[K] \in 0..(W - 1)
  BY ExpectedRange DEF Validate, Progress, Summed
<1>2. Checksum = 0
  BY <1>1 DEF Checksum
<1>3. checksum' = 0 /\ 0 \in -1..(W - 1)
  BY <1>2 DEF Validate
<1>4. QED
  BY <1>3 DEF Validate, TypeOK, Counters, Progress, Unread, Summed, One, ring_vars

\* SemRing's invariant: no process of task3.c ever leaves it.
THEOREM Invariance == Spec => []IInv
<1>1. ASSUME IInv, [Next]_vars PROVE IInv'
  <2>1. CASE ForkA \/ ForkB \/ WaitA \/ PostA \/ WaitB \/ PostB
    BY <1>1, <2>1, OtherSteps
  <2>2. CASE WriteA
    BY <1>1, <2>2, WriteStep
  <2>3. CASE ReadB
    BY <1>1, <2>3, ReadStep
  <2>4. CASE Validate
    BY <1>1, <2>4, ValidateStep
  <2>5. CASE UNCHANGED vars
    BY <1>1, <2>5 DEF vars, ring_vars, IInv, TypeOK, Counters, Progress, Unread, Summed, One
  <2>6. QED
    BY <1>1, <2>1, <2>2, <2>3, <2>4, <2>5 DEF Next, Parent, ChildA, ChildB
<1>2. QED
  BY <1>1, Initially, PTL DEF Spec

-----------------------------------------------------------------------------
(* The theorems. *)

\* The fields of the shared struct and the locals of the processes keep their types;
\* no semaphore ever counts more than L (task3.c:74-116).
THEOREM TypeCorrect == Spec => []TypeOK
<1>1. IInv => TypeOK
  BY DEF IInv
<1>2. QED
  BY <1>1, Invariance, PTL

\* A and B are never in the same element of the buffer at a time (task3.c:103, 114).
THEOREM RaceFree == Spec => []NoDataRace
<1>1. IInv => NoDataRace
  <2>1. SUFFICES ASSUME IInv, apc = "write", bpc = "read"
                 PROVE  (written + 1) % L # (summed + 1) % L
    BY DEF NoDataRace
  <2>2. /\ summed + 1 \in Nat /\ written + 1 \in Nat
        /\ summed + 1 < written + 1 /\ (written + 1) - (summed + 1) < L
    BY <2>1, Distance DEF IInv, TypeOK
  <2>3. QED
    BY <2>2, RemaindersDiffer
<1>2. QED
  BY <1>1, Invariance, PTL

\* B sums what A computed in the same iteration (task3.c:103, 114).
THEOREM ReadsWhatWasWritten == Spec => []ReadsOwnProduct
<1>1. IInv => ReadsOwnProduct
  <2>1. SUFFICES ASSUME IInv, bpc = "read"
                 PROVE  buffer[(summed + 1) % L] = Product(summed + 1)
    BY DEF ReadsOwnProduct
  <2>2. summed + 1 \in (summed + 1)..written
    BY <2>1, Distance DEF IInv, TypeOK
  <2>3. QED
    BY <2>1, <2>2 DEF IInv, Unread
<1>2. QED
  BY <1>1, Invariance, PTL

\* The parent prints 0 (task3.c:96, 129-134).
THEOREM ChecksumIsZero == Spec => []CorrectChecksum
<1>1. IInv => CorrectChecksum
  BY DEF IInv, Summed, CorrectChecksum
<1>2. QED
  BY <1>1, Invariance, PTL

\* task3 makes no step on the buffer that the program of task2 could not make
\* (exercise05/README.md:178).
THEOREM Implements == Spec => ImplementsTask2
<1>1. Init => Task2!RingInit
  BY DEF Init, RingInit, Task2!RingInit
<1>2. [Next]_vars => [Task2!Write \/ Task2!Sum]_(Task2!ring_vars)
  BY DEF Next, vars, ring_vars, Task2!ring_vars, Parent, ChildA, ChildB, ForkA, ForkB,
         Validate, WaitA, WriteA, PostA, WaitB, ReadB, PostB, Write, Sum, Task2!Write,
         Task2!Sum, Product, Task2!Product
<1>3. QED
  BY <1>1, <1>2, PTL DEF Spec, ImplementsTask2, Task2!RingSpec
=============================================================================
