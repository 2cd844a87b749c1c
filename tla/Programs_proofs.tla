--------------------------- MODULE Programs_proofs ---------------------------
(***************************************************************************)
(* The theorems about the programs that MCPrograms runs beside the         *)
(* beehive, for all values of their constants: the scheduler keeps its     *)
(* tasks and sorts their numbers, the FIFO server counts only clients that *)
(* have left, the memory tracker of the address book is exact, and the threads of the *)
(* chat server of the other author have connections of their own.          *)
(***************************************************************************)
EXTENDS Scheduler, FifoServer, AddressBook, CondChat, FiniteSetTheorems,
        WellFoundedInduction, TLAPS

-----------------------------------------------------------------------------
(* Numbers and sequences. *)

\* Every non-empty set of natural numbers has a least element.
LEMMA LeastElement ==
    ASSUME NEW S \in SUBSET Nat, S # {}
    PROVE  \E m \in S : \A k \in S : m <= k
<1>1. PICK m \in S : \A k \in S : <<k, m>> \notin OpToRel(<, Nat)
  BY WFMin, NatLessThanWellFounded, Zenon
<1>2. \A k \in S : ~(k < m)
  BY <1>1, Zenon DEF OpToRel
<1>3. QED
  BY <1>2

\* A sequence without its element j.
LEMMA SecondPart ==
    ASSUME NEW S, NEW a \in Seq(S), NEW b \in Seq(S), NEW n \in 1..(Len(a) + Len(b)),
           ~(n <= Len(a))
    PROVE  (a \o b)[n] = b[n - Len(a)]
OBVIOUS

LEMMA WithoutElement ==
    ASSUME NEW S, NEW q \in Seq(S), NEW j \in 1..Len(q)
    PROVE  LET r == SubSeq(q, 1, j - 1) \o SubSeq(q, j + 1, Len(q))
           IN  /\ r \in Seq(S) /\ Len(r) = Len(q) - 1 /\ DOMAIN r = 1..(Len(q) - 1)
               /\ \A n \in 1..(Len(q) - 1) : r[n] = IF n < j THEN q[n] ELSE q[n + 1]
<1>1. Len(q) \in Nat
  OBVIOUS
<1> DEFINE front == SubSeq(q, 1, j - 1)
           back  == SubSeq(q, j + 1, Len(q))
<1>2. /\ front \in Seq(S) /\ Len(front) = j - 1
      /\ back \in Seq(S) /\ Len(back) = Len(q) - j
  BY <1>1
<1>3. /\ \A n \in 1..(j - 1) : front[n] = q[n]
      /\ \A n \in 1..(Len(q) - j) : back[n] = q[j + n]
  BY <1>1
<1> SUFFICES /\ front \o back \in Seq(S) /\ Len(front \o back) = Len(q) - 1
             /\ DOMAIN (front \o back) = 1..(Len(q) - 1)
             /\ \A n \in 1..(Len(q) - 1) :
                   (front \o back)[n] = IF n < j THEN q[n] ELSE q[n + 1]
  OBVIOUS
<1> HIDE DEF front, back
<1>4. /\ front \o back \in Seq(S) /\ Len(front \o back) = Len(q) - 1
      /\ DOMAIN (front \o back) = 1..(Len(q) - 1)
  BY <1>1, <1>2
<1>5. ASSUME NEW n \in 1..(Len(q) - 1)
      PROVE  (front \o back)[n] = IF n < j THEN q[n] ELSE q[n + 1]
  <2>1. CASE n < j
    <3>1. n \in 1..(j - 1)
      BY <1>1, <2>1
    <3>2. (front \o back)[n] = front[n]
      BY <1>1, <1>2, <3>1
    <3>3. QED
      BY <1>3, <2>1, <3>1, <3>2
  <2>2. CASE ~(n < j)
    <3>1. n - (j - 1) \in 1..(Len(q) - j) /\ j + (n - (j - 1)) = n + 1
      BY <1>1, <2>2
    <3>2. n \in 1..(Len(front) + Len(back)) /\ ~(n <= Len(front)) /\ Len(front) = j - 1
      BY <1>1, <1>2, <2>2
    <3>3. (front \o back)[n] = back[n - Len(front)]
      BY <1>2, <3>2, SecondPart
    <3>4. back[n - (j - 1)] = q[n + 1]
      BY <1>3, <3>1
    <3>5. QED
      BY <2>2, <3>2, <3>3, <3>4
  <2>3. QED
    BY <2>1, <2>2
<1>6. QED
  BY <1>4, <1>5

-----------------------------------------------------------------------------
(* Scheduler: choosing a message, and sorting. *)

\* Among the first m messages one has the highest priority and is the oldest of those:
\* the least prefix without one would have that of the prefix before it, or its last.
LEMMA LeaderExists ==
    ASSUME NEW m \in Nat \ {0}, NEW pr \in [1..m -> Nat]
    PROVE  \E j \in 1..m : \A k \in 1..m : pr[k] < pr[j] \/ (pr[k] = pr[j] /\ j <= k)
<1> DEFINE Leads(j, n) == \A k \in 1..n : pr[k] < pr[j] \/ (pr[k] = pr[j] /\ j <= k)
           Bad == {n \in 1..m : ~ \E j \in 1..n : Leads(j, n)}
<1>1. Bad = {}
  <2>1. SUFFICES ASSUME Bad # {} PROVE FALSE
    OBVIOUS
  <2>2. PICK n \in Bad : \A k \in Bad : n <= k
    <3>1. Bad \in SUBSET Nat
      OBVIOUS
    <3>2. QED
      BY <2>1, <3>1, LeastElement, Zenon
  <2>3. n # 1
    BY <2>2
  <2>4. n - 1 \in 1..m /\ ~(n <= n - 1) /\ n \in 1..m
    BY <2>2, <2>3
  <2>5. n - 1 \notin Bad
    BY <2>2, <2>4, Zenon
  <2>6. PICK j \in 1..(n - 1) : Leads(j, n - 1)
    BY <2>4, <2>5, Zenon
  <2>7. CASE pr[n] > pr[j]
    <3>1. Leads(n, n)
      BY <2>4, <2>6, <2>7
    <3>2. n \in 1..n
      BY <2>4
    <3>3. QED
      BY <2>2, <3>1, <3>2
  <2>8. CASE ~(pr[n] > pr[j])
    <3>1. Leads(j, n)
      BY <2>4, <2>6, <2>8
    <3>2. j \in 1..n
      BY <2>4
    <3>3. QED
      BY <2>2, <3>1, <3>2
  <2>9. QED
    BY <2>7, <2>8
<1>2. m \in 1..m
  OBVIOUS
<1>3. QED
  BY <1>1, <1>2, Zenon

\* So First returns the index of a message.
LEMMA FirstExists ==
    ASSUME NEW q \in Seq(Tasks), q # <<>>
    PROVE  First(q) \in DOMAIN q
<1> DEFINE pr == [k \in DOMAIN q |-> q[k].prio]
<1>1. DOMAIN q = 1..Len(q) /\ Len(q) \in Nat \ {0}
  OBVIOUS
<1>2. pr \in [1..Len(q) -> Nat]
  BY SchedulerAssumption
<1>3. \A k \in DOMAIN q : pr[k] = q[k].prio
  OBVIOUS
<1> HIDE DEF pr
<1>4. \E j \in DOMAIN q : \A k \in DOMAIN q : pr[k] < pr[j] \/ (pr[k] = pr[j] /\ j <= k)
  BY <1>1, <1>2, LeaderExists
<1>5. \E j \in DOMAIN q : \A k \in DOMAIN q :
         q[k].prio < q[j].prio \/ (q[k].prio = q[j].prio /\ j <= k)
  BY <1>3, <1>4
<1>6. QED
  BY <1>5, Zenon DEF First

\* Without leaves the other messages in their order.
LEMMA WithoutOne ==
    ASSUME NEW q \in Seq(Tasks), NEW j \in DOMAIN q
    PROVE  /\ Without(q, j) \in Seq(Tasks) /\ Len(Without(q, j)) = Len(q) - 1
           /\ \A n \in DOMAIN Without(q, j) :
                 /\ n \in 1..(Len(q) - 1)
                 /\ Without(q, j)[n] = IF n < j THEN q[n] ELSE q[n + 1]
<1>1. j \in 1..Len(q)
  OBVIOUS
<1>2. QED
  BY <1>1, WithoutElement DEF Without

\* A number in the range of the divisor is its own remainder.
LEMMA SmallRemainder ==
    ASSUME NEW b \in Nat \ {0}, NEW a \in 0..(b - 1)
    PROVE  a % b = a
<1> DEFINE q == a \div b
           r == a % b
<1>1. q \in Int /\ r \in 0..(b - 1) /\ a = (b * q) + r
  OBVIOUS
<1> HIDE DEF q, r
<1>2. CASE q >= 1
  <2>1. b * q >= b
    BY <1>1, <1>2
  <2>2. QED
    BY <1>1, <2>1
<1>3. CASE q <= -1
  <2>1. b * q <= -b
    BY <1>1, <1>3
  <2>2. QED
    BY <1>1, <2>1
<1>4. CASE q = 0
  BY <1>1, <1>4 DEF r
<1>5. QED
  BY <1>1, <1>2, <1>3, <1>4

\* What fits into an int is converted to itself.
LEMMA ToIntSame ==
    ASSUME NEW x \in Int, -HalfRange <= x, x < HalfRange
    PROVE  ToInt(x) = x
<1>1. 2 * HalfRange \in Nat \ {0} /\ x + HalfRange \in 0..(2 * HalfRange - 1)
  BY SchedulerAssumption
<1>2. (x + HalfRange) % (2 * HalfRange) = x + HalfRange
  BY <1>1, SmallRemainder
<1>3. QED
  BY <1>2, SchedulerAssumption DEF ToInt

\* The comparator is right about numbers whose differences are ints.
LEMMA ComparesSmall ==
    ASSUME NEW a \in Int, NEW b \in Int, InHalf(a), InHalf(b)
    PROVE  LessThan(a, b) <=> a < b
<1>1. /\ -HalfRange <= a /\ a < HalfRange /\ -HalfRange <= b /\ b < HalfRange
      /\ a - b \in Int /\ -HalfRange <= a - b /\ a - b < HalfRange
  BY SchedulerAssumption DEF InHalf
<1>2. ToInt(a) = a /\ ToInt(b) = b /\ ToInt(a - b) = a - b
  BY <1>1, ToIntSame
<1>3. QED
  BY <1>2 DEF LessThan, Compare

\* An arrangement of s is a permutation of its indices.
Permutes(f, n) == f \in [1..n -> 1..n] /\ \A j, k \in 1..n : f[j] = f[k] => j = k
Ascends(s, f, n) == \A j, k \in 1..n : j < k => s[f[j]] <= s[f[k]]

\* Insertion: a number is put before the first greater one.
LEMMA Insertion ==
    ASSUME NEW s \in Seq(Int), NEW n \in 1..Len(s), NEW g,
           Permutes(g, n - 1), Ascends(s, g, n - 1)
    PROVE  \E f : Permutes(f, n) /\ Ascends(s, f, n)
<1> DEFINE After == {k \in 1..n : k = n \/ s[g[k]] > s[n]}
<1>1. n \in Nat \ {0} /\ \A k \in 1..Len(s) : s[k] \in Int
  OBVIOUS
<1>2. PICK k \in After : \A l \in After : k <= l
  <2>1. After \in SUBSET Nat /\ n \in After
    BY <1>1
  <2>2. QED
    BY <2>1, LeastElement, Zenon
<1> DEFINE f == [j \in 1..n |-> IF j < k THEN g[j] ELSE IF j = k THEN n ELSE g[j - 1]]
<1>3. k \in 1..n /\ (k < n => s[g[k]] > s[n])
  BY <1>2
<1>4. \A j \in 1..(n - 1) : g[j] \in 1..(n - 1) /\ s[g[j]] \in Int
  <2>1. \A j \in 1..(n - 1) : g[j] \in 1..(n - 1)
    BY DEF Permutes
  <2>2. \A x \in 1..(n - 1) : s[x] \in Int
    BY <1>1
  <2>3. QED
    BY <2>1, <2>2, Zenon
<1>5. \A j \in 1..n : j < k => s[g[j]] <= s[n]
  <2>1. \A j \in 1..n : j < k => j \notin After /\ j # n /\ j \in 1..(n - 1)
    BY <1>1, <1>2
  <2>2. s[n] \in Int
    BY <1>1
  <2>3. ASSUME NEW j \in 1..n, j < k PROVE s[g[j]] <= s[n]
    <3>1. j \in 1..(n - 1) /\ ~(s[g[j]] > s[n])
      BY <2>1, <2>3
    <3>2. s[g[j]] \in Int
      BY <1>4, <3>1, Zenon
    <3>3. QED
      BY <2>2, <3>1, <3>2
  <2>4. QED
    BY <2>3
<1>6. \A j \in 1..(n - 1) : j >= k => s[n] <= s[g[j]]
  <2>1. ASSUME NEW j \in 1..(n - 1), j >= k PROVE s[n] <= s[g[j]]
    <3>1. k \in 1..(n - 1) /\ s[n] \in Int /\ s[g[k]] \in Int /\ s[g[j]] \in Int /\ s[g[k]] > s[n]
      BY <1>1, <1>3, <1>4, <2>1
    <3>2. s[g[k]] <= s[g[j]]
      <4>1. CASE j = k
        BY <3>1, <4>1
      <4>2. CASE k < j
        BY <2>1, <3>1, <4>2 DEF Ascends
      <4>3. QED
        BY <1>1, <2>1, <3>1, <4>1, <4>2
    <3>3. QED
      BY <3>1, <3>2
  <2>2. QED
    BY <2>1
<1>7. \A j \in 1..n : /\ j < k => j \in 1..(n - 1) /\ f[j] = g[j]
                      /\ j = k => f[j] = n
                      /\ j > k => j - 1 \in 1..(n - 1) /\ f[j] = g[j - 1] /\ j - 1 >= k
  BY <1>1, <1>3
<1>8. f \in [1..n -> 1..n]
  <2>1. \A j \in 1..n : f[j] \in 1..n
    BY <1>1, <1>3, <1>4, <1>7
  <2>2. QED
    BY <2>1
<1> HIDE DEF f
<1>9. \A j, l \in 1..n : f[j] = f[l] => j = l
  <2>1. \A j \in 1..n : j # k => f[j] # n
    BY <1>1, <1>3, <1>4, <1>7
  <2>2. \A j, l \in 1..(n - 1) : g[j] = g[l] => j = l
    BY DEF Permutes
  <2>3. ASSUME NEW j \in 1..n, NEW l \in 1..n, f[j] = f[l] PROVE j = l
    <3>1. CASE j = k \/ l = k
      BY <1>7, <2>1, <2>3, <3>1
    <3>2. CASE j # k /\ l # k
      <4>1. \A x \in 1..n : x # k =>
                 \E y \in 1..(n - 1) : f[x] = g[y] /\ y = IF x < k THEN x ELSE x - 1
        BY <1>1, <1>3, <1>7
      <4>2. PICK y \in 1..(n - 1) : f[j] = g[y] /\ y = IF j < k THEN j ELSE j - 1
        BY <3>2, <4>1
      <4>3. PICK z \in 1..(n - 1) : f[l] = g[z] /\ z = IF l < k THEN l ELSE l - 1
        BY <3>2, <4>1
      <4>4. y = z
        BY <2>2, <2>3, <4>2, <4>3
      <4>5. QED
        BY <1>1, <1>3, <3>2, <4>2, <4>3, <4>4
    <3>3. QED
      BY <3>1, <3>2
  <2>4. QED
    BY <2>3
<1>10. Ascends(s, f, n)
  <2>1. ASSUME NEW j \in 1..n, NEW l \in 1..n, j < l PROVE s[f[j]] <= s[f[l]]
    <3>1. CASE l < k
      <4>1. j < k /\ f[j] = g[j] /\ f[l] = g[l] /\ j \in 1..(n - 1) /\ l \in 1..(n - 1)
        BY <1>3, <1>7, <2>1, <3>1
      <4>2. QED
        BY <2>1, <4>1 DEF Ascends
    <3>2. CASE l = k
      <4>1. j < k /\ f[j] = g[j] /\ f[l] = n
        BY <1>3, <1>7, <2>1, <3>2
      <4>2. QED
        BY <1>5, <4>1
    <3>3. CASE j < k /\ k < l
      <4>1. f[j] = g[j] /\ f[l] = g[l - 1] /\ j \in 1..(n - 1) /\ l - 1 \in 1..(n - 1) /\ j < l - 1
        BY <1>3, <1>7, <2>1, <3>3
      <4>2. QED
        BY <4>1 DEF Ascends
    <3>4. CASE j = k
      <4>1. f[j] = n /\ f[l] = g[l - 1] /\ l - 1 \in 1..(n - 1) /\ l - 1 >= k
        BY <1>3, <1>7, <2>1, <3>4
      <4>2. QED
        BY <1>6, <4>1
    <3>5. CASE k < j
      <4>1. /\ f[j] = g[j - 1] /\ f[l] = g[l - 1] /\ j - 1 < l - 1
            /\ j - 1 \in 1..(n - 1) /\ l - 1 \in 1..(n - 1)
        BY <1>3, <1>7, <2>1, <3>5
      <4>2. QED
        BY <4>1 DEF Ascends
    <3>6. QED
      BY <1>3, <2>1, <3>1, <3>2, <3>3, <3>4, <3>5
  <2>2. QED
    BY <2>1 DEF Ascends
<1>11. QED
  BY <1>8, <1>9, <1>10 DEF Permutes

\* Every sequence of numbers has an ascending arrangement.
LEMMA AscendingExists ==
    ASSUME NEW s \in Seq(Int)
    PROVE  \E f : Permutes(f, Len(s)) /\ Ascends(s, f, Len(s))
<1> DEFINE Bad == {n \in 0..Len(s) : ~ \E f : Permutes(f, n) /\ Ascends(s, f, n)}
<1>1. Bad = {}
  <2>1. SUFFICES ASSUME Bad # {} PROVE FALSE
    OBVIOUS
  <2>2. PICK n \in Bad : \A k \in Bad : n <= k
    <3>1. Bad \in SUBSET Nat
      OBVIOUS
    <3>2. QED
      BY <2>1, <3>1, LeastElement, Zenon
  <2>3. n # 0
    <3>1. Permutes([j \in 1..0 |-> j], 0) /\ Ascends(s, [j \in 1..0 |-> j], 0)
      BY DEF Permutes, Ascends
    <3>2. QED
      BY <2>2, <3>1
  <2>4. n \in 1..Len(s) /\ n - 1 \in 0..Len(s) /\ ~(n <= n - 1)
    BY <2>2, <2>3
  <2>5. n - 1 \notin Bad
    BY <2>2, <2>4, Zenon
  <2>6. PICK g : Permutes(g, n - 1) /\ Ascends(s, g, n - 1)
    BY <2>4, <2>5, Zenon
  <2>7. \E f : Permutes(f, n) /\ Ascends(s, f, n)
    BY <2>4, <2>6, Insertion
  <2>8. QED
    BY <2>2, <2>7
<1>2. Len(s) \in 0..Len(s)
  OBVIOUS
<1>3. QED
  BY <1>1, <1>2, Zenon

\* What Sort leaves is an arrangement, and one in ascending order if the numbers are
\* small.
WellSorted(s, a) ==
    /\ a \in Arrangements(s)
    /\ (\A j \in DOMAIN a : InHalf(a[j])) => \A j, k \in DOMAIN a : j < k => a[j] <= a[k]

LEMMA SortedIsSorted == ASSUME NEW s \in Seq(Int), NEW a \in Sorted(s)
                        PROVE  a \in Seq(Int) /\ WellSorted(s, a)
<1> DEFINE n == Len(s)
           Perms == {f \in [DOMAIN s -> DOMAIN s] : \A j, k \in DOMAIN s : f[j] = f[k] => j = k}
           ordered == {b \in Arrangements(s) : InOrder(b)}
<1>1. DOMAIN s = 1..n /\ n \in Nat /\ \A j \in 1..n : s[j] \in Int
  OBVIOUS
<1>2. a \in Arrangements(s)
  BY DEF Sorted
<1>3. PICK p \in Perms : a = [j \in DOMAIN s |-> s[p[j]]]
  BY <1>2, Zenon DEF Arrangements
<1>4. a \in Seq(Int) /\ DOMAIN a = 1..n
  <2>1. \A j \in 1..n : p[j] \in 1..n
    BY <1>1, <1>3
  <2>2. a = [j \in 1..n |-> s[p[j]]] /\ \A j \in 1..n : s[p[j]] \in Int
    BY <1>1, <1>3, <2>1
  <2>3. QED
    BY <1>1, <2>2
<1>5. ASSUME \A j \in DOMAIN a : InHalf(a[j]) PROVE \A j, k \in DOMAIN a : j < k => a[j] <= a[k]
  <2>1. \A j \in 1..n : InHalf(s[j])
    <3>1. \A x \in 1..n : \E j \in 1..n : p[j] = x
      <4>1. IsFiniteSet(1..n)
        BY <1>1, FS_Interval
      <4>2. p \in Injection(1..n, 1..n)
        BY <1>1, <1>3 DEF Injection, IsInjective
      <4>3. p \in Surjection(1..n, 1..n)
        BY <4>1, <4>2, FS_Injection
      <4>4. QED
        BY <4>3 DEF Surjection
    <3>2. QED
      BY <1>1, <1>3, <1>4, <1>5, <3>1
  <2>2. PICK f : Permutes(f, n) /\ Ascends(s, f, n)
    BY AscendingExists
  <2>3. [j \in DOMAIN s |-> s[f[j]]] \in ordered
    <3> DEFINE b == [j \in DOMAIN s |-> s[f[j]]]
    <3>1. f \in Perms
      BY <1>1, <2>2 DEF Permutes
    <3>2. b \in Arrangements(s)
      BY <3>1, Zenon DEF Arrangements
    <3>3. \A j \in 1..n : b[j] \in Int /\ InHalf(b[j])
      BY <1>1, <2>1, <2>2 DEF Permutes
    <3>4. \A j, k \in 1..n : j < k => b[j] <= b[k]
      BY <1>1, <2>2 DEF Ascends
    <3>5. DOMAIN b = 1..n
      BY <1>1
    <3> HIDE DEF b
    <3>6. InOrder(b)
      <4>1. ASSUME NEW j \in 1..n, NEW k \in 1..n, j < k PROVE ~LessThan(b[k], b[j])
        BY <3>3, <3>4, <4>1, ComparesSmall
      <4>2. QED
        BY <3>5, <4>1 DEF InOrder
    <3>7. QED
      BY <3>2, <3>6 DEF b
  <2>4. InOrder(a)
    BY <2>3, Zenon DEF Sorted
  <2>5. ASSUME NEW j \in 1..n, NEW k \in 1..n, j < k PROVE a[j] <= a[k]
    <3>1. a[j] \in Int /\ a[k] \in Int /\ InHalf(a[j]) /\ InHalf(a[k])
      <4>1. a[j] \in Int /\ a[k] \in Int
        BY <1>4
      <4>2. InHalf(a[j]) /\ InHalf(a[k])
        BY <1>4, <1>5, Zenon
      <4>3. QED
        BY <4>1, <4>2
    <3>2. ~LessThan(a[k], a[j])
      BY <1>4, <2>4, <2>5 DEF InOrder
    <3>3. QED
      BY <3>1, <3>2, ComparesSmall
  <2>6. QED
    BY <1>4, <2>5
<1>6. QED
  BY <1>2, <1>4, <1>5 DEF WellSorted

-----------------------------------------------------------------------------
(* Scheduler: the inductive invariant. *)

SchedPcs == {"off", "test", "receive", "sort", "clean", "cleanup"}
Working  == {"sort", "clean"}

SchedTyped == /\ mq \in Seq(Tasks) /\ unsent \subseteq Tasks
              /\ scheduler \in SchedPcs /\ should_run \in BOOLEAN
              /\ task \in Tasks \cup {NoTask} /\ (task # NoTask <=> scheduler \in Working)
              /\ numbers \in Seq(Int)
              /\ done \subseteq [task : Tasks, numbers : Seq(Int)]

\* A task is unsent, in the queue, being worked on or done, but only one of these,
\* and once.
InPlace == /\ \A n \in DOMAIN mq : mq[n] \notin unsent /\ mq[n] # task
           /\ \A n, k \in DOMAIN mq : mq[n] = mq[k] => n = k
           /\ task \notin unsent
           /\ \A d \in done : /\ d.task \notin unsent /\ d.task # task
                             /\ \A n \in DOMAIN mq : mq[n] # d.task

\* The numbers are those of the task until they are sorted.
SortsItsTask == /\ scheduler = "sort" => numbers = task.numbers
                /\ scheduler = "clean" => WellSorted(task.numbers, numbers)
                /\ \A d \in done : WellSorted(d.task.numbers, d.numbers)

\* No task has been lost, and none is held twice.
AllHeld == TasksHeld = Cardinality(Tasks)

SchedInv == /\ SchedTyped /\ InPlace /\ AllHeld /\ SortsItsTask
            /\ IsFiniteSet(unsent) /\ IsFiniteSet(done)

LEMMA NoTaskOutside == NoTask \notin Tasks
BY SchedulerAssumption DEF NoTask

\* A sequence without elements is its own only arrangement.
LEMMA EmptySorted == WellSorted(<<>>, <<>>)
<1> DEFINE f == [k \in DOMAIN <<>> |-> k]
<1>1. <<>> = [j \in DOMAIN <<>> |-> <<>>[f[j]]]
  OBVIOUS
<1>2. f \in [DOMAIN <<>> -> DOMAIN <<>>] /\ \A j, k \in DOMAIN <<>> : f[j] = f[k] => j = k
  OBVIOUS
<1> HIDE DEF f
<1>3. <<>> \in Arrangements(<<>>)
  <2>1. \E p \in {g \in [DOMAIN <<>> -> DOMAIN <<>>] :
                     \A j, k \in DOMAIN <<>> : g[j] = g[k] => j = k} :
           <<>> = [j \in DOMAIN <<>> |-> <<>>[p[j]]]
    <3>1. f \in {g \in [DOMAIN <<>> -> DOMAIN <<>>] :
                   \A j, k \in DOMAIN <<>> : g[j] = g[k] => j = k}
      BY <1>2, Zenon
    <3>2. QED
      BY <1>1, <3>1, Zenon
  <2>2. QED
    BY <2>1, Zenon DEF Arrangements
<1>4. QED
  BY <1>3 DEF WellSorted

LEMMA SchedInitially == SchedInit => SchedInv
<1> SUFFICES ASSUME SchedInit PROVE SchedInv
  OBVIOUS
<1>1. SchedTyped /\ InPlace /\ SortsItsTask
  BY NoTaskOutside DEF SchedInit, SchedTyped, SchedPcs, Working, InPlace, SortsItsTask
<1>2. IsFiniteSet(unsent) /\ IsFiniteSet(done) /\ Cardinality(done) = 0
  BY SchedulerAssumption, FS_EmptySet DEF SchedInit
<1>3. AllHeld
  <2>1. Cardinality(Tasks) \in Nat
    BY SchedulerAssumption, FS_CardinalityType
  <2>2. Len(mq) = 0 /\ unsent = Tasks /\ task = NoTask
    BY DEF SchedInit
  <2>3. QED
    BY <1>2, <2>1, <2>2 DEF AllHeld, TasksHeld
<1>4. QED
  BY <1>1, <1>2, <1>3 DEF SchedInv

\* What is counted are numbers.
LEMMA Counts == ASSUME SchedInv
                PROVE  Cardinality(unsent) \in Nat /\ Cardinality(done) \in Nat
                       /\ Len(mq) \in Nat /\ Cardinality(Tasks) \in Nat
BY SchedulerAssumption, FS_CardinalityType DEF SchedInv, SchedTyped

LEMMA SendStep == ASSUME SchedInv, NEW t \in Tasks, Send(t) PROVE SchedInv'
<1>1. /\ mq \in Seq(Tasks) /\ t \in unsent /\ t \in Tasks /\ mq' = Append(mq, t)
      /\ unsent' = unsent \ {t}
  BY DEF Send, SchedInv, SchedTyped
<1>2. /\ mq' \in Seq(Tasks) /\ Len(mq') = Len(mq) + 1
      /\ \A n \in DOMAIN mq' : \/ n \in DOMAIN mq /\ mq'[n] = mq[n]
                               \/ n = Len(mq) + 1 /\ n \notin DOMAIN mq /\ mq'[n] = t
  BY <1>1
<1>3. SchedTyped'
  BY <1>1, <1>2 DEF Send, SchedInv, SchedTyped
<1>4. InPlace'
  BY <1>1, <1>2, Zenon DEF Send, SchedInv, InPlace
<1>5. SortsItsTask'
  BY Zenon DEF Send, SchedInv, SortsItsTask
<1>6. IsFiniteSet(unsent') /\ Cardinality(unsent') = Cardinality(unsent) - 1
  BY <1>1, FS_RemoveElement DEF SchedInv
<1>7. AllHeld'
  BY <1>2, <1>6, Counts DEF Send, SchedInv, AllHeld, TasksHeld
<1>8. QED
  BY <1>3, <1>4, <1>5, <1>6, <1>7 DEF Send, SchedInv

LEMMA ReceiveStep == ASSUME SchedInv, Receive PROVE SchedInv'
<1> DEFINE j == First(mq)
<1>1. /\ mq \in Seq(Tasks) /\ j \in DOMAIN mq /\ mq' = Without(mq, j) /\ task' = mq[j]
      /\ task = NoTask /\ mq[j] \in Tasks
  <2>1. mq \in Seq(Tasks) /\ mq # <<>> /\ task = NoTask
    BY DEF Receive, SchedInv, SchedTyped, Working
  <2>2. QED
    BY <2>1, FirstExists DEF Receive
<1> HIDE DEF j
<1>2. /\ mq' \in Seq(Tasks) /\ Len(mq') = Len(mq) - 1
      /\ \A n \in DOMAIN mq' : n \in 1..(Len(mq) - 1) /\ mq'[n] = IF n < j THEN mq[n] ELSE mq[n + 1]
  BY <1>1, WithoutOne, Zenon
<1>3. task' \in Tasks /\ task' # NoTask /\ task'.numbers \in Seq(Int)
  BY <1>1, NoTaskOutside, SchedulerAssumption
<1>4. /\ unsent' = unsent /\ should_run' = should_run /\ done' = done
      /\ numbers' = task'.numbers
      /\ scheduler' = IF numbers' = <<>> THEN "clean" ELSE "sort"
  BY DEF Receive
<1>5. SchedTyped'
  BY <1>2, <1>3, <1>4 DEF SchedInv, SchedTyped, SchedPcs, Working
<1>6. InPlace'
  <2>1. \A n \in DOMAIN mq' :
           \E k \in DOMAIN mq : k # j /\ mq'[n] = mq[k] /\ k = IF n < j THEN n ELSE n + 1
    BY <1>1, <1>2
  <2>2. \A n \in DOMAIN mq' : mq'[n] \notin unsent /\ mq'[n] # task'
    BY <1>1, <2>1 DEF SchedInv, InPlace
  <2>3. \A n, k \in DOMAIN mq' : mq'[n] = mq'[k] => n = k
    <3>1. ASSUME NEW n \in DOMAIN mq', NEW k \in DOMAIN mq', mq'[n] = mq'[k] PROVE n = k
      <4>1. PICK x \in DOMAIN mq : mq'[n] = mq[x] /\ x = IF n < j THEN n ELSE n + 1
        BY <2>1
      <4>2. PICK y \in DOMAIN mq : mq'[k] = mq[y] /\ y = IF k < j THEN k ELSE k + 1
        BY <2>1
      <4>3. x = y
        BY <3>1, <4>1, <4>2 DEF SchedInv, InPlace
      <4>4. n \in Nat /\ k \in Nat /\ j \in Nat
        BY <1>1, <1>2
      <4>5. QED
        BY <4>1, <4>2, <4>3, <4>4
    <3>2. QED
      BY <3>1
  <2>4. task' \notin unsent'
    BY <1>1, <1>4 DEF SchedInv, InPlace
  <2>5. \A d \in done : d.task \notin unsent /\ d.task # task'
                      /\ \A n \in DOMAIN mq' : mq'[n] # d.task
    BY <1>1, <2>1 DEF SchedInv, InPlace
  <2>6. QED
    BY <1>4, <2>2, <2>3, <2>4, <2>5 DEF InPlace
<1>7. SortsItsTask'
  BY <1>4, EmptySorted DEF SchedInv, SortsItsTask
<1>8. AllHeld'
  BY <1>1, <1>2, <1>3, <1>4, Counts DEF SchedInv, AllHeld, TasksHeld
<1>9. QED
  BY <1>4, <1>5, <1>6, <1>7, <1>8 DEF SchedInv

LEMMA SortStep == ASSUME SchedInv, Sort PROVE SchedInv'
<1>1. /\ mq' = mq /\ unsent' = unsent /\ should_run' = should_run /\ task' = task
      /\ done' = done /\ scheduler = "sort" /\ scheduler' = "clean"
      /\ numbers' \in Sorted(numbers) /\ numbers \in Seq(Int) /\ numbers = task.numbers
  BY DEF Sort, SchedInv, SchedTyped, SortsItsTask
<1>2. numbers' \in Seq(Int) /\ WellSorted(task.numbers, numbers')
  BY <1>1, SortedIsSorted
<1>3. SchedTyped'
  BY <1>1, <1>2 DEF SchedInv, SchedTyped, SchedPcs, Working
<1>4. InPlace' /\ AllHeld'
  BY <1>1 DEF SchedInv, InPlace, AllHeld, TasksHeld
<1>5. SortsItsTask'
  BY <1>1, <1>2 DEF SchedInv, SortsItsTask
<1>6. QED
  BY <1>1, <1>3, <1>4, <1>5 DEF SchedInv

LEMMA CleanStep == ASSUME SchedInv, CleanBuffer PROVE SchedInv'
<1> DEFINE d0 == [task |-> task, numbers |-> numbers]
<1>1. /\ mq' = mq /\ unsent' = unsent /\ should_run' = should_run /\ task' = NoTask
      /\ numbers' = <<>> /\ scheduler = "clean" /\ scheduler' = "test"
      /\ task \in Tasks /\ task # NoTask /\ numbers \in Seq(Int) /\ done' = done \cup {d0}
  BY NoTaskOutside DEF CleanBuffer, SchedInv, SchedTyped, Working
<1>2. d0 \in [task : Tasks, numbers : Seq(Int)] /\ d0.task = task /\ d0.numbers = numbers
  BY <1>1
<1> HIDE DEF d0
<1>3. SchedTyped'
  BY <1>1, <1>2 DEF SchedInv, SchedTyped, SchedPcs, Working
<1>4. InPlace'
  <2>1. \A n \in DOMAIN mq : mq[n] # NoTask
    BY NoTaskOutside DEF SchedInv, SchedTyped
  <2>2. \A d \in done : d.task # NoTask
    BY NoTaskOutside DEF SchedInv, SchedTyped
  <2>3. NoTask \notin unsent
    BY NoTaskOutside DEF SchedInv, SchedTyped
  <2>4. QED
    BY <1>1, <1>2, <2>1, <2>2, <2>3 DEF SchedInv, InPlace
<1>5. SortsItsTask'
  BY <1>1, <1>2 DEF SchedInv, SortsItsTask
<1>6. IsFiniteSet(done') /\ Cardinality(done') = Cardinality(done) + 1
  <2>1. d0 \notin done
    BY <1>2 DEF SchedInv, InPlace
  <2>2. QED
    BY <1>1, <2>1, FS_AddElement DEF SchedInv
<1>7. AllHeld'
  BY <1>1, <1>6, Counts DEF SchedInv, AllHeld, TasksHeld
<1>8. QED
  BY <1>1, <1>3, <1>4, <1>5, <1>6, <1>7 DEF SchedInv

\* The steps of the scheduler's loop that touch no task, and the stuttering ones.
LEMMA OtherSteps ==
    ASSUME SchedInv,
           \/ Start \/ TestRun \/ ReceiveFails \/ Cleanup \/ Handler \/ UNCHANGED sched_vars
    PROVE  SchedInv'
<1>1. /\ mq' = mq /\ unsent' = unsent /\ task' = task /\ numbers' = numbers /\ done' = done
  BY DEF Start, TestRun, ReceiveFails, NoMessage, Cleanup, Handler, sched_vars
<1>2. /\ scheduler' \in SchedPcs /\ should_run' \in BOOLEAN
      /\ scheduler \in Working \/ scheduler' \in Working => scheduler' = scheduler
  BY DEF Start, TestRun, ReceiveFails, Cleanup, Handler, sched_vars, SchedInv, SchedTyped,
     SchedPcs, Working
<1>3. SchedTyped'
  BY <1>1, <1>2 DEF SchedInv, SchedTyped
<1>4. InPlace' /\ AllHeld'
  BY <1>1 DEF SchedInv, InPlace, AllHeld, TasksHeld
<1>5. SortsItsTask'
  BY <1>1, <1>2 DEF SchedInv, SortsItsTask, Working
<1>6. QED
  BY <1>1, <1>3, <1>4, <1>5 DEF SchedInv

THEOREM SchedInvariance == SchedSpec => []SchedInv
<1>1. SchedInv /\ [SchedNext]_sched_vars => SchedInv'
  BY SendStep, ReceiveStep, SortStep, CleanStep, OtherSteps DEF SchedNext
<1>2. QED
  BY SchedInitially, <1>1, PTL DEF SchedSpec

\* The scheduler loses no task and works on none twice, however often it is interrupted and
\* started again, unless its cleanup discards some (scheduler.c:98-132).
THEOREM TasksKept == SchedSpec => OnlyCleanupDiscards
<1>1. SchedInv /\ SchedInv' => (scheduler = "cleanup" \/ TasksHeld' = TasksHeld)
  BY DEF SchedInv, AllHeld
<1>2. QED
  BY SchedInvariance, <1>1, PTL DEF OnlyCleanupDiscards

\* What has been printed for a task are its numbers, in ascending order if their
\* differences are ints (scheduler.c:31): then the comparator is an order, and there is
\* an arrangement that qsort must leave.
THEOREM SmallNumbersSorted == SchedSpec => []SortsSmallNumbers
<1>1. SchedInv => SortsSmallNumbers
  BY DEF SchedInv, SortsItsTask, WellSorted, SortsSmallNumbers
<1>2. QED
  BY SchedInvariance, <1>1, PTL


-----------------------------------------------------------------------------
(* FifoServer: the inductive invariant. *)

ServerPcs == {"mkfifo", "open", "poll", "visit", "unlink", "exit", "failed"}
ClientPcs == {"new", "opening", "connected", "ended", "leaving", "closed", "killed", "failed"}
FifoBytes == {Digit, Newline}

FifoTyped == /\ server \in ServerPcs /\ i \in Clients /\ closed \in Nat /\ torn \in Nat
             /\ fifo \in [Clients -> BOOLEAN] /\ reads \in [Clients -> BOOLEAN]
             /\ revents \in [Clients -> SUBSET {"POLLIN", "POLLHUP"}]
             /\ client \in [Clients -> ClientPcs]
             /\ msg \in [Clients -> Seq(FifoBytes)] /\ pipe \in [Clients -> Seq(FifoBytes)]

\* What a client writes again was no empty line.
SaysSomething == \A c \in Clients : msg[c] # <<>> => Head(msg[c]) = Digit

\* What poll has reported is there until the server visits the client: only the server
\* takes bytes out of a FIFO.
Reported == server = "visit" =>
               \A c \in Clients : c >= i /\ "POLLIN" \in revents[c] => pipe[c] # <<>>

\* The clients that will be counted though they have not left, and those that have left
\* and whose newline has been read.
TornFifos == {c \in Clients : IsTorn(c, pipe[c])}
ReadAndLeft == {c \in Clients : HasLeft(c) /\ pipe[c] = <<>>}

\* The server has counted at most one for each client that has left and each newline that
\* was torn off and has been read.
CountsRead == closed + Cardinality(TornFifos) <= Cardinality(ReadAndLeft) + torn

FifoInv == FifoTyped /\ SaysSomething /\ Reported /\ CountsRead

-----------------------------------------------------------------------------
(* FifoServer: each step keeps it. *)

\* Sets of clients are finite.
LEMMA ClientsFinite ==
    ASSUME NEW S \in SUBSET Clients PROVE IsFiniteSet(S) /\ Cardinality(S) \in Nat
<1>1. IsFiniteSet(Clients)
  BY FifoAssumption, FS_Interval DEF Clients
<1>2. QED
  BY <1>1, FS_Subset, FS_CardinalityType

\* What CountsRead adds up are numbers, before and after a step.
LEMMA CardinalitiesTyped ==
    /\ IsFiniteSet(TornFifos) /\ IsFiniteSet(TornFifos')
    /\ IsFiniteSet(ReadAndLeft) /\ IsFiniteSet(ReadAndLeft')
    /\ Cardinality(TornFifos) \in Nat /\ Cardinality(TornFifos') \in Nat
    /\ Cardinality(ReadAndLeft) \in Nat /\ Cardinality(ReadAndLeft') \in Nat
<1>1. /\ TornFifos \subseteq Clients /\ TornFifos' \subseteq Clients
      /\ ReadAndLeft \subseteq Clients /\ ReadAndLeft' \subseteq Clients
  BY DEF TornFifos, ReadAndLeft, Clients
<1>2. QED
  BY <1>1, ClientsFinite

\* A step that counts nobody and tears no line.
LEMMA MoreRead ==
    ASSUME FifoTyped, CountsRead, closed' = closed, torn' = torn,
           TornFifos' \subseteq TornFifos, ReadAndLeft \subseteq ReadAndLeft'
    PROVE  CountsRead'
<1>1. /\ Cardinality(TornFifos') <= Cardinality(TornFifos)
      /\ Cardinality(ReadAndLeft) <= Cardinality(ReadAndLeft')
  BY CardinalitiesTyped, FS_Subset
<1>2. QED
  BY <1>1, CardinalitiesTyped DEF CountsRead, FifoTyped

\* When the programs start, nothing has been written and nobody is counted.
LEMMA FifoInitially == FifoInit => FifoInv
<1> SUFFICES ASSUME FifoInit PROVE FifoInv
  OBVIOUS
<1>1. FifoTyped /\ SaysSomething /\ Reported
  BY FifoAssumption DEF FifoInit, FifoTyped, ServerPcs, ClientPcs, SaysSomething, Reported,
     Clients
<1>2. TornFifos = {} /\ ReadAndLeft = {}
  BY DEF FifoInit, TornFifos, IsTorn, ReadAndLeft, HasLeft
<1>3. CountsRead
  BY <1>2, FS_EmptySet DEF CountsRead, FifoInit
<1>4. QED
  BY <1>1, <1>3 DEF FifoInv

\* What stays the same when the server advances.
LEMMA Advances ==
    ASSUME NEW after \in ServerPcs, Advance(after), FifoTyped
    PROVE  /\ server' \in {server, after} /\ i' \in Clients
           /\ i' = i + 1 \/ server' = after
BY FifoAssumption DEF Advance, FifoTyped, Clients

\* A read that begins with a newline is of a client that has left, or was torn.
LEMMA VisitStep == ASSUME FifoInv, Visit PROVE FifoInv'
<1> DEFINE in    == "POLLIN" \in revents[i]
           rest  == SubSeq(pipe[i], PIPE_BUF + 1, Len(pipe[i]))
           leave == in /\ Head(pipe[i]) = Newline
           hup   == "POLLHUP" \in revents[i] /\ ~leave
<1>1. /\ server = "visit" /\ i \in Clients /\ client' = client /\ msg' = msg
      /\ revents' = revents /\ pipe[i] \in Seq(FifoBytes) /\ closed \in Nat /\ torn \in Nat
      /\ in => pipe[i] # <<>>
  BY FifoAssumption DEF FifoInv, Visit, FifoTyped, Reported, Clients
<1>2. rest \in Seq(FifoBytes) /\ (Len(pipe[i]) = 1 => rest = <<>>)
  <2>1. Len(pipe[i]) \in Nat /\ PIPE_BUF \in Nat /\ PIPE_BUF > 1
    BY <1>1, FifoAssumption
  <2>2. CASE PIPE_BUF + 1 <= Len(pipe[i])
    BY <1>1, <2>1, <2>2
  <2>3. CASE ~(PIPE_BUF + 1 <= Len(pipe[i]))
    <3>1. rest = <<>>
      BY <1>1, <2>1, <2>3
    <3>2. <<>> \in Seq(FifoBytes)
      OBVIOUS
    <3>. HIDE DEF rest
    <3>3. QED
      BY <3>1, <3>2
  <2>4. QED
    BY <2>2, <2>3
<1>3. /\ pipe' = IF in THEN [pipe EXCEPT ![i] = rest] ELSE pipe
      /\ torn' = IF in /\ IsTorn(i, rest) THEN torn + 1 ELSE torn
      /\ closed' = IF leave THEN closed + 1 ELSE closed
  BY <1>1 DEF Visit, HangupCounts
<1>. HIDE DEF rest
<1>4. FifoTyped' /\ SaysSomething' /\ Reported'
  <2>1. server' \in {"visit", "poll"} /\ i' \in Clients /\ (i' = i + 1 \/ server' = "poll")
    <3>1. CASE leave
      BY <3>1, FifoAssumption DEF Visit, Clients
    <3>2. CASE ~leave
      <4>1. Advance("poll")
        BY <3>2 DEF Visit
      <4>2. QED
        BY <1>1, <4>1, Advances DEF FifoInv, ServerPcs
    <3>3. QED
      BY <3>1, <3>2
  <2>2. pipe' \in [Clients -> Seq(FifoBytes)]
    BY <1>1, <1>2, <1>3 DEF FifoInv, FifoTyped
  <2>3. reads' \in [Clients -> BOOLEAN] /\ fifo' \in [Clients -> BOOLEAN]
    BY DEF Visit, FifoInv, FifoTyped
  <2>4. closed' \in Nat /\ torn' \in Nat
    BY <1>1, <1>3
  <2>5. FifoTyped'
    BY <1>1, <2>1, <2>2, <2>3, <2>4 DEF FifoInv, FifoTyped, ServerPcs, Clients
  <2>6. Reported'
    BY <1>1, <1>3, <2>1 DEF FifoInv, FifoTyped, Reported, Clients
  <2>7. QED
    BY <1>1, <2>5, <2>6 DEF FifoInv, SaysSomething, Clients
<1>5. /\ \A c \in Clients \ {i} : pipe'[c] = pipe[c]
      /\ pipe'[i] = IF in THEN rest ELSE pipe[i]
  BY <1>1, <1>3 DEF FifoInv, FifoTyped
<1>6. \A c \in Clients \ {i} : /\ c \in TornFifos' <=> c \in TornFifos
                               /\ c \in ReadAndLeft' <=> c \in ReadAndLeft
  BY <1>1, <1>5 DEF TornFifos, IsTorn, ReadAndLeft, HasLeft, Clients
<1>7. /\ i \in TornFifos <=> IsTorn(i, pipe[i])
      /\ i \in ReadAndLeft <=> HasLeft(i) /\ pipe[i] = <<>>
      /\ i \in TornFifos' <=> IsTorn(i, IF in THEN rest ELSE pipe[i])
      /\ i \in ReadAndLeft' <=> HasLeft(i) /\ (IF in THEN rest ELSE pipe[i]) = <<>>
  BY <1>1, <1>5 DEF TornFifos, IsTorn, ReadAndLeft, HasLeft, Clients
<1>8. CountsRead'
  <2>1. /\ closed + Cardinality(TornFifos) <= Cardinality(ReadAndLeft) + torn
        /\ closed \in Nat /\ torn \in Nat
    BY <1>1 DEF FifoInv, CountsRead
  <2>2. SUFFICES closed' + Cardinality(TornFifos') <= Cardinality(ReadAndLeft') + torn'
    BY DEF CountsRead
  <2>3. CASE ~in
    <3>1. TornFifos' \subseteq TornFifos /\ ReadAndLeft \subseteq ReadAndLeft'
      BY <1>1, <1>6, <1>7, <2>3 DEF TornFifos, ReadAndLeft, Clients
    <3>2. QED
      BY <1>3, <2>3, <3>1, MoreRead DEF FifoInv, CountsRead
  <2>4. CASE in
    <3>1. ReadAndLeft \subseteq ReadAndLeft' /\ i \notin ReadAndLeft
      BY <1>1, <1>6, <1>7, <2>4 DEF ReadAndLeft, Clients
    <3>2. Cardinality(ReadAndLeft) <= Cardinality(ReadAndLeft')
      BY <3>1, CardinalitiesTyped, FS_Subset
    <3>3. CASE ~leave
      <4>1. i \notin TornFifos
        BY <1>7, <2>4, <3>3 DEF IsTorn
      <4>2. CASE IsTorn(i, rest)
        <5>1. TornFifos' = TornFifos \cup {i}
          BY <1>1, <1>6, <1>7, <2>4, <4>2 DEF TornFifos, Clients
        <5>2. Cardinality(TornFifos') = Cardinality(TornFifos) + 1
          BY <4>1, <5>1, CardinalitiesTyped, FS_AddElement
        <5>3. closed' = closed /\ torn' = torn + 1
          BY <1>3, <2>4, <3>3, <4>2
        <5>4. QED
          BY <2>1, <3>2, <5>2, <5>3, CardinalitiesTyped
      <4>3. CASE ~IsTorn(i, rest)
        <5>1. TornFifos' \subseteq TornFifos
          BY <1>1, <1>6, <1>7, <2>4, <4>3 DEF TornFifos, Clients
        <5>2. closed' = closed /\ torn' = torn
          BY <1>3, <3>3, <4>3
        <5>3. QED
          BY <3>1, <5>1, <5>2, MoreRead DEF FifoInv, CountsRead
      <4>4. QED
        BY <4>2, <4>3
    <3>4. CASE leave /\ i \in TornFifos
      <4>1. closed' = closed + 1
        BY <1>3, <3>4
      <4>2. CASE IsTorn(i, rest)
        <5>1. TornFifos' = TornFifos
          BY <1>1, <1>6, <1>7, <2>4, <3>4, <4>2 DEF TornFifos, Clients
        <5>2. torn' = torn + 1
          BY <1>3, <2>4, <4>2
        <5>3. QED
          BY <2>1, <3>2, <4>1, <5>1, <5>2, CardinalitiesTyped
      <4>3. CASE ~IsTorn(i, rest)
        <5>1. TornFifos' = TornFifos \ {i}
          BY <1>1, <1>6, <1>7, <2>4, <4>3 DEF TornFifos, Clients
        <5>2. Cardinality(TornFifos') = Cardinality(TornFifos) - 1
          BY <3>4, <5>1, CardinalitiesTyped, FS_RemoveElement
        <5>3. torn' = torn
          BY <1>3, <4>3
        <5>4. QED
          BY <2>1, <3>2, <4>1, <5>2, <5>3, CardinalitiesTyped
      <4>4. QED
        BY <4>2, <4>3
    <3>5. CASE leave /\ i \notin TornFifos
      <4>1. HasLeft(i) /\ rest = <<>>
        BY <1>1, <1>2, <1>7, <3>5 DEF IsTorn
      <4>2. /\ TornFifos' \subseteq TornFifos /\ ReadAndLeft \cup {i} \subseteq ReadAndLeft'
            /\ ~IsTorn(i, rest)
        BY <1>1, <1>6, <1>7, <2>4, <3>1, <4>1 DEF IsTorn, TornFifos, Clients
      <4>3. Cardinality(TornFifos') <= Cardinality(TornFifos)
        BY <4>2, CardinalitiesTyped, FS_Subset
      <4>4. /\ Cardinality(ReadAndLeft \cup {i}) = Cardinality(ReadAndLeft) + 1
            /\ Cardinality(ReadAndLeft \cup {i}) <= Cardinality(ReadAndLeft')
        BY <3>1, <4>2, CardinalitiesTyped, FS_AddElement, FS_Subset
      <4>5. closed' = closed + 1 /\ torn' = torn
        BY <1>3, <3>5, <4>2
      <4>6. QED
        BY <2>1, <4>3, <4>4, <4>5, CardinalitiesTyped
    <3>6. QED
      BY <3>3, <3>4, <3>5
  <2>5. QED
    BY <2>3, <2>4
<1>9. QED
  BY <1>4, <1>8 DEF FifoInv

\* The other steps of the server read nothing.
LEMMA ServerStep == ASSUME FifoInv, Server, ~Visit PROVE FifoInv'
<1>1. pipe' = pipe /\ msg' = msg /\ closed' = closed /\ torn' = torn
  BY DEF Server, MkFifo, OpenFifo, OpenFails, Poll, Unlink
<1>2. FifoTyped' /\ Reported'
  <2>1. CASE MkFifo
    <3>1. CASE fifo[i]
      BY <2>1, <3>1 DEF MkFifo, FifoInv, FifoTyped, ServerPcs, Reported, Clients
    <3>2. CASE ~fifo[i]
      <4>1. server' \in {"mkfifo", "open"} /\ i' \in Clients
        BY <2>1, <3>2, Advances DEF MkFifo, FifoInv, ServerPcs
      <4>2. QED
        BY <2>1, <3>2, <4>1 DEF MkFifo, FifoInv, FifoTyped, ServerPcs, Reported, Clients
    <3>3. QED
      BY <3>1, <3>2
  <2>2. CASE OpenFifo
    <3>1. server' \in {"open", "poll"} /\ i' \in Clients
      BY <2>2, Advances DEF OpenFifo, FifoInv, ServerPcs
    <3>2. QED
      BY <2>2, <3>1 DEF OpenFifo, FifoInv, FifoTyped, ServerPcs, ClientPcs, Reported, Clients
  <2>3. CASE OpenFails
    BY <2>3 DEF OpenFails, FifoInv, FifoTyped, ServerPcs, Reported, Clients
  <2>4. CASE Poll
    <3>1. revents' \in [Clients -> SUBSET {"POLLIN", "POLLHUP"}]
      BY <2>4 DEF Poll, Clients
    <3>2. \A c \in Clients : "POLLIN" \in revents'[c] => pipe[c] # <<>>
      BY <2>4 DEF Poll, Clients
    <3>3. FifoTyped'
      BY <2>4, <3>1 DEF Poll, FifoInv, FifoTyped, ServerPcs, Clients
    <3>4. Reported'
      BY <2>4, <3>2 DEF Poll, Reported, Clients
    <3>5. QED
      BY <3>3, <3>4
  <2>5. CASE Unlink
    BY <2>5 DEF Unlink, FifoInv, FifoTyped, ServerPcs, Reported, Clients
  <2>6. QED
    BY <2>1, <2>2, <2>3, <2>4, <2>5 DEF Server
<1>3. \A c \in Clients : HasLeft(c)' <=> HasLeft(c)
  BY DEF Server, MkFifo, OpenFifo, OpenFails, Poll, Unlink, HasLeft, FifoInv, FifoTyped
<1>4. SaysSomething' /\ TornFifos' \subseteq TornFifos /\ ReadAndLeft \subseteq ReadAndLeft'
  BY <1>1, <1>3 DEF FifoInv, SaysSomething, TornFifos, IsTorn, ReadAndLeft, Clients
<1>5. CountsRead'
  BY <1>1, <1>4, MoreRead DEF FifoInv
<1>6. QED
  BY <1>2, <1>4, <1>5 DEF FifoInv

\* What fgets gives begins with a digit.
LEMMA PartsBegin ==
    ASSUME NEW p \in Parts \cup Unended
    PROVE  p \in Seq(FifoBytes) /\ Head(p) = Digit
<1>1. \A d \in Nat \ {0} : /\ Digits(d) \in Seq(FifoBytes) /\ Len(Digits(d)) = d
                           /\ Digits(d)[1] = Digit
  BY DEF Digits, FifoBytes
<1>2. \A d \in Nat \ {0} : /\ Head(Digits(d)) = Digit
                           /\ Append(Digits(d), Newline) \in Seq(FifoBytes)
                           /\ Head(Append(Digits(d), Newline)) = Digit
  <2> SUFFICES ASSUME NEW d \in Nat \ {0}
               PROVE  /\ Head(Digits(d)) = Digit
                      /\ Append(Digits(d), Newline) \in Seq(FifoBytes)
                      /\ Head(Append(Digits(d), Newline)) = Digit
    OBVIOUS
  <2> HIDE DEF Digits
  <2>1. Newline \in FifoBytes
    BY DEF FifoBytes
  <2>2. QED
    BY <1>1, <2>1
<1>3. CASE \E d \in 1..(PIPE_BUF - 2) : p = Append(Digits(d), Newline) \/ p = Digits(d)
  BY <1>1, <1>2, <1>3, FifoAssumption
<1>4. CASE p = Digits(PIPE_BUF - 1)
  BY <1>1, <1>2, <1>4, FifoAssumption
<1>5. QED
  BY <1>3, <1>4 DEF Parts, Unended

\* The clients append to their FIFOs: nobody whose line has been read writes, and what is
\* not the empty line of one who leaves begins with a digit.
LEMMA FifoClientStep == ASSUME FifoInv, NEW c \in Clients, FifoClient(c) PROVE FifoInv'
<1>1. UNCHANGED <<server, i, reads, revents, closed, torn>>
  BY DEF FifoClient, Open, WriteLine, Quit, EndOfInput, WriteAgain, CloseFifo, Killed,
         ClientGoes
<1>2. fifo' \in [Clients -> BOOLEAN] /\ client' \in [Clients -> ClientPcs]
  BY DEF FifoClient, Open, WriteLine, Quit, EndOfInput, WriteAgain, CloseFifo, Killed,
         ClientGoes, Writes, FifoInv, FifoTyped, ClientPcs
<1>3. \A d \in Clients \ {c} : client'[d] = client[d]
  BY DEF FifoClient, Open, WriteLine, Quit, EndOfInput, WriteAgain, CloseFifo, Killed,
         ClientGoes, FifoInv, FifoTyped
<1>4. msg' \in [Clients -> Seq(FifoBytes)] /\ SaysSomething'
  <2>1. msg' = msg \/ \E p \in Parts \cup Unended \cup {msg[c]} : msg' = [msg EXCEPT ![c] = p]
    BY DEF FifoClient, Open, WriteLine, Quit, EndOfInput, WriteAgain, CloseFifo, Killed
  <2>2. QED
    BY <2>1, PartsBegin DEF FifoInv, FifoTyped, SaysSomething, Clients
<1>5. /\ client[c] \in ClientPcs /\ pipe \in [Clients -> Seq(FifoBytes)]
      /\ msg[c] \in Seq(FifoBytes) /\ (msg[c] # <<>> => Head(msg[c]) = Digit)
  BY DEF FifoInv, FifoTyped, SaysSomething
<1>6. \/ pipe' = pipe /\ (HasLeft(c)' <=> HasLeft(c))
      \/ \E p \in Seq(FifoBytes) :
            /\ pipe' = [pipe EXCEPT ![c] = @ \o p] /\ ~HasLeft(c)
            /\ \/ p = <<Newline>> /\ HasLeft(c)'
               \/ (p # <<>> => Head(p) = Digit) /\ ~HasLeft(c)'
  <2>1. CASE WriteLine(c)
    <3>1. PICK p \in Parts : Writes(c, p)
      BY <2>1 DEF WriteLine
    <3>2. ~HasLeft(c) /\ ~HasLeft(c)'
      BY <2>1 DEF WriteLine, ClientGoes, HasLeft, FifoInv, FifoTyped
    <3>3. QED
      BY <3>1, <3>2, PartsBegin DEF Writes
  <2>2. CASE Quit(c)
    <3>1. ~HasLeft(c) /\ HasLeft(c)'
      BY <2>2 DEF Quit, ClientGoes, HasLeft, FifoInv, FifoTyped
    <3>2. <<Newline>> \in Seq(FifoBytes)
      BY DEF FifoBytes
    <3>3. QED
      BY <2>2, <3>1, <3>2 DEF Quit, Writes
  <2>3. CASE WriteAgain(c)
    <3>1. ~HasLeft(c) /\ ~HasLeft(c)'
      BY <2>3 DEF WriteAgain, ClientGoes, HasLeft, FifoInv, FifoTyped
    <3>2. QED
      BY <1>5, <2>3, <3>1 DEF WriteAgain, Writes
  <2>4. CASE Open(c) \/ EndOfInput(c) \/ CloseFifo(c) \/ Killed(c)
    BY <2>4 DEF Open, EndOfInput, CloseFifo, Killed, ClientGoes, HasLeft, FifoInv, FifoTyped
  <2>5. QED
    BY <2>1, <2>2, <2>3, <2>4 DEF FifoClient
<1>7. /\ pipe' \in [Clients -> Seq(FifoBytes)] /\ \A d \in Clients \ {c} : pipe'[d] = pipe[d]
      /\ pipe[c] # <<>> => pipe'[c] # <<>>
      /\ c \in TornFifos' => c \in TornFifos
      /\ c \in ReadAndLeft => c \in ReadAndLeft'
  <2>1. CASE pipe' = pipe /\ (HasLeft(c)' <=> HasLeft(c))
    BY <1>5, <2>1 DEF TornFifos, IsTorn, ReadAndLeft, Clients
  <2>2. ASSUME NEW p \in Seq(FifoBytes),
               pipe' = [pipe EXCEPT ![c] = @ \o p], ~HasLeft(c),
               \/ p = <<Newline>> /\ HasLeft(c)'
               \/ (p # <<>> => Head(p) = Digit) /\ ~HasLeft(c)'
        PROVE  /\ pipe' \in [Clients -> Seq(FifoBytes)]
               /\ \A d \in Clients \ {c} : pipe'[d] = pipe[d]
               /\ pipe[c] # <<>> => pipe'[c] # <<>>
               /\ c \in TornFifos' => c \in TornFifos
               /\ c \in ReadAndLeft => c \in ReadAndLeft'
    <3>1. pipe[c] \in Seq(FifoBytes) /\ pipe'[c] = pipe[c] \o p
      BY <1>5, <2>2
    <3>2. /\ pipe' \in [Clients -> Seq(FifoBytes)]
          /\ \A d \in Clients \ {c} : pipe'[d] = pipe[d]
      BY <1>5, <2>2, <3>1
    <3>3. pipe[c] # <<>> => /\ pipe'[c] # <<>> /\ Head(pipe'[c]) = Head(pipe[c])
      BY <2>2, <3>1
    <3>4. pipe[c] = <<>> => pipe'[c] = p
      BY <2>2, <3>1
    <3>5. /\ c \in TornFifos' <=> /\ pipe'[c] # <<>> /\ Head(pipe'[c]) = Newline
                                  /\ ~(HasLeft(c)' /\ Len(pipe'[c]) = 1)
          /\ c \in TornFifos <=> /\ pipe[c] # <<>> /\ Head(pipe[c]) = Newline
      BY <2>2 DEF TornFifos, IsTorn, HasLeft, Clients
    <3>6. Digit # Newline /\ Head(<<Newline>>) = Newline /\ Len(<<Newline>>) = 1
      BY DEF Digit, Newline
    <3>7. c \in TornFifos' => c \in TornFifos
      BY <2>2, <3>3, <3>4, <3>5, <3>6
    <3>8. c \notin ReadAndLeft
      BY <2>2 DEF ReadAndLeft, HasLeft
    <3>9. QED
      BY <3>2, <3>3, <3>7, <3>8
  <2>3. QED
    BY <1>6, <2>1, <2>2
<1>8. FifoTyped' /\ Reported'
  BY <1>1, <1>2, <1>4, <1>7 DEF FifoInv, FifoTyped, Reported, Clients
<1>9. TornFifos' \subseteq TornFifos /\ ReadAndLeft \subseteq ReadAndLeft'
  BY <1>3, <1>7 DEF TornFifos, IsTorn, ReadAndLeft, HasLeft, Clients
<1>10. CountsRead'
  BY <1>1, <1>9, MoreRead DEF FifoInv
<1>11. QED
  BY <1>4, <1>8, <1>10 DEF FifoInv

\* The invariant holds in every state of the server and its clients.
THEOREM FifoInvariance == FifoSpec => []FifoInv
<1>1. FifoInv /\ [FifoNext]_fifo_vars => FifoInv'
  <2> SUFFICES ASSUME FifoInv, [FifoNext]_fifo_vars PROVE FifoInv'
    OBVIOUS
  <2>1. CASE FifoNext
    BY <2>1, VisitStep, ServerStep, FifoClientStep DEF FifoNext, Server
  <2>2. CASE UNCHANGED fifo_vars
    BY <2>2 DEF fifo_vars, FifoInv, FifoTyped, SaysSomething, Reported, CountsRead, TornFifos,
                ReadAndLeft, IsTorn, HasLeft, Clients
  <2>3. QED
    BY <2>1, <2>2
<1>2. QED
  BY FifoInitially, <1>1, PTL DEF FifoSpec

\* The server counts no client as gone that has not left, and none twice, but for one each
\* time a read has ended just before a newline (server.c:43-77): what it has counted is
\* those that have left and whose line has been read, and the newlines it has torn off.
THEOREM LeaversCounted == FifoSpec => []CountsLeavers
<1>1. ASSUME FifoInv PROVE CountsLeavers
  <2>1. ReadAndLeft \subseteq {c \in Clients : HasLeft(c)}
    BY DEF ReadAndLeft
  <2>2. /\ IsFiniteSet({c \in Clients : HasLeft(c)})
        /\ Cardinality({c \in Clients : HasLeft(c)}) \in Nat
    BY ClientsFinite
  <2>3. Cardinality(ReadAndLeft) <= Cardinality({c \in Clients : HasLeft(c)})
    BY <2>1, <2>2, FS_Subset
  <2>4. QED
    BY <1>1, <2>2, <2>3, CardinalitiesTyped DEF FifoInv, FifoTyped, CountsRead, CountsLeavers
<1>2. QED
  BY FifoInvariance, <1>1, PTL


-----------------------------------------------------------------------------
(* AddressBook: the sizes in a table. *)

TableSlots == 1..MEMORY_TRACKER_SIZE
Entries    == [address : 0..Blocks, size : Nat]
Tables     == [TableSlots -> Entries]

LEMMA MinInSet == ASSUME NEW S \in SUBSET Nat, S # {} PROVE Min(S) \in S
<1>1. \E m \in S : \A k \in S : m <= k
  BY LeastElement
<1>2. QED
  BY <1>1, Zenon DEF Min

Weight(e) == IF e.address = 0 THEN 0 ELSE e.size

\* The recursive definition of Sizes has a solution: the least k without one on 0..k
\* would have one that extends that on 0..(k - 1).
LEMMA SizesEquation ==
    ASSUME NEW table \in Tables
    PROVE  /\ Sizes(table)[0] = 0
           /\ \A k \in TableSlots : Sizes(table)[k] = Sizes(table)[k - 1] + Weight(table[k])
<1> DEFINE M == MEMORY_TRACKER_SIZE
           w == [k \in TableSlots |-> Weight(table[k])]
           Solves(g, m) == /\ g \in [0..m -> Nat] /\ g[0] = 0
                           /\ \A k \in 1..m : g[k] = g[k - 1] + w[k]
           Unsolved == {m \in 0..M : ~ \E g : Solves(g, m)}
<1>1. w \in [1..M -> Nat] /\ M \in Nat
  BY AddressBookAssumption DEF Tables, Entries, TableSlots, Weight
<1>2. \A k \in TableSlots : w[k] = IF table[k].address = 0 THEN 0 ELSE table[k].size
  BY DEF Weight
<1>3. \A k \in TableSlots : w[k] = Weight(table[k])
  OBVIOUS
<1> HIDE DEF w
<1>4. Unsolved = {}
  <2>1. SUFFICES ASSUME Unsolved # {} PROVE FALSE
    OBVIOUS
  <2>2. PICK m \in Unsolved : \A k \in Unsolved : m <= k
    <3>1. Unsolved \in SUBSET Nat
      OBVIOUS
    <3>2. QED
      BY <2>1, <3>1, LeastElement, Zenon
  <2>3. m # 0
    <3>1. Solves([k \in 0..0 |-> 0], 0)
      OBVIOUS
    <3>2. QED
      BY <2>2, <3>1
  <2>4. m \in 1..M /\ m - 1 \in 0..M /\ ~(m <= m - 1)
    BY <1>1, <2>2, <2>3
  <2>5. m - 1 \notin Unsolved
    BY <2>2, <2>4, Zenon
  <2>6. PICK g : Solves(g, m - 1)
    BY <2>4, <2>5, Zenon
  <2> DEFINE h == [k \in 0..m |-> IF k = m THEN g[m - 1] + w[m] ELSE g[k]]
  <2>7. Solves(h, m)
    <3>1. g[m - 1] \in Nat /\ w[m] \in Nat
      BY <1>1, <2>4, <2>6
    <3>2. h \in [0..m -> Nat]
      BY <2>4, <2>6, <3>1
    <3>3. h[0] = 0
      BY <2>4, <2>6
    <3>4. ASSUME NEW k \in 1..m PROVE h[k] = h[k - 1] + w[k]
      <4>1. k \in 0..m /\ k - 1 \in 0..m /\ k - 1 # m
        BY <2>4
      <4>2. h[k - 1] = g[k - 1]
        BY <4>1
      <4>3. CASE k = m
        BY <4>1, <4>2, <4>3
      <4>4. CASE k # m
        <5>1. k \in 1..(m - 1)
          BY <2>4, <4>4
        <5>2. h[k] = g[k] /\ g[k] = g[k - 1] + w[k]
          BY <2>6, <4>1, <4>4, <5>1
        <5>3. QED
          BY <4>2, <5>2
      <4>5. QED
        BY <4>3, <4>4
    <3>5. QED
      BY <3>2, <3>3, <3>4
  <2>8. QED
    BY <2>2, <2>7
<1>5. PICK g : Solves(g, M)
  <2>1. M \in 0..M
    BY <1>1
  <2>2. QED
    BY <1>4, <2>1, Zenon
<1> DEFINE body(f) == [k \in 0..M |-> IF k = 0 THEN 0
                        ELSE f[k - 1] + (IF table[k].address = 0 THEN 0 ELSE table[k].size)]
<1>6. g = body(g)
  BY <1>1, <1>2, <1>5 DEF TableSlots
<1>7. Sizes(table) = body(Sizes(table))
  BY <1>6 DEF Sizes
<1>8. QED
  <2>1. \A k \in 0..M : Sizes(table)[k] = IF k = 0 THEN 0
              ELSE Sizes(table)[k - 1] + (IF table[k].address = 0 THEN 0 ELSE table[k].size)
    BY <1>7
  <2>2. 0 \in 0..M
    BY <1>1
  <2>3. ASSUME NEW k \in TableSlots PROVE Sizes(table)[k] = Sizes(table)[k - 1] + Weight(table[k])
    <3>1. k \in 0..M /\ k # 0
      BY <1>1 DEF TableSlots
    <3>2. QED
      BY <2>1, <3>1 DEF Weight
  <2>4. QED
    BY <2>1, <2>2, <2>3

\* A sum over a table changes by what a slot changes by.
LEMMA SlotChanges ==
    ASSUME NEW table \in Tables, NEW s \in TableSlots, NEW e \in Entries
    PROVE  /\ [table EXCEPT ![s] = e] \in Tables
           /\ Sizes(table)[MEMORY_TRACKER_SIZE] \in Nat
           /\ Sizes([table EXCEPT ![s] = e])[MEMORY_TRACKER_SIZE]
                = Sizes(table)[MEMORY_TRACKER_SIZE] - Weight(table[s]) + Weight(e)
<1> DEFINE new == [table EXCEPT ![s] = e]
           a == Sizes(table)
           b == Sizes(new)
           M == MEMORY_TRACKER_SIZE
           Differ(k) == /\ a[k] \in Nat
                        /\ b[k] = IF k < s THEN a[k] ELSE a[k] - Weight(table[s]) + Weight(e)
           Bad == {k \in 0..M : ~Differ(k)}
<1>1. new \in Tables /\ M \in Nat \ {0} /\ s \in 1..M
  BY AddressBookAssumption DEF Tables, TableSlots
<1>2. /\ a[0] = 0 /\ b[0] = 0
      /\ \A k \in 1..M : a[k] = a[k - 1] + Weight(table[k]) /\ b[k] = b[k - 1] + Weight(new[k])
  BY <1>1, SizesEquation DEF TableSlots
<1>3. /\ \A k \in 1..M : Weight(table[k]) \in Nat
      /\ Weight(e) \in Nat
      /\ \A k \in 1..M : Weight(new[k]) = IF k = s THEN Weight(e) ELSE Weight(table[k])
  BY DEF Tables, TableSlots, Entries, Weight
<1> HIDE DEF a, b, new
<1>4. Bad = {}
  <2>1. SUFFICES ASSUME Bad # {} PROVE FALSE
    OBVIOUS
  <2>2. PICK m \in Bad : \A k \in Bad : m <= k
    <3>1. Bad \in SUBSET Nat
      OBVIOUS
    <3>2. QED
      BY <2>1, <3>1, LeastElement, Zenon
  <2>3. m # 0
    BY <1>1, <1>2, <2>2
  <2>4. m \in 1..M /\ m - 1 \in 0..M /\ ~(m <= m - 1)
    BY <1>1, <2>2, <2>3
  <2>5. Differ(m - 1)
    BY <2>2, <2>4
  <2>6. Differ(m)
    <3>1. a[m] = a[m - 1] + Weight(table[m]) /\ b[m] = b[m - 1] + Weight(new[m])
      BY <1>2, <2>4
    <3>2. Weight(table[m]) \in Nat /\ Weight(table[s]) \in Nat
      BY <1>1, <1>3, <2>4
    <3>3. CASE m < s
      BY <1>1, <1>3, <2>4, <2>5, <3>1, <3>2, <3>3
    <3>4. CASE m = s
      BY <1>1, <1>3, <2>4, <2>5, <3>1, <3>2, <3>4
    <3>5. CASE m > s
      BY <1>1, <1>3, <2>4, <2>5, <3>1, <3>2, <3>5
    <3>6. QED
      BY <1>1, <2>4, <3>3, <3>4, <3>5
  <2>7. QED
    BY <2>2, <2>6
<1>5. Differ(M)
  BY <1>1, <1>4
<1>6. QED
  BY <1>1, <1>5 DEF a, b, new

-----------------------------------------------------------------------------
(* AddressBook: the inductive invariant, and what malloc and free keep. *)

Errors  == {"FAILED_ALLOC", "MAX_ALLOC", "DOUBLE_FREE"}
Records == [heap : SUBSET (1..Blocks), memory : Tables, error : SUBSET Errors,
            allocated : Nat, freed : Nat]

\* A block is in one slot at most, and is allocated; as long as there is no error every
\* block that is allocated has a slot.
Tracks(m) ==
    /\ \A k, l \in TableSlots : m.memory[k].address # 0 /\ m.memory[k].address = m.memory[l].address
                                 => k = l
    /\ \A k \in TableSlots : m.memory[k].address # 0 => m.memory[k].address \in m.heap
    /\ m.error = {} => \A a \in m.heap : \E k \in TableSlots : m.memory[k].address = a
    /\ m.allocated - m.freed = Sizes(m.memory)[MEMORY_TRACKER_SIZE]

MemoryOK(m) == m \in Records /\ Tracks(m)

\* The nodes and contacts of the list are different blocks, all allocated.
ListNodes == [node : 1..Blocks, data : 1..Blocks]
ListOK == /\ list \in Seq(ListNodes)
          /\ \A j \in DOMAIN list : list[j].node \in heap /\ list[j].data \in heap
          /\ \A j, k \in DOMAIN list : list[j].node # list[k].data
          /\ \A j, k \in DOMAIN list :
                j # k => list[j].node # list[k].node /\ list[j].data # list[k].data

BookInv == MemoryOK(Memory) /\ ListOK /\ address_book \in 0..Blocks

LEMMA NullIsAddress == 0 \in 0..Blocks
BY AddressBookAssumption

LEMMA RecordIs ==
    ASSUME NEW h \in SUBSET (1..Blocks), NEW t \in Tables, NEW e \in SUBSET Errors,
           NEW a \in Nat, NEW f \in Nat
    PROVE  [heap |-> h, memory |-> t, error |-> e, allocated |-> a, freed |-> f] \in Records
BY DEF Records

LEMMA TakenSlots ==
    ASSUME NEW m \in Records, NEW a \in 0..Blocks
    PROVE  /\ WithAddress(m, a) = {k \in TableSlots : m.memory[k].address = a}
           /\ WithAddress(m, a) # {} => /\ Min(WithAddress(m, a)) \in TableSlots
                                        /\ m.memory[Min(WithAddress(m, a))].address = a
<1>1. WithAddress(m, a) = {k \in TableSlots : m.memory[k].address = a}
  BY DEF WithAddress, Records, Tables
<1>2. WithAddress(m, a) # {} => Min(WithAddress(m, a)) \in WithAddress(m, a)
  BY <1>1, MinInSet DEF TableSlots
<1>3. QED
  BY <1>1, <1>2

LEMMA MallocKeeps ==
    ASSUME NEW m, MemoryOK(m), NEW a \in 1..Blocks, a \notin m.heap, NEW thing \in DOMAIN SizeOf
    PROVE  MemoryOK(Malloc(m, a, thing)) /\ Malloc(m, a, thing).heap = m.heap \cup {a}
<1> DEFINE n == Malloc(m, a, thing)
           s == Min(WithAddress(m, 0))
           e == [address |-> a, size |-> SizeOf[thing]]
<1>1. /\ m \in Records /\ a # 0 /\ SizeOf[thing] \in Nat
      /\ m.memory \in Tables /\ m.allocated \in Nat /\ m.freed \in Nat
  BY DEF MemoryOK, SizeOf, Records
<1>2. CASE WithAddress(m, 0) = {}
  <2>1. n = [m EXCEPT !.heap = @ \cup {a}, !.error = @ \cup {"MAX_ALLOC"}]
    BY <1>1, <1>2 DEF Malloc
  <2>2. /\ n.heap = m.heap \cup {a} /\ n.memory = m.memory /\ n.error # {}
        /\ n.allocated = m.allocated /\ n.freed = m.freed /\ n \in Records
    BY <1>1, <2>1 DEF Records, Errors
  <2>3. Tracks(n)
    BY <2>2 DEF MemoryOK, Tracks
  <2>4. QED
    BY <2>2, <2>3 DEF MemoryOK
<1>3. CASE WithAddress(m, 0) # {}
  <2>1. s \in TableSlots /\ m.memory[s].address = 0
    BY <1>1, <1>3, TakenSlots, NullIsAddress
  <2>2. e \in Entries /\ e.address = a /\ e.size = SizeOf[thing]
    BY <1>1 DEF Entries
  <2>3. n = [m EXCEPT !.heap = @ \cup {a}, !.allocated = @ + SizeOf[thing], !.memory[s] = e]
    BY <1>1, <1>3 DEF Malloc
  <2> HIDE DEF s, e
  <2>4. /\ n.heap = m.heap \cup {a} /\ n.memory = [m.memory EXCEPT ![s] = e] /\ n.error = m.error
        /\ n.allocated = m.allocated + SizeOf[thing] /\ n.freed = m.freed
        /\ n = [heap |-> n.heap, memory |-> n.memory, error |-> n.error,
                allocated |-> n.allocated, freed |-> n.freed]
    BY <1>1, <2>3 DEF Records
  <2>5. /\ n.memory \in Tables
        /\ Sizes(m.memory)[MEMORY_TRACKER_SIZE] \in Nat
        /\ Sizes(n.memory)[MEMORY_TRACKER_SIZE]
             = Sizes(m.memory)[MEMORY_TRACKER_SIZE] - Weight(m.memory[s]) + Weight(e)
    <3>1. /\ [m.memory EXCEPT ![s] = e] \in Tables
          /\ Sizes(m.memory)[MEMORY_TRACKER_SIZE] \in Nat
          /\ Sizes([m.memory EXCEPT ![s] = e])[MEMORY_TRACKER_SIZE]
               = Sizes(m.memory)[MEMORY_TRACKER_SIZE] - Weight(m.memory[s]) + Weight(e)
      BY <1>1, <2>1, <2>2, SlotChanges
    <3>2. n.memory = [m.memory EXCEPT ![s] = e]
      BY <2>4
    <3> HIDE DEF n
    <3>3. QED
      BY <3>1, <3>2, Zenon
  <2>6. Weight(m.memory[s]) = 0 /\ Weight(e) = SizeOf[thing]
    BY <1>1, <2>1, <2>2 DEF Weight
  <2>7. n \in Records
    <3>1. /\ n.heap \in SUBSET (1..Blocks) /\ n.error \in SUBSET Errors
          /\ n.allocated \in Nat /\ n.freed \in Nat
      BY <1>1, <2>4 DEF Records
    <3> HIDE DEF n
    <3>2. [heap |-> n.heap, memory |-> n.memory, error |-> n.error,
           allocated |-> n.allocated, freed |-> n.freed] \in Records
      BY <2>5, <3>1, RecordIs, Zenon
    <3>3. n = [heap |-> n.heap, memory |-> n.memory, error |-> n.error,
               allocated |-> n.allocated, freed |-> n.freed]
      BY <2>4
    <3>4. QED
      BY <3>2, <3>3
  <2>8. \A k \in TableSlots : n.memory[k] = IF k = s THEN e ELSE m.memory[k]
    BY <1>1, <2>1, <2>4 DEF Tables
  <2>9. n.allocated - n.freed = Sizes(n.memory)[MEMORY_TRACKER_SIZE]
    BY <1>1, <2>4, <2>5, <2>6 DEF MemoryOK, Tracks
  <2>10. ASSUME NEW k \in TableSlots, n.memory[k].address # 0
         PROVE  /\ n.memory[k].address \in n.heap
                /\ \A l \in TableSlots : n.memory[k].address = n.memory[l].address => k = l
    <3>1. \A l \in TableSlots : m.memory[l].address # a
      BY <1>1 DEF MemoryOK, Tracks
    <3>2. CASE k = s
      BY <2>2, <2>4, <2>8, <3>1, <3>2
    <3>3. CASE k # s
      BY <2>2, <2>4, <2>8, <2>10, <3>1, <3>3 DEF MemoryOK, Tracks
    <3>4. QED
      BY <3>2, <3>3
  <2>11. ASSUME n.error = {}, NEW b \in n.heap
         PROVE  \E k \in TableSlots : n.memory[k].address = b
    <3>1. CASE b = a
      BY <2>1, <2>2, <2>8, <3>1
    <3>2. CASE b # a
      <4>1. PICK k \in TableSlots : m.memory[k].address = b
        BY <2>4, <2>11, <3>2 DEF MemoryOK, Tracks
      <4>2. b # 0
        BY <1>1, <2>4, <2>11, <3>2 DEF Records
      <4>3. QED
        BY <2>1, <2>8, <4>1, <4>2
    <3>3. QED
      BY <3>1, <3>2
  <2>12. QED
    BY <2>4, <2>7, <2>9, <2>10, <2>11 DEF MemoryOK, Tracks
<1>4. QED
  BY <1>2, <1>3

LEMMA FreeKeeps ==
    ASSUME NEW m, MemoryOK(m), NEW a \in 1..Blocks
    PROVE  /\ MemoryOK(Free(m, a))
           /\ m.heap \ {a} \subseteq Free(m, a).heap
<1> DEFINE n == Free(m, a)
           s == Min(WithAddress(m, a))
<1>1. /\ m \in Records /\ a # 0 /\ a \in 0..Blocks
      /\ m.memory \in Tables /\ m.allocated \in Nat /\ m.freed \in Nat
  BY DEF MemoryOK, Records
<1>2. CASE WithAddress(m, a) = {}
  <2>1. n = [m EXCEPT !.error = @ \cup {"DOUBLE_FREE"}]
    BY <1>2 DEF Free
  <2>2. /\ n.heap = m.heap /\ n.memory = m.memory /\ n.error # {}
        /\ n.allocated = m.allocated /\ n.freed = m.freed /\ n \in Records
    BY <1>1, <2>1 DEF Records, Errors
  <2>3. Tracks(n)
    BY <2>2 DEF MemoryOK, Tracks
  <2>4. QED
    BY <2>2, <2>3 DEF MemoryOK
<1>3. CASE WithAddress(m, a) # {}
  <2> DEFINE e == [m.memory[s] EXCEPT !.address = 0]
  <2>1. s \in TableSlots /\ m.memory[s].address = a /\ m.memory[s] \in Entries
    BY <1>1, <1>3, TakenSlots DEF Tables
  <2>2. e \in Entries /\ e.address = 0 /\ m.memory[s].size \in Nat
    <3>1. \A x \in Entries : /\ [x EXCEPT !.address = 0] \in Entries
                             /\ [x EXCEPT !.address = 0].address = 0 /\ x.size \in Nat
      BY NullIsAddress DEF Entries
    <3>2. QED
      BY <2>1, <3>1
  <2>3. n = [m EXCEPT !.heap = @ \ {a}, !.freed = @ + m.memory[s].size, !.memory[s] = GivenBack(@)]
    BY <1>3 DEF Free
  <2> HIDE DEF s
  <2>4. /\ n.heap = m.heap \ {a} /\ n.memory = [m.memory EXCEPT ![s] = e] /\ n.error = m.error
        /\ n.allocated = m.allocated /\ n.freed = m.freed + m.memory[s].size
        /\ n = [heap |-> n.heap, memory |-> n.memory, error |-> n.error,
                allocated |-> n.allocated, freed |-> n.freed]
    BY <1>1, <2>3 DEF Records, GivenBack
  <2> HIDE DEF e
  <2>5. /\ n.memory \in Tables
        /\ Sizes(m.memory)[MEMORY_TRACKER_SIZE] \in Nat
        /\ Sizes(n.memory)[MEMORY_TRACKER_SIZE]
             = Sizes(m.memory)[MEMORY_TRACKER_SIZE] - Weight(m.memory[s]) + Weight(e)
    <3>1. /\ [m.memory EXCEPT ![s] = e] \in Tables
          /\ Sizes(m.memory)[MEMORY_TRACKER_SIZE] \in Nat
          /\ Sizes([m.memory EXCEPT ![s] = e])[MEMORY_TRACKER_SIZE]
               = Sizes(m.memory)[MEMORY_TRACKER_SIZE] - Weight(m.memory[s]) + Weight(e)
      BY <1>1, <2>1, <2>2, SlotChanges
    <3>2. n.memory = [m.memory EXCEPT ![s] = e]
      BY <2>4
    <3> HIDE DEF n
    <3>3. QED
      BY <3>1, <3>2, Zenon
  <2>6. Weight(m.memory[s]) = m.memory[s].size /\ Weight(e) = 0
    BY <1>1, <2>1, <2>2 DEF Weight
  <2>7. n \in Records
    <3>1. /\ n.heap \in SUBSET (1..Blocks) /\ n.error \in SUBSET Errors
          /\ n.allocated \in Nat /\ n.freed \in Nat
      BY <1>1, <2>2, <2>4 DEF Records
    <3> HIDE DEF n
    <3>2. [heap |-> n.heap, memory |-> n.memory, error |-> n.error,
           allocated |-> n.allocated, freed |-> n.freed] \in Records
      BY <2>5, <3>1, RecordIs, Zenon
    <3>3. n = [heap |-> n.heap, memory |-> n.memory, error |-> n.error,
               allocated |-> n.allocated, freed |-> n.freed]
      BY <2>4
    <3>4. QED
      BY <3>2, <3>3
  <2>8. \A k \in TableSlots : n.memory[k] = IF k = s THEN e ELSE m.memory[k]
    BY <1>1, <2>1, <2>4 DEF Tables
  <2>9. n.allocated - n.freed = Sizes(n.memory)[MEMORY_TRACKER_SIZE]
    BY <1>1, <2>2, <2>4, <2>5, <2>6 DEF MemoryOK, Tracks
  <2>10. Tracks(n)
    BY <1>1, <2>1, <2>2, <2>4, <2>8, <2>9 DEF MemoryOK, Tracks
  <2>11. QED
    BY <2>4, <2>7, <2>10 DEF MemoryOK
<1>4. QED
  BY <1>2, <1>3

-----------------------------------------------------------------------------
(* AddressBook: each step keeps it. *)

LEMMA BookInitially == BookInit => BookInv
<1> SUFFICES ASSUME BookInit PROVE BookInv
  OBVIOUS
<1>1. memory \in Tables /\ \A k \in TableSlots : memory[k].address = 0
  BY NullIsAddress DEF BookInit, Tables, TableSlots, Entries
<1>2. Sizes(memory)[MEMORY_TRACKER_SIZE] = 0
  <2> DEFINE Bad == {k \in 0..MEMORY_TRACKER_SIZE : Sizes(memory)[k] # 0}
  <2>1. SUFFICES ASSUME Bad # {} PROVE FALSE
    BY AddressBookAssumption
  <2>2. PICK m \in Bad : \A k \in Bad : m <= k
    <3>1. Bad \in SUBSET Nat
      OBVIOUS
    <3>2. QED
      BY <2>1, <3>1, LeastElement, Zenon
  <2>3. m # 0
    BY <1>1, <2>2, SizesEquation
  <2>4. m \in TableSlots /\ m - 1 \in 0..MEMORY_TRACKER_SIZE /\ ~(m <= m - 1)
    BY <2>2, <2>3, AddressBookAssumption DEF TableSlots
  <2>5. Sizes(memory)[m] = Sizes(memory)[m - 1] + Weight(memory[m])
    BY <1>1, <2>4, SizesEquation
  <2>6. Weight(memory[m]) = 0
    BY <1>1, <2>4 DEF Weight
  <2>7. Sizes(memory)[m - 1] = 0
    BY <2>2, <2>4
  <2>8. QED
    BY <2>2, <2>5, <2>6, <2>7
<1>3. Memory.heap = {} /\ Memory.memory = memory /\ Memory.error = {}
      /\ Memory.allocated = 0 /\ Memory.freed = 0
  BY DEF BookInit, Memory
<1>4. Memory \in Records
  BY <1>1 DEF BookInit, Memory, Records
<1>5. Tracks(Memory)
  BY <1>1, <1>2, <1>3 DEF Tracks
<1>6. ListOK /\ address_book \in 0..Blocks
  BY NullIsAddress DEF BookInit, ListOK
<1>7. QED
  BY <1>4, <1>5, <1>6 DEF BookInv, MemoryOK

\* What an action makes of the record is the record of the next state.
LEMMA MemoryNext == ASSUME NEW m \in Records, MemoryBecomes(m) PROVE Memory' = m /\ heap' = m.heap
<1>1. m = [heap |-> m.heap, memory |-> m.memory, error |-> m.error,
           allocated |-> m.allocated, freed |-> m.freed]
  BY DEF Records
<1>2. QED
  BY <1>1 DEF MemoryBecomes, Memory

LEMMA MemorySame == BookInv => Memory \in Records /\ Memory.heap = heap
BY DEF BookInv, MemoryOK, Memory

\* If nothing is added to a list, and what remains in it is not freed, it stays right.
LEMMA ListKept ==
    ASSUME ListOK, list' \in Seq(ListNodes), NEW f \in [DOMAIN list' -> DOMAIN list],
           \A x, y \in DOMAIN list' : f[x] = f[y] => x = y,
           \A x \in DOMAIN list' : /\ list'[x] = list[f[x]]
                                  /\ list[f[x]].node \in heap' /\ list[f[x]].data \in heap'
    PROVE  ListOK'
BY DEF ListOK

LEMMA ListSame == ASSUME ListOK, list' = list, heap \subseteq heap' PROVE ListOK'
BY DEF ListOK

LEMMA ListEmpty == ASSUME list' = <<>> PROVE ListOK'
BY DEF ListOK

LEMMA FreeBlocksFree ==
    ASSUME BookInv, FreeBlocks(Memory) # {}
    PROVE  /\ Min(FreeBlocks(Memory)) \in FreeBlocks(Memory)
           /\ \A a \in FreeBlocks(Memory) : a \in 1..Blocks /\ a \notin heap
<1>1. FreeBlocks(Memory) \in SUBSET Nat
  BY DEF FreeBlocks
<1>2. QED
  BY <1>1, MinInSet, MemorySame DEF FreeBlocks

LEMMA CreateStep == ASSUME BookInv, Create PROVE BookInv'
<1> DEFINE a == Min(FreeBlocks(Memory))
           m == Malloc(Memory, a, "book")
<1>1. address_book' = a /\ MemoryBecomes(m) /\ list' = <<>> /\ FreeBlocks(Memory) # {}
  BY DEF Create
<1>2. a \in 1..Blocks /\ a \notin Memory.heap
  BY <1>1, FreeBlocksFree, MemorySame
<1>3. MemoryOK(m)
  <2>1. "book" \in DOMAIN SizeOf
    BY DEF SizeOf
  <2>2. QED
    BY <1>2, <2>1, MallocKeeps DEF BookInv
<1>4. Memory' = m
  BY <1>1, <1>3, MemoryNext DEF MemoryOK
<1>5. QED
  BY <1>1, <1>2, <1>3, <1>4, ListEmpty DEF BookInv

LEMMA AddStep == ASSUME BookInv, Add PROVE BookInv'
<1> DEFINE c  == Min(FreeBlocks(Memory))
           m  == Malloc(Memory, c, "contact")
           nd == Min(FreeBlocks(Memory) \ {c})
           n  == Malloc(m, nd, "node")
           new == [node |-> nd, data |-> c]
<1>1. /\ MemoryBecomes(n) /\ list' = Append(list, new) /\ address_book' = address_book
      /\ Cardinality(FreeBlocks(Memory)) >= 2
  BY DEF Add
<1>2. FreeBlocks(Memory) # {} /\ FreeBlocks(Memory) \ {c} # {}
  <2>1. FreeBlocks(Memory) # {}
    BY <1>1, FS_EmptySet
  <2>2. \A x : FreeBlocks(Memory) # {x}
    <3>1. \A x : Cardinality({x}) = 1
      BY FS_Singleton
    <3>2. ~(1 >= 2)
      OBVIOUS
    <3>3. QED
      BY <1>1, <3>1, <3>2, Zenon
  <2>3. QED
    BY <2>1, <2>2
<1>3. c \in 1..Blocks /\ c \notin Memory.heap /\ c \notin heap
  BY <1>2, FreeBlocksFree, MemorySame
<1>4. nd \in 1..Blocks /\ nd \notin Memory.heap /\ nd # c
  <2>1. FreeBlocks(Memory) \ {c} \in SUBSET Nat
    BY DEF FreeBlocks
  <2>2. nd \in FreeBlocks(Memory) \ {c}
    BY <1>2, <2>1, MinInSet
  <2>3. QED
    BY <1>2, <2>2, FreeBlocksFree, MemorySame
<1>5. "contact" \in DOMAIN SizeOf /\ "node" \in DOMAIN SizeOf
  BY DEF SizeOf
<1> HIDE DEF c, nd
<1>6. MemoryOK(m) /\ m.heap = Memory.heap \cup {c}
  BY <1>3, <1>5, MallocKeeps DEF BookInv
<1> HIDE DEF m
<1>7. MemoryOK(n) /\ n.heap = m.heap \cup {nd}
  BY <1>3, <1>4, <1>5, <1>6, MallocKeeps
<1> HIDE DEF n
<1>8. Memory' = n /\ heap' = n.heap
  BY <1>1, <1>7, MemoryNext DEF MemoryOK
<1>9. heap' = heap \cup {c, nd} /\ nd \notin heap
  BY <1>4, <1>6, <1>7, <1>8, MemorySame
<1>10. ListOK'
  <2>1. /\ new \in ListNodes /\ new.node = nd /\ new.data = c
    BY <1>3, <1>4 DEF ListNodes
  <2>2. list \in Seq(ListNodes)
    BY DEF BookInv, ListOK
  <2> HIDE DEF new
  <2>3. /\ list' \in Seq(ListNodes)
        /\ \A x \in DOMAIN list' : \/ x \in DOMAIN list /\ list'[x] = list[x]
                                   \/ x = Len(list) + 1 /\ list'[x] = new
    BY <1>1, <2>1, <2>2
  <2>4. \A x \in DOMAIN list : list[x].node \in heap /\ list[x].data \in heap
    BY DEF BookInv, ListOK
  <2>5. \A x \in DOMAIN list' : list'[x].node \in heap' /\ list'[x].data \in heap'
    BY <1>9, <2>1, <2>3, <2>4
  <2>6. ASSUME NEW x \in DOMAIN list', NEW y \in DOMAIN list'
        PROVE  /\ list'[x].node # list'[y].data
               /\ x # y => list'[x].node # list'[y].node /\ list'[x].data # list'[y].data
    <3>1. CASE list'[x] = new /\ list'[y] = new /\ x = y
      BY <1>4, <2>1, <3>1
    <3>2. CASE x \in DOMAIN list /\ list'[x] = list[x] /\ list'[y] = new
      BY <1>3, <1>9, <2>1, <2>4, <3>2
    <3>3. CASE y \in DOMAIN list /\ list'[y] = list[y] /\ list'[x] = new
      BY <1>3, <1>9, <2>1, <2>4, <3>3
    <3>4. CASE x \in DOMAIN list /\ y \in DOMAIN list /\ list'[x] = list[x] /\ list'[y] = list[y]
      BY <3>4 DEF BookInv, ListOK
    <3>5. QED
      BY <2>3, <3>1, <3>2, <3>3, <3>4
  <2>7. QED
    BY <2>3, <2>5, <2>6 DEF ListOK
<1>11. QED
  BY <1>1, <1>7, <1>8, <1>10 DEF BookInv

LEMMA FailsStep == ASSUME BookInv, MallocFails PROVE BookInv'
<1> DEFINE m == Malloc(Memory, 0, "node")
<1>1. MemoryBecomes(m) /\ list' = list /\ address_book' = address_book
  BY DEF MallocFails
<1>2. m = [Memory EXCEPT !.error = @ \cup {"FAILED_ALLOC"}]
  BY DEF Malloc
<1>3. /\ m \in Records /\ m.heap = Memory.heap /\ m.memory = Memory.memory /\ m.error # {}
      /\ m.allocated = Memory.allocated /\ m.freed = Memory.freed
  BY <1>2, MemorySame DEF Records, Errors
<1> HIDE DEF m
<1>4. MemoryOK(m)
  BY <1>3 DEF BookInv, MemoryOK, Tracks
<1>5. Memory' = m /\ heap' = heap
  BY <1>1, <1>3, MemoryNext, MemorySame
<1>6. QED
  BY <1>1, <1>4, <1>5, ListSame DEF BookInv

LEMMA FreeBookStep == ASSUME BookInv, FreeBook PROVE BookInv'
<1> DEFINE m == Free(Memory, address_book)
<1>1. /\ MemoryBecomes(m) /\ list' = <<>> /\ address_book' = 0 /\ address_book # 0
  BY DEF FreeBook
<1>2. address_book \in 1..Blocks
  BY <1>1, AddressBookAssumption DEF BookInv
<1>3. MemoryOK(m)
  BY <1>2, FreeKeeps DEF BookInv
<1>4. Memory' = m
  BY <1>1, <1>3, MemoryNext DEF MemoryOK
<1>5. QED
  BY <1>1, <1>3, <1>4, ListEmpty, NullIsAddress DEF BookInv

LEMMA RemoveStep == ASSUME BookInv, NEW c \in held, Remove(c) PROVE BookInv'
<1> DEFINE found == {j \in DOMAIN list : j > 1 /\ list[j].data = c}
           j == Min(found)
           n == Len(list)
<1>1. list \in Seq(ListNodes) /\ DOMAIN list = 1..n /\ n \in Nat
  BY DEF BookInv, ListOK
<1>2. address_book' = address_book
  BY DEF Remove
<1>3. found # {} => j \in 1..n /\ j > 1 /\ list[j].data = c
  <2>1. found \in SUBSET Nat
    BY <1>1
  <2>2. found # {} => j \in found
    BY <2>1, MinInSet
  <2>3. QED
    BY <1>1, <2>2
<1>4. \/ MemoryBecomes(Memory) /\ list' = list
      \/ found # {} /\ j = 2 /\ list' = SubSeq(list, 3, n) /\ MemoryBecomes(Memory)
      \/ /\ found # {} /\ j > 2 /\ list' = SubSeq(list, 1, j - 1) \o SubSeq(list, j + 1, n)
         /\ MemoryBecomes(Free(Free(Memory, c), list[j].node))
  BY Zenon DEF Remove
<1> HIDE DEF j, found
<1>5. CASE MemoryBecomes(Memory) /\ list' = list
  <2>1. Memory' = Memory /\ heap' = heap
    BY <1>5, MemoryNext, MemorySame
  <2>2. QED
    BY <1>2, <1>5, <2>1, ListSame DEF BookInv
<1>6. CASE found # {} /\ j = 2 /\ list' = SubSeq(list, 3, n) /\ MemoryBecomes(Memory)
  <2>1. Memory' = Memory /\ heap' = heap
    BY <1>6, MemoryNext, MemorySame
  <2>2. n >= 2
    BY <1>1, <1>3, <1>6
  <2>3. /\ list' \in Seq(ListNodes) /\ DOMAIN list' = 1..(n - 2)
        /\ \A x \in 1..(n - 2) : list'[x] = list[x + 2]
    BY <1>1, <1>6, <2>2
  <2> DEFINE f == [x \in DOMAIN list' |-> x + 2]
  <2>4. /\ f \in [DOMAIN list' -> DOMAIN list]
        /\ \A x, y \in DOMAIN list' : f[x] = f[y] => x = y
        /\ \A x \in DOMAIN list' : list'[x] = list[f[x]]
    BY <1>1, <2>2, <2>3
  <2> HIDE DEF f
  <2>5. ListOK'
    <3>1. \A x \in DOMAIN list' : list[f[x]].node \in heap' /\ list[f[x]].data \in heap'
      BY <2>1, <2>4 DEF BookInv, ListOK
    <3>2. QED
      BY <2>3, <2>4, <3>1, ListKept DEF BookInv
  <2>6. QED
    BY <1>2, <2>1, <2>5 DEF BookInv
<1>7. CASE /\ found # {} /\ j > 2 /\ list' = SubSeq(list, 1, j - 1) \o SubSeq(list, j + 1, n)
           /\ MemoryBecomes(Free(Free(Memory, c), list[j].node))
  <2> DEFINE nd == list[j].node
             m  == Free(Memory, c)
             r  == Free(m, nd)
  <2>1. j \in 1..n /\ list[j].data = c /\ c \in 1..Blocks /\ nd \in 1..Blocks
    <3>1. j \in 1..n /\ list[j].data = c
      BY <1>3, <1>7
    <3>2. list[j] \in ListNodes
      BY <1>1, <3>1
    <3>3. list[j].data \in 1..Blocks /\ list[j].node \in 1..Blocks
      BY <3>2 DEF ListNodes
    <3>4. QED
      BY <3>1, <3>3
  <2>2. MemoryOK(m) /\ Memory.heap \ {c} \subseteq m.heap
    BY <2>1, FreeKeeps DEF BookInv
  <2> HIDE DEF m
  <2>3. MemoryOK(r) /\ m.heap \ {nd} \subseteq r.heap
    BY <2>1, <2>2, FreeKeeps
  <2>4. MemoryBecomes(r)
    BY <1>7 DEF m
  <2> HIDE DEF r
  <2>5. Memory' = r /\ heap' = r.heap
    BY <2>3, <2>4, MemoryNext DEF MemoryOK
  <2>6. heap \ {c, nd} \subseteq heap'
    BY <2>2, <2>3, <2>5, MemorySame
  <2>7. /\ list' \in Seq(ListNodes) /\ DOMAIN list' = 1..(n - 1)
        /\ \A x \in 1..(n - 1) : list'[x] = IF x < j THEN list[x] ELSE list[x + 1]
    BY <1>1, <1>7, <2>1, WithoutElement
  <2> DEFINE f == [x \in DOMAIN list' |-> IF x < j THEN x ELSE x + 1]
  <2>8. /\ f \in [DOMAIN list' -> DOMAIN list]
        /\ \A x, y \in DOMAIN list' : f[x] = f[y] => x = y
        /\ \A x \in DOMAIN list' : list'[x] = list[f[x]] /\ f[x] # j
    BY <1>1, <2>1, <2>7
  <2> HIDE DEF f
  <2>9. \A x \in DOMAIN list' : list[f[x]].node \in heap' /\ list[f[x]].data \in heap'
    <3>1. ASSUME NEW x \in DOMAIN list'
          PROVE  list[f[x]].node \in heap \ {c, nd} /\ list[f[x]].data \in heap \ {c, nd}
      <4>1. f[x] \in DOMAIN list /\ f[x] # j /\ j \in DOMAIN list
        BY <1>1, <2>1, <2>8
      <4>2. QED
        BY <2>1, <4>1 DEF BookInv, ListOK
    <3>2. QED
      BY <2>6, <3>1
  <2>10. ListOK'
    BY <2>7, <2>8, <2>9, ListKept DEF BookInv
  <2>11. QED
    BY <1>2, <2>3, <2>5, <2>10 DEF BookInv
<1>8. QED
  BY <1>4, <1>5, <1>6, <1>7

THEOREM BookInvariance == BookSpec => []BookInv
<1>1. BookInv /\ [BookNext]_book_vars => BookInv'
  <2> SUFFICES ASSUME BookInv, [BookNext]_book_vars PROVE BookInv'
    OBVIOUS
  <2>1. CASE RemoveCrashes
    <3>1. Memory' = Memory /\ heap' = heap /\ list' = list /\ address_book' = address_book
      BY <2>1, MemoryNext, MemorySame DEF RemoveCrashes
    <3>2. QED
      BY <3>1, ListSame DEF BookInv
  <2>2. CASE UNCHANGED book_vars
    <3>1. Memory' = Memory /\ heap' = heap /\ list' = list /\ address_book' = address_book
      BY <2>2 DEF book_vars, Memory
    <3>2. QED
      BY <3>1, ListSame DEF BookInv
  <2>3. QED
    BY <2>1, <2>2, CreateStep, AddStep, FailsStep, FreeBookStep, RemoveStep DEF BookNext
<1>2. QED
  BY BookInitially, <1>1, PTL DEF BookSpec

\* While there is no error, what the tracker knows is what is allocated, its totals always
\* differ by the sizes it knows, and the address book uses nothing that has been freed
\* (memory_tracking.c:24-64, addressbook.c:46-76).
THEOREM TrackerExact == BookSpec => []TrackerIsExact
<1>1. BookInv => TrackerIsExact
  <2> SUFFICES ASSUME BookInv PROVE TrackerIsExact
    OBVIOUS
  <2>1. /\ Memory.memory = memory /\ Memory.heap = heap /\ Memory.error = error
        /\ Memory.allocated = total_allocated /\ Memory.freed = total_freed
    BY DEF Memory
  <2>2. Memory \in Records /\ Tracks(Memory)
    BY DEF BookInv, MemoryOK
  <2>3. memory \in Tables /\ heap \subseteq 1..Blocks
    BY <2>1, <2>2 DEF Records
  <2>4. DOMAIN memory = TableSlots
    BY <2>3 DEF Tables
  <2>5. error = {} => {memory[k].address : k \in DOMAIN memory} \ {0} = heap
    BY <2>1, <2>2, <2>3, <2>4 DEF Tracks
  <2>6. total_allocated - total_freed = Sizes(memory)[MEMORY_TRACKER_SIZE]
    BY <2>1, <2>2, Zenon DEF Tracks
  <2>7. QED
    BY <2>5, <2>6 DEF TrackerIsExact, BookInv, ListOK
<1>2. QED
  BY BookInvariance, <1>1, PTL

-----------------------------------------------------------------------------
(* CondChat: the inductive invariant. *)

USE CondChatAssumption DEF NothingYet, SlotsServed

ListenerPcs == {"lock", "accept", "signal", "unlock", "signal2", "unlock2", "sleep",
                "handler", "end"}
MainPcs     == {"lock", "test", "will_wait", "wait", "create", "unlock", "join_listener",
                "join", "exit", "dead"}
ThreadPcs   == {"none", "start", "started", "name", "read", "leave", "left", "close",
                "shutdown", "cancel", "end"}
Connections == {"out", "backlog", "open", "gone", "closed"}

\* Until the thread of a slot has read the name, and then until it has closed its
\* connection.
Arriving == {"start", "started", "name"}
Serving  == {"read", "leave", "left", "close"}

ChatTyped == /\ sd \in 0..CLIENT_NUM /\ cancelled \in BOOLEAN
         /\ cfd \in [Slots -> ChatClients \cup {None, Junk}]
         /\ conn \in [ChatClients -> Connections]
         /\ lpc \in ListenerPcs /\ li \in 0..CLIENT_NUM
         /\ main \in MainPcs /\ mi \in 0..CLIENT_NUM
         /\ thread \in [Slots -> ThreadPcs]
         /\ shuts \in [Slots -> BOOLEAN]

\* A slot that the listener has still to fill has no connection, and a thread only if
\* main has taken what malloc left there for one.
BeforeAccept == {"lock", "accept"}
AfterAccept  == {"signal", "unlock", "signal2", "unlock2", "sleep"}
Unused(s)    == /\ cfd[s] \in {None, Junk} /\ thread[s] \in {"none"} \cup Arriving
                /\ thread[s] # "none" => cfd[s] = Junk
Filling == /\ lpc \in BeforeAccept \cup AfterAccept => li \in Slots
           /\ lpc \in BeforeAccept => \A s \in Slots : s >= li => Unused(s)
           /\ lpc \in AfterAccept  => \A s \in Slots : s > li => Unused(s)

\* A connection is in one slot at most, and a thread that serves it has one.
Connected == /\ \A s \in Slots : cfd[s] \in ChatClients => conn[cfd[s]] \in {"open", "gone"}
             /\ \A s, t \in Slots : s # t /\ cfd[s] \in ChatClients => cfd[t] # cfd[s]
             /\ \A s \in Slots : thread[s] \in Arriving => cfd[s] # None
             /\ \A s \in Slots : thread[s] \in Serving => cfd[s] \in ChatClients

\* Main creates the threads in the order of their slots.
InLoop == {"lock", "test", "will_wait", "wait", "create", "unlock"}
Creating == /\ main \in InLoop => mi \in Slots /\ sd \in {0, 1}
            /\ main \in InLoop \ {"unlock"} =>
                  \A s \in Slots : thread[s] = "none" <=> s >= mi
            /\ main = "unlock" => \A s \in Slots : thread[s] = "none" <=> s > mi
            /\ main = "create" => cfd[mi] # None
            /\ \A s, t \in Slots : s < t /\ thread[t] # "none" => thread[s] # "none"

\* sd is the number of slots to join, or at least there is a thread.
Joining == main \in {"join_listener", "join"} =>
              \A s \in Slots : s < sd => thread[s] # "none"

\* It takes a thread to make sd 1.
ShutByThread == sd = 1 => thread[0] # "none"

ChatInv == ChatTyped /\ Filling /\ Connected /\ Creating /\ Joining /\ ShutByThread

LEMMA ChatInitially == CondChatInit => ChatInv
<1> SUFFICES ASSUME CondChatInit PROVE ChatInv
  OBVIOUS
<1>1. ChatTyped
  <2>1. sd \in 0..CLIENT_NUM /\ li \in 0..CLIENT_NUM /\ mi \in 0..CLIENT_NUM
    BY DEF CondChatInit
  <2>2. /\ cancelled \in BOOLEAN /\ shuts \in [Slots -> BOOLEAN]
        /\ cfd \in [Slots -> ChatClients \cup {None, Junk}]
    BY DEF CondChatInit
  <2>3. conn \in [ChatClients -> Connections] /\ thread \in [Slots -> ThreadPcs]
    BY DEF CondChatInit, Connections, ThreadPcs
  <2>4. QED
    BY <2>1, <2>2, <2>3 DEF CondChatInit, ChatTyped, ListenerPcs, MainPcs
<1>2. Filling
  BY DEF CondChatInit, Filling, BeforeAccept, AfterAccept, Unused, Arriving, Slots
<1>3. Connected
  BY DEF CondChatInit, Connected, Arriving, Serving
<1>4. Creating /\ Joining /\ ShutByThread
  BY DEF CondChatInit, Creating, InLoop, Slots, Joining, ShutByThread
<1>5. QED
  BY <1>1, <1>2, <1>3, <1>4 DEF ChatInv

-----------------------------------------------------------------------------
(* CondChat: each step keeps it. *)

\* A client changes its connection only, and no more than that it is gone.
LEMMA ClientStep == ASSUME ChatInv, NEW k \in ChatClients, Client(k) PROVE ChatInv'
<1>1. /\ UNCHANGED <<sd, mutex, cfd, cancelled, lpc, li, main, mi, thread, counted, shuts>>
      /\ \/ conn[k] = "out" /\ conn' = [conn EXCEPT ![k] = "backlog"]
         \/ conn[k] = "open" /\ conn' = [conn EXCEPT ![k] = "gone"]
  BY DEF Client
<1>2. ChatTyped' /\ Connected'
  BY <1>1 DEF ChatInv, ChatTyped, Connected, Connections
<1>3. Filling' /\ Creating' /\ Joining' /\ ShutByThread'
  BY <1>1 DEF ChatInv, Filling, Unused, Creating, Joining, ShutByThread
<1>4. QED
  BY <1>2, <1>3 DEF ChatInv

\* The end of the program.
LEMMA DeathStep == ASSUME ChatInv, Dies PROVE ChatInv'
<1>1. /\ main' = "dead"
      /\ UNCHANGED <<sd, cfd, conn, cancelled, lpc, li, mi, thread, counted, shuts>>
  BY DEF Dies, shared
<1>2. ChatTyped' /\ Connected' /\ Filling' /\ ShutByThread'
  BY <1>1 DEF ChatInv, ChatTyped, MainPcs, Connected, Filling, Unused, ShutByThread
<1>3. Creating' /\ Joining'
  BY <1>1 DEF ChatInv, Creating, InLoop, Joining
<1>4. QED
  BY <1>2, <1>3 DEF ChatInv

\* A signal only lets main come back from its wait, which it may do anyway.
LEMMA Woken == ASSUME main' = (IF main = "wait" THEN "lock" ELSE main), Creating, Joining,
                      UNCHANGED <<sd, mi, thread>>, \A s \in Slots : s = mi => cfd'[s] = cfd[s],
                      main = "create" => cfd'[mi] # None
               PROVE  Creating' /\ Joining'
<1>1. CASE main = "wait"
  BY <1>1 DEF Creating, Joining, InLoop
<1>2. CASE main # "wait"
  BY <1>2 DEF Creating, Joining, InLoop
<1>3. QED
  BY <1>1, <1>2

\* The steps of the listener other than accept.
LEMMA ListenerMoves ==
    ASSUME ChatInv, ListenerLocks \/ Signals \/ ListenerUnlocks \/ Sleep \/ IsCancelled
    PROVE  ChatInv'
<1>1. UNCHANGED <<sd, cfd, conn, cancelled, mi, thread, shuts>>
  BY DEF ListenerLocks, Signals, ListenerUnlocks, Sleep, IsCancelled, ListenerGoes
<1>2. main' \in {main, IF main = "wait" THEN "lock" ELSE main}
  BY DEF ListenerLocks, Signals, ListenerUnlocks, Sleep, IsCancelled, Signal
<1>3. \/ lpc = "lock" /\ lpc' = "accept" /\ li' = li
      \/ lpc \in AfterAccept /\ lpc' \in AfterAccept /\ li' = li
      \/ lpc = "sleep" /\ li' = li + 1 /\ lpc' = IF li + 1 = CLIENT_NUM THEN "end" ELSE "lock"
      \/ lpc' \in {"handler", "end"} /\ li' = li
  BY DEF ListenerLocks, Signals, ListenerUnlocks, Sleep, IsCancelled, ListenerGoes, AfterAccept
<1>4. ChatTyped' /\ Filling'
  <2>1. main' \in MainPcs
    BY <1>2 DEF ChatInv, ChatTyped, MainPcs
  <2>2. lpc' \in ListenerPcs
    BY <1>3 DEF AfterAccept, ListenerPcs
  <2>3. li' \in 0..CLIENT_NUM /\ Filling'
    BY <1>1, <1>3 DEF ChatInv, ChatTyped, Filling, BeforeAccept, AfterAccept, Unused, Slots
  <2>4. QED
    BY <1>1, <2>1, <2>2, <2>3 DEF ChatInv, ChatTyped
<1>5. Connected' /\ ShutByThread'
  BY <1>1 DEF ChatInv, Connected, ShutByThread
<1>6. Creating' /\ Joining'
  <2>1. CASE main' = main
    BY <1>1, <2>1 DEF ChatInv, Creating, Joining
  <2>2. CASE main' = IF main = "wait" THEN "lock" ELSE main
    BY <1>1, <2>2, Woken DEF ChatInv, Creating
  <2>3. QED
    BY <1>2, <2>1, <2>2
<1>7. QED
  BY <1>4, <1>5, <1>6 DEF ChatInv

\* accept fills the next slot, which nobody has used.
LEMMA AcceptStep == ASSUME ChatInv, Accept PROVE ChatInv'
<1>1. PICK k \in ChatClients : /\ conn[k] = "backlog"
                               /\ conn' = [conn EXCEPT ![k] = "open"]
                               /\ cfd' = [cfd EXCEPT ![li] = k]
  BY DEF Accept
<1>2. /\ lpc = "accept" /\ lpc' = "signal"
      /\ UNCHANGED <<sd, cancelled, li, main, mi, thread, shuts>>
  BY DEF Accept, ListenerGoes
<1>3. li \in Slots /\ Unused(li)
  BY <1>2 DEF ChatInv, Filling, BeforeAccept, Slots
<1>4. ChatTyped'
  BY <1>1, <1>2, <1>3 DEF ChatInv, ChatTyped, Connections, ListenerPcs
<1>5. Filling'
  BY <1>1, <1>2, <1>3 DEF ChatInv, ChatTyped, Filling, BeforeAccept, AfterAccept, Unused, Slots
<1>6. Connected'
  <2>1. \A s \in Slots : cfd[s] # k
    BY <1>1 DEF ChatInv, Connected
  <2>2. \A s \in Slots : cfd'[s] = IF s = li THEN k ELSE cfd[s]
    BY <1>1 DEF ChatInv, ChatTyped
  <2>3. \A s \in Slots : cfd[s] \in ChatClients => conn'[cfd[s]] = conn[cfd[s]]
    BY <1>1, <2>1 DEF ChatInv, ChatTyped
  <2>4. conn'[k] = "open"
    BY <1>1 DEF ChatInv, ChatTyped
  <2>5. QED
    BY <1>2, <1>3, <2>1, <2>2, <2>3, <2>4 DEF ChatInv, Connected, Unused, Arriving, Serving
<1>7. Creating' /\ Joining' /\ ShutByThread'
  BY <1>1, <1>2, <1>3 DEF ChatInv, ChatTyped, Creating, InLoop, Joining, ShutByThread
<1>8. QED
  BY <1>4, <1>5, <1>6, <1>7 DEF ChatInv

\* The steps of main.
LEMMA MainSteps == ASSUME ChatInv, MainThread, ~CreateFails PROVE ChatInv'
<1>a. ChatTyped /\ Filling /\ Connected /\ Creating /\ Joining /\ ShutByThread
  BY DEF ChatInv
<1>1. UNCHANGED <<cfd, conn, cancelled, lpc, li, shuts>>
  BY DEF MainThread, MainLocks, Test, CondWait, CreateClient, MainUnlocks, JoinListener,
         JoinClient, MainMoves
<1>2. CASE CreateClient
  <2>1. /\ main = "create" /\ main' = "unlock" /\ thread' = [thread EXCEPT ![mi] = "start"]
        /\ UNCHANGED <<sd, mi>> /\ mi \in Slots
    BY <1>a, <1>2 DEF CreateClient, MainMoves, Creating, InLoop
  <2>2. ChatTyped' /\ Connected'
    BY <1>a, <1>1, <2>1
       DEF ChatTyped, Connected, Creating, MainPcs, ThreadPcs, Arriving, Serving
  <2>3. Filling'
    BY <1>a, <1>1, <2>1 DEF ChatTyped, Filling, Creating, Unused, Arriving
  <2>4. Creating' /\ Joining' /\ ShutByThread'
    BY <1>a, <1>1, <2>1 DEF ChatTyped, Creating, InLoop, Joining, ShutByThread, Slots
  <2>5. QED
    BY <2>2, <2>3, <2>4 DEF ChatInv
<1>3. CASE MainLocks \/ CondWait
  <2>1. main \in InLoop \ {"unlock"} /\ main' \in InLoop \ {"unlock", "create"}
        /\ UNCHANGED <<sd, mi, thread>>
    BY <1>3 DEF MainLocks, CondWait, MainMoves, InLoop
  <2>2. ChatTyped' /\ Connected' /\ Filling' /\ ShutByThread'
    BY <1>a, <1>1, <2>1 DEF ChatTyped, MainPcs, InLoop, Connected, Filling, Unused, ShutByThread
  <2>3. Creating' /\ Joining'
    BY <1>a, <1>1, <2>1 DEF Creating, InLoop, Joining
  <2>4. QED
    BY <2>2, <2>3 DEF ChatInv
<1>4. CASE Test
  <2>1. /\ main = "test" /\ UNCHANGED <<mi, thread>> /\ main \in InLoop \ {"unlock"}
        /\ \/ main' = "will_wait" /\ sd' = sd
           \/ main' = "join_listener" /\ sd' = mi
           \/ main' = "create" /\ sd' = sd /\ sd # 1 /\ ~(cfd[mi] = None /\ sd = 0)
    BY <1>4 DEF Test, MainMoves, InLoop
  <2>2. sd \in {0, 1} /\ mi \in Slots /\ \A s \in Slots : thread[s] = "none" <=> s >= mi
    BY <1>a, <2>1 DEF Creating
  <2>3. ChatTyped' /\ Connected' /\ Filling'
    BY <1>a, <1>1, <2>1, <2>2 DEF ChatTyped, MainPcs, Connected, Filling, Unused, Slots
  <2>4. ShutByThread' /\ Joining'
    BY <1>a, <2>1, <2>2 DEF ShutByThread, Joining, Slots
  <2>5. Creating'
    BY <1>a, <1>1, <2>1, <2>2 DEF Creating, InLoop
  <2>6. QED
    BY <2>3, <2>4, <2>5 DEF ChatInv
<1>5. CASE MainUnlocks
  <2>1. /\ main = "unlock" /\ UNCHANGED <<sd, thread>> /\ mi' = mi + 1
        /\ main' = IF mi + 1 = CLIENT_NUM THEN "join_listener" ELSE "lock"
    BY <1>5 DEF MainUnlocks, MainMoves
  <2>2. sd \in {0, 1} /\ mi \in Slots /\ \A s \in Slots : thread[s] = "none" <=> s > mi
    BY <1>a, <2>1 DEF Creating, InLoop
  <2>3. ChatTyped' /\ Connected' /\ Filling' /\ ShutByThread'
    BY <1>a, <1>1, <2>1, <2>2 DEF ChatTyped, MainPcs, Connected, Filling, Unused, ShutByThread, Slots
  <2>4. Creating'
    BY <1>a, <2>1, <2>2 DEF Creating, InLoop, Slots
  <2>5. Joining'
    BY <2>1, <2>2 DEF Joining, Slots
  <2>6. QED
    BY <2>3, <2>4, <2>5 DEF ChatInv
<1>6. CASE JoinListener \/ JoinClient
  <2>1. /\ main \in {"join_listener", "join"} /\ main' \in {"join", "exit"}
        /\ UNCHANGED <<sd, thread>> /\ mi' \in 0..CLIENT_NUM
    BY <1>a, <1>6 DEF JoinListener, JoinClient, MainMoves, ChatTyped
  <2>2. ChatTyped' /\ Connected' /\ Filling' /\ ShutByThread'
    BY <1>a, <1>1, <2>1 DEF ChatTyped, MainPcs, Connected, Filling, Unused, ShutByThread
  <2>3. Creating' /\ Joining'
    BY <1>a, <2>1 DEF Creating, InLoop, Joining
  <2>4. QED
    BY <2>2, <2>3 DEF ChatInv
<1>7. QED
  BY <1>2, <1>3, <1>4, <1>5, <1>6 DEF MainThread

\* The steps of a thread: it exists, and lets go of its connection only when it
\* closes it.
LEMMA ThreadSteps ==
    ASSUME ChatInv, NEW s \in Slots, ClientThread(s), ~ReadFails(s), ~Broadcast(s) PROVE ChatInv'
<1>a. ChatTyped /\ Filling /\ Connected /\ Creating /\ Joining /\ ShutByThread
  BY DEF ChatInv
<1>1. PICK to \in ThreadPcs \ {"none"} :
        /\ thread[s] # "none" /\ thread' = [thread EXCEPT ![s] = to]
        /\ UNCHANGED <<lpc, li, main, mi>>
        /\ to \in Arriving => thread[s] \in Arriving /\ cfd' = cfd
        /\ to \in Serving => /\ cfd' = cfd
                             /\ \/ thread[s] \in Serving
                                \/ thread[s] \in Arriving /\ cfd[s] \in ChatClients
        /\ thread[s] \in Arriving => to \in Arriving \cup Serving
        /\ shuts' \in [Slots -> BOOLEAN]
  BY <1>a DEF ClientThread, LoadCount, StoreCount, ReadName, ReadLast, Close, Shutdown, ThreadGoes,
              ThreadPcs, Arriving, Serving, ChatTyped
<1>2. /\ sd' \in {sd, 1} /\ cancelled' \in BOOLEAN
      /\ \/ UNCHANGED <<cfd, conn>>
         \/ /\ thread[s] \in Serving /\ to \notin Serving \cup Arriving
            /\ conn' = [conn EXCEPT ![cfd[s]] = "closed"] /\ cfd' = [cfd EXCEPT ![s] = None]
  BY <1>a, <1>1 DEF ClientThread, LoadCount, StoreCount, ReadName, ReadLast, Close, Shutdown,
                    ThreadGoes, Arriving, Serving, ChatTyped
<1>3. \A t \in Slots : thread'[t] = "none" <=> thread[t] = "none"
  BY <1>a, <1>1 DEF ChatTyped
<1>4. ChatTyped'
  BY <1>a, <1>1, <1>2 DEF ChatTyped, Connections
<1>5. Filling'
  <2>1. \A t \in Slots : Unused(t) => Unused(t)'
    BY <1>a, <1>1, <1>2 DEF ChatTyped, Unused, Arriving, Serving
  <2>2. QED
    BY <1>a, <1>1, <2>1 DEF Filling
<1>6. Connected'
  BY <1>a, <1>1, <1>2 DEF Connected, ChatTyped, Arriving, Serving
<1>7. Creating'
  <2>1. main = "create" => cfd'[mi] # None
    <3>1. main = "create" => thread[mi] = "none" /\ mi # s
      BY <1>a, <1>1 DEF Creating, InLoop, ChatTyped, Slots
    <3>2. QED
      BY <1>a, <1>2, <3>1 DEF Creating, InLoop, ChatTyped
  <2>2. main \in InLoop => sd' \in {0, 1}
    BY <1>a, <1>2 DEF Creating
  <2>3. QED
    BY <1>a, <1>1, <1>3, <2>1, <2>2 DEF Creating
<1>8. Joining' /\ ShutByThread'
  <2>1. 0 \in Slots /\ thread[0] # "none"
    BY <1>a, <1>1 DEF Creating, Slots
  <2>2. QED
    BY <1>a, <1>1, <1>2, <1>3, <2>1 DEF Joining, ShutByThread, Slots
<1>9. QED
  BY <1>4, <1>5, <1>6, <1>7, <1>8 DEF ChatInv

LEMMA ChatPreserved == ASSUME ChatInv, [CondChatNext]_chat_vars PROVE ChatInv'
<1>1. CASE UNCHANGED chat_vars
  BY <1>1 DEF chat_vars, shared, ChatInv, ChatTyped, Filling, Unused, Connected, Creating, Joining,
              ShutByThread
<1>2. CASE ListenerStep
  BY <1>2, ListenerMoves, AcceptStep, DeathStep DEF ListenerStep, AcceptFails
<1>3. CASE MainThread
  BY <1>3, MainSteps, DeathStep DEF CreateFails
<1>4. ASSUME NEW s \in Slots, ClientThread(s) PROVE ChatInv'
  BY <1>4, ThreadSteps, DeathStep DEF ReadFails, Broadcast
<1>5. QED
  BY <1>1, <1>2, <1>3, <1>4, ClientStep DEF CondChatNext

THEOREM ChatInvariance == CondChatSpec => []ChatInv
<1>1. ChatInv /\ [CondChatNext]_chat_vars => ChatInv'
  BY ChatPreserved
<1>2. QED
  BY <1>1, ChatInitially, PTL DEF CondChatSpec

-----------------------------------------------------------------------------
(* CondChat: the theorems. *)

\* The slot of a thread that has read its client's name holds a connection, and no other
\* slot does, until the thread has closed it (task3/server.c:84-125), although the
\* listener fills slots while main or others have the mutex, and main may have created the
\* thread for what malloc left in the slot.
THEOREM ConnectionsOwned == CondChatSpec => []OwnConnection
<1>1. ChatInv => OwnConnection
  BY DEF ChatInv, Connected, OwnConnection, Arriving, Serving
<1>2. QED
  BY <1>1, ChatInvariance, PTL

\* Whoever writes to sd at last, main joins only threads that it has created
\* (task3/server.c:224, 236-240).
THEOREM OnlyCreatedJoined == CondChatSpec => []JoinsCreated
<1>1. ChatInv => JoinsCreated
  BY DEF ChatInv, ChatTyped, Joining, JoinsCreated, Slots
<1>2. QED
  BY <1>1, ChatInvariance, PTL
=============================================================================
