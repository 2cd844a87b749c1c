----------------------------- MODULE UnsyncRing -----------------------------
(***************************************************************************)
(* exercise05/task2/task2.c: child A writes K products into a circular     *)
(* buffer of L elements in shared memory, child B sums K elements of it,   *)
(* and nothing synchronizes them: B may read an element before A wrote it. *)
(* uint64_t arithmetic is arithmetic modulo W.                             *)
(***************************************************************************)
EXTENDS Integers

CONSTANTS N, K, L,   \* argv[1..3]
          W          \* 2^64

VARIABLES buffer,    \* shared_mem->buffer
          result,    \* shared_mem->result
          written,   \* iterations A has completed
          summed     \* iterations B has completed

ring_vars == <<buffer, result, written, summed>>

\* What A stores in iteration i.
Product(i) == (i * N) % W

\* ftruncate fills a new shared memory object with zeros.
RingInit == /\ buffer = [s \in 0..(L - 1) |-> 0]
            /\ result = 0
            /\ written = 0
            /\ summed = 0

Write == LET i == written + 1 IN
         /\ i <= K
         /\ buffer' = [buffer EXCEPT ![i % L] = Product(i)]
         /\ written' = i
         /\ UNCHANGED <<result, summed>>

Sum == LET i == summed + 1 IN
       /\ i <= K
       /\ result' = (result + buffer[i % L]) % W
       /\ summed' = i
       /\ UNCHANGED <<buffer, written>>

RingSpec == RingInit /\ [][Write \/ Sum]_ring_vars

\* validate_result: what is left of the result when every product is subtracted.
Expected[k \in 0..K] == IF k = 0 THEN 0 ELSE (Expected[k - 1] + Product(k)) % W
Checksum == (result - Expected[K]) % W
=============================================================================
