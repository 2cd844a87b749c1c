--------------------------- MODULE DiceGame_proofs ---------------------------
(***************************************************************************)
(* The theorems about DiceGame (exercise10/task1), for every finite set of *)
(* players and every die: the four waits of a round at one barrier are     *)
(* never mixed up, n counts the players that are in, and one is left.      *)
(***************************************************************************)
EXTENDS DiceGame, FiniteSetTheorems, WellFoundedInduction, TLAPS

-----------------------------------------------------------------------------
(* The inductive invariant. *)

\* Between two openings of the barrier all threads are in the same part of the loop.
Zone(places) == \A p \in Players : pc[p] \in places

\* Lines 37-44.  n does not change here, so that all threads leave or all stay.
Rolling == /\ Zone({"new", "check", "roll", "b1", "done"})
           /\ \A p \in Players : /\ pc[p] = "done" => n = 1
                                 /\ pc[p] \in {"roll", "b1"} => n > 1
                                 /\ pc[p] = "b1" /\ ~loser[p] => rolls[p] > 0

\* Either nobody is eliminated in this round, or somebody who is in stays.
Judged == \/ /\ current_max_count = n
             /\ \A p \in Players : pc[p] \notin {"decrement", "lose"}
          \/ \E p \in Players \ Out : rolls[p] # current_max

\* Lines 46-61: as soon as the statistics are there, they are right.
Counting == /\ Zone({"statistics", "b2"})
            /\ \A p \in Players : ~loser[p] => rolls[p] > 0
            /\ (\E p \in Players : pc[p] = "statistics") \/ Judged

\* Lines 63-73.
Eliminating == /\ Zone({"eliminate", "decrement", "lose", "b3"})
               /\ Judged
               /\ \A p \in Players : pc[p] = "decrement" => rolls[p] = current_max

InStep == Rolling \/ Counting \/ Eliminating \/ Zone({"b4"})

Losers == \A p \in Players :
             loser[p] => rolls[p] = 0 /\ pc[p] \notin {"roll", "decrement", "lose"}

Joined == parent = "exit" => Zone({"done"})

IInv == DiceTypeOK /\ CountsPlayers /\ InStep /\ Losers /\ Joined

-----------------------------------------------------------------------------
\* A nonempty set of natural numbers has a least element.
LEMMA LeastElement ==
  ASSUME NEW S \in SUBSET Nat, S # {}
  PROVE  \E m \in S : \A k \in S : m <= k
  <1>1. PICK m \in S : \A k \in S : ~(<<k, m>> \in OpToRel(<, Nat))
    BY NatLessThanWellFounded, WFMin, Zenon
  <1>2. \A k \in S : ~(k < m)
    BY <1>1, Zenon DEF OpToRel
  <1>. QED  BY <1>2

\* Among finitely many players one has rolled the most: otherwise take a smallest set
\* of players in which nobody has, and leave one of them out.
LEMMA SomebodyRolledMost ==
  ASSUME NEW f \in [Players -> Nat]
  PROVE  \E p \in Players : \A q \in Players : f[q] <= f[p]
  <1>. DEFINE Bad(S) == S # {} /\ \A p \in S : \E q \in S : f[q] > f[p]
              sizes  == {k \in Nat : \E S \in SUBSET Players : Bad(S) /\ Cardinality(S) = k}
  <1>1. SUFFICES ASSUME Bad(Players)  PROVE FALSE
    BY DiceGameAssumption
  <1>2. sizes # {}
    <2>1. Cardinality(Players) \in Nat
      BY FS_CardinalityType, DiceGameAssumption
    <2>2. Cardinality(Players) \in sizes
      BY <1>1, <2>1
    <2>. QED  BY <2>2
  <1>3. PICK k \in sizes : \A l \in sizes : k <= l
    <2>. HIDE DEF sizes
    <2>1. sizes \in SUBSET Nat
      BY DEF sizes
    <2>. QED  BY <1>2, <2>1, LeastElement
  <1>4. PICK S \in SUBSET Players : Bad(S) /\ Cardinality(S) = k
    OBVIOUS
  <1>5. PICK x \in S : TRUE
    BY <1>4
  <1>6. IsFiniteSet(S) /\ k \in Nat
    BY FS_Subset, DiceGameAssumption
  <1>7. IsFiniteSet(S \ {x}) /\ Cardinality(S \ {x}) = k - 1 /\ k - 1 \in Nat
    <2>. HIDE DEF Bad, sizes
    <2>1. IsFiniteSet(S \ {x}) /\ Cardinality(S \ {x}) = Cardinality(S) - 1
      BY <1>6, FS_RemoveElement
    <2>2. Cardinality(S \ {x}) \in Nat
      BY <2>1, FS_CardinalityType
    <2>. QED  BY <1>4, <2>1, <2>2
  <1>8. ~Bad(S \ {x})
    <2>1. k - 1 \notin sizes
      BY <1>3, <1>6
    <2>2. S \ {x} \in SUBSET Players
      OBVIOUS
    <2>. HIDE DEF Bad
    <2>. QED  BY <1>7, <2>1, <2>2
  <1>. QED
    BY <1>4, <1>5, <1>8

\* What the serial thread computes.
LEMMA Maximum ==
  ASSUME DiceTypeOK, NEW p \in Players, Statistics(p)
  PROVE  /\ current_max' \in Faces \cup {0}
         /\ \A q \in Players : rolls[q] <= current_max'
  <1>1. rolls \in [Players -> Nat]
    <2>1. Faces \cup {0} \subseteq Nat
      BY DiceGameAssumption
    <2>2. rolls \in [Players -> Faces \cup {0}]
      BY DEF DiceTypeOK
    <2>. QED  BY <2>1, <2>2
  <1>2. \E r \in {rolls[q] : q \in Players} : \A q \in Players : rolls[q] <= r
    <2>1. \E h \in Players : \A q \in Players : rolls[q] <= rolls[h]
      BY <1>1, SomebodyRolledMost
    <2>. QED  BY <2>1
  <1>3. /\ current_max' \in {rolls[q] : q \in Players}
        /\ \A q \in Players : rolls[q] <= current_max'
    BY <1>2 DEF Statistics
  <1>. QED  BY <1>3 DEF DiceTypeOK

\* Those who are in are finitely many, and so is every other set of players.
LEMMA FinitelyMany ==
  ASSUME NEW S \in SUBSET Players
  PROVE  /\ IsFiniteSet(S)
         /\ Cardinality(S) \in 0..Cardinality(Players)
         /\ S # {} => Cardinality(S) >= 1
  <1>1. /\ IsFiniteSet(S) /\ IsFiniteSet(Players)
        /\ Cardinality(S) \in Nat /\ Cardinality(Players) \in Nat
    BY FS_Subset, FS_CardinalityType, DiceGameAssumption
  <1>2. Cardinality(S) <= Cardinality(Players)
    BY <1>1, FS_Subset
  <1>3. Cardinality(S) = 0 <=> S = {}
    BY <1>1, FS_EmptySet
  <1>. QED  BY <1>1, <1>2, <1>3

-----------------------------------------------------------------------------
LEMMA Initially == ASSUME DiceInit  PROVE IInv
  <1>1. Out = {} /\ Players \ Out = Players
    BY DEF DiceInit, Out
  <1>2. n \in 0..Cardinality(Players) /\ n >= 1
    BY FinitelyMany, DiceGameAssumption DEF DiceInit
  <1>3. DiceTypeOK
    BY <1>2 DEF DiceInit, DiceTypeOK
  <1>4. CountsPlayers
    BY <1>1, <1>2 DEF DiceInit, CountsPlayers
  <1>. QED
    BY <1>3, <1>4 DEF DiceInit, IInv, InStep, Rolling, Zone, Losers, Joined

\* main changes only the place of a thread that it creates.
LEMMA MainSteps ==
  ASSUME IInv,
         (\E p \in Players : SpawnThread(p)) \/ SpawnFails \/ JoinAll
  PROVE  IInv'
  <1>1. ASSUME NEW p \in Players, SpawnThread(p)  PROVE IInv'
    <2>1. /\ pc[p] = "new" /\ pc' = [pc EXCEPT ![p] = "check"]
          /\ parent' \in {"spawn", "join"} /\ UNCHANGED <<state, loser>>
      BY <1>1 DEF SpawnThread
    <2>2. DiceTypeOK'
      BY <2>1 DEF IInv, DiceTypeOK, state
    <2>3. Out' = Out
      BY <2>1 DEF IInv, DiceTypeOK, Out
    <2>4. CountsPlayers' /\ Losers' /\ Joined'
      BY <2>1, <2>3 DEF IInv, DiceTypeOK, CountsPlayers, Losers, Joined, state
    <2>5. Rolling'
      <3>1. Rolling
        BY <2>1 DEF IInv, InStep, Counting, Eliminating, Zone
      <3>. QED  BY <2>1, <3>1 DEF IInv, DiceTypeOK, Rolling, Zone, state
    <2>. QED  BY <2>2, <2>4, <2>5 DEF IInv, InStep
  <1>2. CASE SpawnFails \/ JoinAll
    <2>1. UNCHANGED <<state, pc, loser>> /\ parent' \in {"failed", "exit"}
      BY <1>2 DEF SpawnFails, JoinAll
    <2>2. DiceTypeOK' /\ CountsPlayers' /\ Losers'
      BY <2>1 DEF IInv, DiceTypeOK, CountsPlayers, Out, Losers, state
    <2>3. InStep'
      BY <2>1 DEF IInv, InStep, Rolling, Counting, Eliminating, Judged, Out, Zone, state
    <2>4. Joined'
      BY <1>2, <2>1 DEF SpawnFails, JoinAll, Joined, Zone
    <2>. QED  BY <2>2, <2>3, <2>4 DEF IInv
  <1>. QED  BY <1>1, <1>2

-----------------------------------------------------------------------------
(* The steps of a thread. *)

\* Lines 37-42: n is the same for everybody who tests it.
LEMMA RollingSteps ==
  ASSUME IInv, NEW p \in Players, CheckPlayers(p) \/ Roll(p)
  PROVE  IInv'
  <1>1. /\ UNCHANGED <<n, current_max, current_max_count, loser, parent>>
        /\ pc[p] \in {"check", "roll"}
        /\ \E to \in {"b1", "roll", "done"} : pc' = [pc EXCEPT ![p] = to]
    BY DEF CheckPlayers, Roll, Goes, state
  <1>2. Out' = Out
    BY <1>1 DEF Out, IInv, DiceTypeOK
  <1>3. Rolling
    BY <1>1 DEF IInv, InStep, Counting, Eliminating, Zone
  <1>4. parent # "exit"
    BY <1>1 DEF IInv, Joined, Zone
  <1>5. CountsPlayers' /\ Joined'
    BY <1>1, <1>2, <1>4 DEF IInv, CountsPlayers, Joined
  <1>6. n \in Nat /\ n >= 1
    BY DEF IInv, DiceTypeOK, CountsPlayers
  <1>7. CASE CheckPlayers(p)
    <2>1. /\ pc[p] = "check" /\ UNCHANGED rolls
          /\ \/ n > 1 /\ ~loser[p] /\ pc' = [pc EXCEPT ![p] = "roll"]
             \/ n > 1 /\ loser[p] /\ pc' = [pc EXCEPT ![p] = "b1"]
             \/ n = 1 /\ pc' = [pc EXCEPT ![p] = "done"]
      BY <1>6, <1>7 DEF CheckPlayers, StaysInLoop, Goes, state
    <2>2. DiceTypeOK' /\ Losers'
      BY <1>1, <2>1 DEF IInv, DiceTypeOK, Losers, Barriers
    <2>3. Rolling'
      BY <1>1, <1>3, <2>1 DEF Rolling, Zone, IInv, DiceTypeOK
    <2>. QED  BY <1>5, <2>2, <2>3 DEF IInv, InStep
  <1>8. CASE Roll(p)
    <2>1. PICK r \in Faces : rolls' = [rolls EXCEPT ![p] = r]
      BY <1>8 DEF Roll
    <2>2. pc[p] = "roll" /\ pc' = [pc EXCEPT ![p] = "b1"] /\ r > 0
      BY <1>8, DiceGameAssumption DEF Roll, Goes
    <2>3. DiceTypeOK' /\ Losers'
      BY <1>1, <2>1, <2>2 DEF IInv, DiceTypeOK, Losers, Barriers
    <2>4. Rolling'
      BY <1>1, <1>3, <2>1, <2>2 DEF Rolling, Zone, IInv, DiceTypeOK
    <2>. QED  BY <1>5, <2>3, <2>4 DEF IInv, InStep
  <1>. QED  BY <1>7, <1>8

\* Lines 46-59: if the maximum was not rolled by all who are in, one of them stays.
LEMMA StatisticsStep ==
  ASSUME IInv, NEW p \in Players, Statistics(p)
  PROVE  IInv'
  <1>1. /\ UNCHANGED <<n, rolls, loser, parent>>
        /\ pc[p] = "statistics" /\ pc' = [pc EXCEPT ![p] = "b2"]
    BY DEF Statistics, Goes
  <1>. DEFINE In == Players \ Out
              M  == {q \in Players : rolls[q] = current_max'}
  <1>2. Out' = Out
    BY <1>1 DEF Out, IInv, DiceTypeOK
  <1>3. Counting
    BY <1>1 DEF IInv, InStep, Rolling, Eliminating, Zone
  <1>4. parent # "exit"
    BY <1>1 DEF IInv, Joined, Zone
  <1>5. CountsPlayers' /\ Joined' /\ Losers'
    BY <1>1, <1>2, <1>4 DEF IInv, DiceTypeOK, CountsPlayers, Joined, Losers
  <1>6. /\ current_max' \in Faces \cup {0}
        /\ \A q \in Players : rolls[q] <= current_max'
    BY Maximum DEF IInv
  <1>7. current_max_count' = Cardinality(M)
    BY DEF Statistics
  <1>8. DiceTypeOK'
    <2>1. M \in SUBSET Players
      OBVIOUS
    <2>2. current_max_count' \in 0..Cardinality(Players)
      BY <1>7, <2>1, FinitelyMany
    <2>. QED  BY <1>1, <1>6, <2>2 DEF IInv, DiceTypeOK, Barriers
  <1>9. \A q \in Players : q \in In <=> ~loser[q]
    BY <1>3 DEF Counting, Zone, Out
  <1>10. M \subseteq In
    <2>1. In # {}
      BY FS_EmptySet DEF IInv, CountsPlayers
    <2>2. PICK q \in Players : ~loser[q]
      BY <1>9, <2>1
    <2>3. rolls[q] > 0 /\ rolls[q] <= current_max'
      BY <1>3, <1>6, <2>2 DEF Counting
    <2>4. current_max' # 0
      <3>1. Faces \cup {0} \subseteq Nat /\ rolls[q] \in Faces \cup {0}
        BY <2>2, DiceGameAssumption DEF IInv, DiceTypeOK
      <3>2. rolls[q] \in Nat /\ current_max' \in Nat
        BY <1>6, <3>1
      <3>. QED  BY <2>3, <3>2
    <2>. QED  BY <1>9, <2>4 DEF IInv, Losers
  <1>11. Judged'
    <2>1. \A q \in Players : pc'[q] \notin {"decrement", "lose"}
      BY <1>1, <1>3 DEF Counting, Zone, IInv, DiceTypeOK
    <2>2. CASE M = In
      BY <1>1, <1>7, <2>1, <2>2 DEF Judged, IInv, CountsPlayers
    <2>3. CASE M # In
      BY <1>1, <1>2, <1>10, <2>3 DEF Judged
    <2>. QED  BY <2>2, <2>3
  <1>12. Counting'
    BY <1>1, <1>3, <1>11 DEF Counting, Zone, IInv, DiceTypeOK
  <1>. QED  BY <1>5, <1>8, <1>12 DEF IInv, InStep

\* Lines 63-65.
LEMMA EliminateStep ==
  ASSUME IInv, NEW p \in Players, Eliminate(p)
  PROVE  IInv'
  <1>1. /\ UNCHANGED <<state, loser, parent>> /\ pc[p] = "eliminate"
        /\ \/ /\ pc' = [pc EXCEPT ![p] = "decrement"]
              /\ ~loser[p] /\ rolls[p] = current_max /\ current_max_count # n
           \/ pc' = [pc EXCEPT ![p] = "b3"]
    BY DEF Eliminate, Goes, RolledMost
  <1>2. Out' = Out
    BY <1>1 DEF Out, IInv, DiceTypeOK
  <1>3. Eliminating
    BY <1>1 DEF IInv, InStep, Rolling, Counting, Zone
  <1>4. parent # "exit"
    BY <1>1 DEF IInv, Joined, Zone
  <1>5. DiceTypeOK' /\ Losers'
    BY <1>1 DEF IInv, DiceTypeOK, Losers, state, Barriers
  <1>6. CountsPlayers' /\ Joined'
    BY <1>1, <1>2, <1>4 DEF IInv, CountsPlayers, Joined, state
  <1>7. Judged'
    BY <1>1, <1>2, <1>3 DEF Eliminating, Judged, state, IInv, DiceTypeOK
  <1>8. Eliminating'
    BY <1>1, <1>3, <1>7 DEF Eliminating, Zone, state, IInv, DiceTypeOK
  <1>. QED  BY <1>5, <1>6, <1>8 DEF IInv, InStep

\* Line 66, an atomic operation: who is not counted out yet leaves one behind.
LEMMA DecrementStep ==
  ASSUME IInv, NEW p \in Players, Decrement(p)
  PROVE  IInv'
  <1>1. /\ UNCHANGED <<current_max, current_max_count, rolls, loser, parent>>
        /\ pc[p] = "decrement" /\ pc' = [pc EXCEPT ![p] = "lose"] /\ n' = n - 1
    BY DEF Decrement, Goes
  <1>2. ~loser[p] /\ p \notin Out /\ Out' = Out \cup {p}
    BY <1>1 DEF Out, IInv, DiceTypeOK, Losers
  <1>3. Eliminating
    BY <1>1 DEF IInv, InStep, Rolling, Counting, Zone
  <1>4. PICK w \in Players \ Out : rolls[w] # current_max
    BY <1>1, <1>3 DEF Eliminating, Judged
  <1>5. w \in Players \ Out'
    BY <1>1, <1>2, <1>3, <1>4 DEF Eliminating
  <1>6. n' = Cardinality(Players \ Out')
    <2>1. Players \ Out' = (Players \ Out) \ {p} /\ p \in Players \ Out
      BY <1>2
    <2>2. IsFiniteSet(Players \ Out)
      BY FinitelyMany
    <2>3. Cardinality(Players \ Out') = Cardinality(Players \ Out) - 1
      BY <2>1, <2>2, FS_RemoveElement
    <2>. QED  BY <1>1, <2>3 DEF IInv, CountsPlayers
  <1>7. n' >= 1 /\ n' \in 0..Cardinality(Players)
    <2>1. Players \ Out' \in SUBSET Players /\ Players \ Out' # {}
      BY <1>5
    <2>. QED  BY <1>6, <2>1, FinitelyMany
  <1>8. parent # "exit"
    BY <1>1 DEF IInv, Joined, Zone
  <1>9. DiceTypeOK' /\ CountsPlayers' /\ Losers' /\ Joined'
    BY <1>1, <1>2, <1>6, <1>7, <1>8
       DEF IInv, DiceTypeOK, CountsPlayers, Losers, Joined
  <1>10. Judged'
    BY <1>1, <1>4, <1>5 DEF Judged
  <1>11. Eliminating'
    BY <1>1, <1>3, <1>10 DEF Eliminating, Zone, IInv, DiceTypeOK
  <1>. QED  BY <1>9, <1>11 DEF IInv, InStep

\* Lines 67-69.
LEMMA LoseStep ==
  ASSUME IInv, NEW p \in Players, Lose(p)
  PROVE  IInv'
  <1>1. /\ UNCHANGED <<n, current_max, current_max_count, parent>>
        /\ pc[p] = "lose" /\ pc' = [pc EXCEPT ![p] = "b3"]
        /\ rolls' = [rolls EXCEPT ![p] = 0] /\ loser' = [loser EXCEPT ![p] = TRUE]
    BY DEF Lose, Goes, AfterLost, Lost
  <1>2. p \in Out /\ Out' = Out
    BY <1>1 DEF Out, IInv, DiceTypeOK
  <1>3. Eliminating
    BY <1>1 DEF IInv, InStep, Rolling, Counting, Zone
  <1>4. parent # "exit"
    BY <1>1 DEF IInv, Joined, Zone
  <1>5. DiceTypeOK' /\ Losers'
    BY <1>1 DEF IInv, DiceTypeOK, Losers, Barriers
  <1>6. CountsPlayers' /\ Joined'
    BY <1>1, <1>2, <1>4 DEF IInv, CountsPlayers, Joined
  <1>7. Judged'
    <2>1. PICK w \in Players \ Out : rolls[w] # current_max
      BY <1>1, <1>3 DEF Eliminating, Judged
    <2>2. rolls'[w] = rolls[w]
      BY <1>1, <1>2, <2>1 DEF IInv, DiceTypeOK
    <2>. QED  BY <1>1, <1>2, <2>1, <2>2 DEF Judged
  <1>8. Eliminating'
    BY <1>1, <1>3, <1>7 DEF Eliminating, Zone, IInv, DiceTypeOK
  <1>. QED  BY <1>5, <1>6, <1>8 DEF IInv, InStep

\* All threads wait at the same call, and go on to the next part of the round.
LEMMA BarrierStep ==
  ASSUME IInv, BarrierOpens
  PROVE  IInv'
  <1>1. PICK s \in Players : pc' = [p \in Players |-> After(pc[p], p = s)]
    BY DEF BarrierOpens
  <1>2. UNCHANGED <<state, loser, parent>> /\ \A p \in Players : pc[p] \in Barriers
    BY DEF BarrierOpens
  <1>3. Zone({"b1"}) \/ Zone({"b2"}) \/ Zone({"b3"}) \/ Zone({"b4"})
    BY <1>2 DEF IInv, InStep, Rolling, Counting, Eliminating, Zone, Barriers
  <1>4. \A p \in Players : pc'[p] \in {"statistics", "b2", "eliminate", "b4", "check"}
    BY <1>1, <1>2 DEF After, Barriers
  <1>5. DiceTypeOK' /\ Losers'
    BY <1>1, <1>2, <1>4 DEF IInv, DiceTypeOK, Losers, state, Barriers
  <1>6. Out' = Out
    BY <1>2, <1>4 DEF Out, Barriers
  <1>7. CountsPlayers' /\ Joined'
    <2>1. parent # "exit"
      BY <1>2 DEF IInv, Joined, Zone, Barriers
    <2>. QED  BY <1>2, <1>6, <2>1 DEF IInv, CountsPlayers, Joined, state
  <1>8. InStep'
    <2>1. CASE Zone({"b1"})
      <3>1. Rolling
        BY <2>1 DEF IInv, InStep, Counting, Eliminating, Zone
      <3>2. Zone({"statistics", "b2"})' /\ pc'[s] = "statistics"
        BY <1>1, <2>1 DEF Zone, After
      <3>. QED
        BY <1>2, <2>1, <3>1, <3>2 DEF InStep, Rolling, Counting, Zone, state
    <2>2. CASE Zone({"b2"})
      <3>1. Judged
        BY <2>2 DEF IInv, InStep, Rolling, Counting, Eliminating, Zone
      <3>2. Zone({"eliminate"})'
        BY <1>1, <2>2 DEF Zone, After
      <3>3. Judged'
        BY <1>2, <1>4, <1>6, <3>1 DEF Judged, state
      <3>. QED  BY <3>2, <3>3 DEF InStep, Eliminating, Zone
    <2>3. CASE Zone({"b3"})
      BY <1>1, <2>3 DEF InStep, Zone, After
    <2>4. CASE Zone({"b4"})
      BY <1>1, <2>4 DEF InStep, Rolling, Zone, After
    <2>. QED  BY <1>3, <2>1, <2>2, <2>3, <2>4
  <1>. QED  BY <1>5, <1>7, <1>8 DEF IInv

-----------------------------------------------------------------------------
(* The theorems. *)

\* IInv is an invariant of the game.
THEOREM Invariance == DiceSpec => []IInv
  <1>1. IInv /\ [DiceNext]_dice_vars => IInv'
    <2>. SUFFICES ASSUME IInv, [DiceNext]_dice_vars  PROVE IInv'
      OBVIOUS
    <2>1. ASSUME NEW p \in Players, Thread(p)  PROVE IInv'
      BY <2>1, RollingSteps, StatisticsStep, EliminateStep, DecrementStep, LoseStep
         DEF Thread
    <2>2. CASE UNCHANGED dice_vars
      <3>1. UNCHANGED <<n, current_max, current_max_count, rolls, pc, loser, parent>>
        BY <2>2 DEF dice_vars, state
      <3>2. DiceTypeOK' /\ CountsPlayers' /\ Losers' /\ Joined'
        BY <3>1 DEF IInv, DiceTypeOK, CountsPlayers, Out, Losers, Joined, Zone
      <3>3. InStep'
        BY <3>1 DEF IInv, InStep, Rolling, Counting, Eliminating, Judged, Out, Zone
      <3>. QED  BY <3>2, <3>3 DEF IInv
    <2>. QED
      BY <2>1, <2>2, MainSteps, BarrierStep DEF DiceNext, Barrier
  <1>2. DiceInit => IInv
    BY Initially
  <1>. QED  BY <1>1, <1>2, PTL DEF DiceSpec

\* The types of game_state and of the locals of thread_func.
THEOREM TypeCorrect == DiceSpec => []DiceTypeOK
  <1>1. IInv => DiceTypeOK
    BY DEF IInv
  <1>. QED  BY <1>1, Invariance, PTL

\* The shared n is the number of those who are in, and never 0 (task1.c:66-69).
THEOREM PlayersCounted == DiceSpec => []CountsPlayers
  <1>1. IInv => CountsPlayers
    BY DEF IInv
  <1>. QED  BY <1>1, Invariance, PTL

\* Threads that wait, wait at the same of the four calls, and nobody has left the loop
\* (task1.c:37, 44, 61, 73, 76).
THEOREM BarrierShared == DiceSpec => []SameBarrier
  <1>1. IInv => SameBarrier
    <2>. SUFFICES ASSUME IInv  PROVE SameBarrier
      OBVIOUS
    <2>1. CASE Rolling
      BY <2>1 DEF Rolling, Zone, SameBarrier, Barriers
    <2>2. CASE Counting \/ Eliminating \/ Zone({"b4"})
      BY <2>2 DEF Counting, Eliminating, Zone, SameBarrier, Barriers
    <2>. QED  BY <2>1, <2>2 DEF IInv, InStep
  <1>. QED  BY <1>1, Invariance, PTL

\* When main has joined all threads, one player is left (exercise10/README.md:12).
THEOREM LastOneWins == DiceSpec => []OneWinner
  <1>1. IInv => OneWinner
    <2>. SUFFICES ASSUME IInv, parent = "exit"
                  PROVE  Cardinality({p \in Players : ~loser[p]}) = 1
      BY DEF OneWinner
    <2>1. Zone({"done"})
      BY DEF IInv, Joined
    <2>2. PICK p \in Players : TRUE
      BY DiceGameAssumption
    <2>3. n = 1
      BY <2>1, <2>2 DEF IInv, InStep, Rolling, Counting, Eliminating, Zone
    <2>4. {q \in Players : ~loser[q]} = Players \ Out
      BY <2>1 DEF Out, Zone
    <2>. QED  BY <2>3, <2>4 DEF IInv, CountsPlayers
  <1>. QED  BY <1>1, Invariance, PTL
=============================================================================
