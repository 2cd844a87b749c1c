------------------------------ MODULE DiceGame ------------------------------
(***************************************************************************)
(* exercise10/task1/task1.c: a dice game between threads that synchronize  *)
(* with one barrier, which every thread passes four times a round.  Who    *)
(* rolls the highest number is out; equal rolls of all repeat the round.   *)
(***************************************************************************)
EXTENDS Integers, FiniteSets

CONSTANTS Players,   \* the player threads
          Faces      \* the numbers on the die

ASSUME DiceGameAssumption ==
    /\ IsFiniteSet(Players) /\ Players # {} /\ Faces \subseteq Nat \ {0} /\ Faces # {}

VARIABLES
    \* game_state
    n,                  \* the number of players that are still in
    current_max, current_max_count,
    rolls,
    \* the threads
    pc, loser,
    parent              \* where the main thread is

state     == <<n, current_max, current_max_count, rolls>>
dice_vars == <<state, pc, loser, parent>>

Barriers == {"b1", "b2", "b3", "b4"}   \* lines 44, 61, 73 and 76

DiceInit == /\ n = Cardinality(Players)
            /\ current_max = 0 /\ current_max_count = 0 /\ rolls = [p \in Players |-> 0]
            /\ pc = [p \in Players |-> "new"] /\ loser = [p \in Players |-> FALSE]
            /\ parent = "spawn"

-----------------------------------------------------------------------------
(* The main thread.  When a thread cannot be created the process exits. *)

SpawnThread(p) ==
    /\ parent = "spawn" /\ pc[p] = "new" /\ pc' = [pc EXCEPT ![p] = "check"]
    /\ parent' = IF \A q \in Players \ {p} : pc[q] # "new" THEN "join" ELSE "spawn"
    /\ UNCHANGED <<state, loser>>

SpawnFails ==
    /\ parent = "spawn" /\ parent' = "failed" /\ UNCHANGED <<state, pc, loser>>

JoinAll ==
    /\ parent = "join"
    /\ \A p \in Players : pc[p] = "done"
    /\ parent' = "exit" /\ UNCHANGED <<state, pc, loser>>

-----------------------------------------------------------------------------
(* thread_func. *)

Goes(p, from, to) == pc[p] = from /\ pc' = [pc EXCEPT ![p] = to]

\* Mutant of StaysInLoop: a loser leaves the loop.
LosersLeave(p) == n > 1 /\ ~loser[p]
\* while (*num_players > 1)
StaysInLoop(p) == n > 1

CheckPlayers(p) ==
    /\ IF StaysInLoop(p) THEN Goes(p, "check", IF loser[p] THEN "b1" ELSE "roll")
                         ELSE Goes(p, "check", "done")
    /\ UNCHANGED <<state, loser, parent>>

Roll(p) ==
    /\ Goes(p, "roll", "b1")
    /\ \E r \in Faces : rolls' = [rolls EXCEPT ![p] = r]
    /\ UNCHANGED <<n, current_max, current_max_count, loser, parent>>

(***************************************************************************)
(* pthread_barrier_wait lets its callers go when there are as many of them *)
(* as players, whichever of the four calls each of them made.  One is told *)
(* that it is the serial thread.                                           *)
(***************************************************************************)
After(b, serial) == CASE b = "b1" -> IF serial THEN "statistics" ELSE "b2"
                      [] b = "b2" -> "eliminate"
                      [] b = "b3" -> "b4"
                      [] b = "b4" -> "check"

BarrierOpens ==
    /\ \A p \in Players : pc[p] \in Barriers
    /\ \E s \in Players : pc' = [p \in Players |-> After(pc[p], p = s)]
    /\ UNCHANGED <<state, loser, parent>>

\* The serial thread goes over all rolls; those of the losers are 0.
Statistics(p) ==
    /\ Goes(p, "statistics", "b2")
    /\ current_max' = CHOOSE r \in {rolls[q] : q \in Players} :
                        \A q \in Players : rolls[q] <= r
    /\ current_max_count' = Cardinality({q \in Players : rolls[q] = current_max'})
    /\ UNCHANGED <<n, rolls, loser, parent>>

\* Mutant of RolledMost: without the test that not all rolled the same.
IsMaximum(p)  == rolls[p] = current_max
\* The condition of lines 64-65: n is read while others may change it.
RolledMost(p) == current_max_count # n /\ rolls[p] = current_max

Eliminate(p) ==
    /\ Goes(p, "eliminate", IF ~loser[p] /\ RolledMost(p) THEN "decrement" ELSE "b3")
    /\ UNCHANGED <<state, loser, parent>>

Decrement(p) ==
    /\ Goes(p, "decrement", "lose") /\ n' = n - 1
    /\ UNCHANGED <<current_max, current_max_count, rolls, loser, parent>>

\* Mutants of Lost and AfterLost: the loser stays in the game, and its thread returns.
NotLost   == FALSE
Returns   == "done"
Lost      == TRUE
AfterLost == "b3"

Lose(p) ==
    /\ Goes(p, "lose", AfterLost) /\ rolls' = [rolls EXCEPT ![p] = 0]
    /\ loser' = [loser EXCEPT ![p] = Lost]
    /\ UNCHANGED <<n, current_max, current_max_count, parent>>

-----------------------------------------------------------------------------
Thread(p) == /\ parent # "failed"
             /\ \/ CheckPlayers(p) \/ Roll(p) \/ Statistics(p)
                \/ Eliminate(p) \/ Decrement(p) \/ Lose(p)

Barrier == parent # "failed" /\ BarrierOpens

DiceNext == \/ \E p \in Players : SpawnThread(p) \/ Thread(p)
            \/ SpawnFails \/ Barrier \/ JoinAll

\* Every thread is scheduled; nothing is said about what it rolls.
DiceFairness == /\ WF_dice_vars(\E p \in Players : SpawnThread(p))
                /\ WF_dice_vars(JoinAll) /\ WF_dice_vars(Barrier)
                /\ \A p \in Players : WF_dice_vars(Thread(p))

DiceSpec == DiceInit /\ [][DiceNext]_dice_vars /\ DiceFairness

-----------------------------------------------------------------------------
(* Properties. *)

\* Every variable has its type: the fields of game_state and the locals of thread_func.
DiceTypeOK == /\ n \in 0..Cardinality(Players)
              /\ current_max \in Faces \cup {0}
              /\ current_max_count \in 0..Cardinality(Players)
              /\ rolls \in [Players -> Faces \cup {0}]
              /\ pc \in [Players -> Barriers \cup {"new", "check", "roll", "statistics",
                                       "eliminate", "decrement", "lose", "done"}]
              /\ loser \in [Players -> BOOLEAN]
              /\ parent \in {"spawn", "join", "exit", "failed"}

\* The threads that have been counted out: losers, and one that is about to be.
Out == {p \in Players : loser[p] \/ pc[p] = "lose"}

\* The shared n is the number of players that are in, in every interleaving of the
\* decrements (task1.c:66-69), and the last one is never counted out.
CountsPlayers == /\ n = Cardinality(Players \ Out)
                 /\ n >= 1

\* The four waits of a round are never mixed up: whoever waits, waits at the same
\* call, although they share one barrier; and no thread has left the loop while
\* another one waits, which would be for ever (task1.c:37, 44, 61, 73, 76).
SameBarrier ==
    \A p, q \in Players : pc[p] \in Barriers =>
        /\ pc[q] # "done"
        /\ (\A r \in Players : pc[r] \in Barriers) => pc[q] = pc[p]

AllAt(b) == \A p \in Players : pc[p] = b

\* "The game is finished if only one player is left" (exercise10/README.md:12).
OneWinner == parent = "exit" => Cardinality({p \in Players : ~loser[p]}) = 1

\* A round that has begun is finished by every thread (lines 37-77).
RoundsEnd == \A p \in Players :
                (pc[p] = "b1") ~> (pc[p] = "check" \/ parent = "failed")

\* "The player(s) with the highest score are then eliminated from the game"
\* (exercise10/README.md:10), unless all remaining players rolled the same.
AllMaximaEliminated ==
    AllAt("b3") =>
        \/ \A p \in Players \ Out : rolls[p] # current_max
        \/ \A p \in Players \ Out : rolls[p] = current_max /\ current_max_count = n
=============================================================================
